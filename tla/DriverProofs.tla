---------------------------- MODULE DriverProofs -----------------------------
(***************************************************************************)
(* The three platform drivers, for every number of reports and calls: Read *)
(* and Write implement the contract of driver.Device, and the native       *)
(* resources of a handle end with it.  The macOS driver is taken with any  *)
(* queue size, the Linux driver with any sequence of devices behind its    *)
(* entry.  After the parts on each of them, one puts the three together,   *)
(* and the last one is about the cards and contexts of PC/SC.              *)
(***************************************************************************)
EXTENDS MCDrivers, PcscBackend, TLAPS

\* Zenon proves the leaves, except for those that cite SMT.
USE Zenon

-----------------------------------------------------------------------------
(* Linux: LinuxDriver and LinuxOpen. *)

Parts == {"info", "descriptor", "unique", "strings"}

Points == {"pin", "pinPath", "resolve", "number", "node", "hid", "usb", "report",
           "verifyPath", "verify", "open", "fstat", "info", "descriptor", "unique",
           "match", "returned"}

Entry == [sysPath : Nat, dev : Nat, metadata : Metadata]

OpenTypeOK ==
  /\ plugged \in 1 .. Len(Attributes)
  /\ present \in {0, plugged}
  /\ at \in Points
  /\ anchor \in [inode : 0 .. plugged, path : Nat]
  /\ item \in Entry
  /\ round \in 1 .. 3
  /\ fd \in 0 .. plugged

\* Where openWithSystem stands, and what it holds there.
ProgressInv ==
  /\ at \notin {"pin", "returned"} => anchor.inode # 0
  /\ at = "pin" => item = NoEntry /\ fd = 0
  /\ at = "open" => round = 2
  /\ at \in {"fstat", "info", "descriptor", "unique", "match"} => round >= 2
  /\ round >= 2 /\ at # "open" => fd # 0
  /\ at \in {"verifyPath", "verify", "open", "fstat", "info", "descriptor", "unique",
             "match"} => item.sysPath = expected.sysPath
  /\ handle = "opening" <=> at # "returned"

\* The entry was read of incarnation i; 0 is not read, or unknown.
ReadOf(entry, i) ==
  /\ entry.sysPath \in {0, Attributes[i].sysPath}
  /\ \A part \in Parts : entry.metadata[part] \in {0, Attributes[i].metadata[part]}

\* While the pinned incarnation is still there it has been there all the time,
\* so all that was opened and read is its.
PinnedInv ==
  anchor.inode # 0 /\ (present = anchor.inode \/ at = "match") =>
    /\ fd \in {0, anchor.inode}
    /\ ReadOf(item, anchor.inode)

ReturnedInv ==
  /\ handle = "open" =>
       /\ fd # 0
       /\ Attributes[fd].sysPath = expected.sysPath
       /\ Wanted(Attributes[fd].metadata)
  /\ handle = "refused" => fd = 0

OpenInv == OpenTypeOK /\ ProgressInv /\ PinnedInv /\ ReturnedInv

-----------------------------------------------------------------------------
\* The incarnations have the attributes that inspection and ioctl compare.
LEMMA IncarnationFacts ==
  ASSUME NEW i \in 1 .. Len(Attributes)
  PROVE  Attributes[i] \in Incarnation
BY OpenAssumption, SMT

LEMMA OpenInitInv == ContractInit /\ LinuxInit => OpenInv
<1> SUFFICES ASSUME ContractInit, LinuxInit PROVE OpenInv
  OBVIOUS
<1> USE OpenAssumption DEF ContractInit, LinuxInit, OpenInit, NoAnchor, NoEntry, NoMetadata
<1>1. OpenTypeOK
  BY SMT DEF OpenTypeOK, Points, Entry, Metadata
<1>2. ProgressInv /\ PinnedInv /\ ReturnedInv
  BY SMT DEF ProgressInv, PinnedInv, ReturnedInv
<1> QED
  BY <1>1, <1>2 DEF OpenInv

\* openWithSystem refuses.
LEMMA RefusalStep == OpenInv /\ Fails => OpenInv'
<1> SUFFICES ASSUME OpenInv, Fails PROVE OpenInv'
  OBVIOUS
<1> USE DEF OpenInv, Fails, Return, NoAnchor, NoEntry, NoMetadata
<1>1. OpenTypeOK'
  BY SMT DEF OpenTypeOK, Points, Entry, Metadata
<1>2. ProgressInv'
  BY SMT DEF ProgressInv
<1>3. PinnedInv' /\ ReturnedInv'
  BY DEF PinnedInv, ReturnedInv
<1> QED
  BY <1>1, <1>2, <1>3

\* The system calls that leave descriptor, anchor and entry alone.
LEMMA LookStep ==
  ASSUME OpenInv, UNCHANGED <<contractVars, present, plugged, anchor, item, fd>>,
         \/ at = "node" /\ at' = "hid" /\ round' = round
         \/ at = "fstat" /\ at' = "resolve" /\ round' = round
         \/ at = "info" /\ at' = "descriptor" /\ round' = round
         \/ at = "descriptor" /\ at' = "unique" /\ round' = round
         \/ at = "unique" /\ at' = "verifyPath" /\ round' = round
         \/ at = "verifyPath" /\ at' = "verify" /\ round' = round
  PROVE  OpenInv'
<1> USE DEF OpenInv, contractVars
<1>1. OpenTypeOK'
  BY DEF OpenTypeOK, Points
<1>2. ProgressInv'
  BY DEF ProgressInv, OpenTypeOK
<1>3. PinnedInv'
  BY DEF PinnedInv, ReadOf
<1>4. ReturnedInv'
  BY DEF ReturnedInv, Wanted
<1> QED
  BY <1>1, <1>2, <1>3, <1>4

\* verifySysfs: what it finds pinned now was pinned all along.
LEMMA VerifyStep == OpenInv /\ verifySysfs => OpenInv'
<1> SUFFICES ASSUME OpenInv, verifySysfs PROVE OpenInv'
  OBVIOUS
<1>1. CASE at = "verifyPath"
  BY <1>1, LookStep DEF verifySysfs, Proceed
<1>2. CASE at = "verify"
  <2>1. /\ present = anchor.inode
        /\ at' = <<"open", "info", "match">>[round]
        /\ round' = IF round = 3 THEN 3 ELSE round + 1
        /\ UNCHANGED <<handle, present, plugged, anchor, item, fd>>
    BY <1>2 DEF verifySysfs, Proceed, contractVars
  <2>2. /\ round = 1 => at' = "open" /\ round' = 2
        /\ round = 2 => at' = "info" /\ round' = 3
        /\ round = 3 => at' = "match" /\ round' = 3
    BY <2>1, SMT
  <2>3. round \in {1, 2, 3}
    BY SMT DEF OpenInv, OpenTypeOK
  <2>4. OpenTypeOK'
    BY <2>1, <2>2, <2>3, SMT DEF OpenInv, OpenTypeOK, Points
  <2>5. ProgressInv'
    BY <1>2, <2>1, <2>2, <2>3, SMT DEF OpenInv, ProgressInv
  <2>6. PinnedInv'
    BY <2>1 DEF OpenInv, PinnedInv, ReadOf
  <2>7. ReturnedInv'
    BY <2>1 DEF OpenInv, ReturnedInv, Wanted
  <2> QED
    BY <2>4, <2>5, <2>6, <2>7 DEF OpenInv
<1> QED
  BY <1>1, <1>2 DEF verifySysfs

LEMMA AnchorStep == OpenInv /\ anchorSysfs => OpenInv'
<1> SUFFICES ASSUME OpenInv, anchorSysfs PROVE OpenInv'
  OBVIOUS
<1> USE DEF OpenInv, anchorSysfs, Proceed, Steps, contractVars, NoEntry, NoMetadata
<1>1. present \in 1 .. Len(Attributes) /\ Attributes[present] \in Incarnation
  BY IncarnationFacts DEF OpenTypeOK
<1>2. OpenTypeOK'
  BY <1>1, SMT DEF OpenTypeOK, Points, Shown, Incarnation
<1>3. ProgressInv'
  BY <1>1, SMTT(30) DEF ProgressInv, OpenTypeOK
<1>4. PinnedInv'
  BY SMT DEF PinnedInv, ReadOf, ProgressInv, OpenTypeOK, Parts
<1>5. ReturnedInv'
  BY DEF ReturnedInv, Wanted
<1> QED
  BY <1>2, <1>3, <1>4, <1>5

LEMMA InspectStep == OpenInv /\ (inspect \/ readUSBMetadata) => OpenInv'
<1> SUFFICES ASSUME OpenInv, inspect \/ readUSBMetadata PROVE OpenInv'
  OBVIOUS
<1> USE DEF OpenInv, inspect, readUSBMetadata, HasRead, NoMetadata, Proceed, Steps,
            contractVars, Shown
<1>1. \A i \in {present} \ {0} : i \in 1 .. Len(Attributes) /\ Attributes[i] \in Incarnation
  BY IncarnationFacts DEF OpenTypeOK
<1>2. OpenTypeOK'
  <2>1. item \in Entry /\ (present # 0 => Shown \in Incarnation)
    BY <1>1 DEF OpenTypeOK
  <2>2. item' \in Entry
    <3>1. /\ item.sysPath \in Nat /\ item.dev \in Nat
          /\ item.metadata.info \in Nat /\ item.metadata.unique \in Nat
          /\ item.metadata.strings \in Nat
      BY <2>1 DEF Entry, Metadata
    <3>2. present # 0 => /\ Shown.sysPath \in Nat /\ Shown.dev \in Nat
                         /\ Shown.metadata.info \in Nat /\ Shown.metadata.descriptor \in Nat
                         /\ Shown.metadata.unique \in Nat /\ Shown.metadata.strings \in Nat
      BY <2>1 DEF Incarnation, Metadata
    <3>3. CASE inspect
      BY <3>1, <3>2, <3>3, SMT DEF Entry, Metadata
    <3>4. CASE readUSBMetadata
      <4>1. PICK strings \in {0} \cup {Attributes[i].metadata.strings : i \in {present} \ {0}} :
               HasRead(item.metadata.info, 0, item.metadata.unique, strings)
        BY <3>4
      <4>2. strings \in Nat
        BY <3>2, SMT
      <4> QED
        BY <3>1, <4>1, <4>2 DEF Entry, Metadata
    <3> QED
      BY <3>3, <3>4
  <2>3. at' \in Points
    BY SMT DEF Points
  <2> QED
    BY <2>2, <2>3 DEF OpenTypeOK
<1>3. ProgressInv'
  BY <1>1, SMTT(30) DEF ProgressInv, OpenTypeOK, SameAddress, Entry, Metadata
<1>4. PinnedInv'
  BY <1>1, SMTT(30) DEF PinnedInv, ReadOf, ProgressInv, OpenTypeOK, Parts, Entry, Metadata
<1>5. ReturnedInv'
  BY DEF ReturnedInv, Wanted
<1> QED
  BY <1>2, <1>3, <1>4, <1>5

LEMMA NodeStep == OpenInv /\ openNode => OpenInv'
<1> SUFFICES ASSUME OpenInv, openNode PROVE OpenInv'
  OBVIOUS
<1> USE DEF OpenInv, openNode, Proceed, contractVars
<1>1. OpenTypeOK'
  BY SMT DEF OpenTypeOK, Points
<1>2. ProgressInv'
  BY SMT DEF ProgressInv
<1>3. PinnedInv'
  BY DEF PinnedInv, ReadOf
<1>4. ReturnedInv'
  BY DEF ReturnedInv, ProgressInv
<1> QED
  BY <1>1, <1>2, <1>3, <1>4

\* Unplugging takes the pinned incarnation away for good: a device that comes
\* back is a later one.
LEMMA PlugStep == OpenInv /\ Plug => OpenInv'
<1> SUFFICES ASSUME OpenInv, Plug PROVE OpenInv'
  OBVIOUS
<1> USE OpenAssumption DEF OpenInv, Plug, contractVars
<1>1. OpenTypeOK'
  BY SMT DEF OpenTypeOK
<1>2. ProgressInv'
  BY DEF ProgressInv
<1>3. PinnedInv'
  BY SMT DEF PinnedInv, ReadOf, OpenTypeOK
<1>4. ReturnedInv'
  BY DEF ReturnedInv, Wanted
<1> QED
  BY <1>1, <1>2, <1>3, <1>4

LEMMA MatchStep == OpenInv /\ matches => OpenInv'
<1> SUFFICES ASSUME OpenInv, matches PROVE OpenInv'
  OBVIOUS
<1> USE DEF OpenInv, matches, Return, NoAnchor, NoEntry, NoMetadata
<1>1. OpenTypeOK'
  BY SMT DEF OpenTypeOK, Points, Entry, Metadata
<1>2. ProgressInv'
  BY DEF ProgressInv
<1>3. PinnedInv'
  BY DEF PinnedInv
<1>4. fd = anchor.inode /\ fd # 0 /\ fd \in 1 .. Len(Attributes)
  BY SMT DEF OpenTypeOK, ProgressInv, PinnedInv
<1>5. Attributes[fd] \in Incarnation
  BY <1>4, IncarnationFacts
<1>6. Attributes[fd].sysPath = expected.sysPath
  BY <1>4, OpenAssumption DEF PinnedInv, ReadOf, ProgressInv, Incarnation
<1>7. Wanted(Attributes[fd].metadata)
  BY <1>4, <1>5, ZenonT(30) DEF PinnedInv, ReadOf, Wanted, OpenTypeOK, Entry, Metadata, Parts, Incarnation
<1>8. ReturnedInv'
  BY <1>4, <1>6, <1>7 DEF ReturnedInv, Wanted
<1> QED
  BY <1>1, <1>2, <1>3, <1>8

\* The calls of the core, Read and Write leave what was opened alone.
LEMMA CallStep ==
  ASSUME OpenInv, UNCHANGED openVars,
         \/ UNCHANGED handle
         \/ handle \in {"open", "closing"} /\ handle' \in {"closing", "closed"}
  PROVE  OpenInv'
<1> USE DEF OpenInv, openVars
<1>1. OpenTypeOK'
  BY DEF OpenTypeOK
<1>2. ProgressInv'
  BY DEF ProgressInv
<1>3. PinnedInv'
  BY DEF PinnedInv, ReadOf
<1>4. ReturnedInv'
  BY DEF ReturnedInv, Wanted
<1> QED
  BY <1>1, <1>2, <1>3, <1>4

LEMMA OpenNextInv == OpenInv /\ [LinuxNext]_<<contractVars, linuxVars>> => OpenInv'
<1> SUFFICES ASSUME OpenInv, [LinuxNext]_<<contractVars, linuxVars>> PROVE OpenInv'
  OBVIOUS
<1>1. CASE openLinux
  <2>1. CASE resolveNode \/ fstat \/ rawInfo \/ readDescriptor \/ readUnique
    BY <2>1, LookStep DEF resolveNode, fstat, rawInfo, readDescriptor, readUnique, Ioctl,
                          Proceed
  <2> QED
    BY <1>1, <2>1, AnchorStep, InspectStep, VerifyStep, NodeStep, MatchStep, RefusalStep
       DEF openLinux, OpenStep
<1>2. CASE Plug
  BY <1>2, PlugStep
<1>3. CASE (CallRead \/ CallWrite \/ CallClose \/ Closed) /\ UNCHANGED linuxVars
  BY <1>3, CallStep DEF CallRead, CallWrite, CallClose, Closed, linuxVars
<1>4. CASE Send /\ UNCHANGED linuxVars
  BY <1>4, CallStep DEF Send, linuxVars
<1>5. CASE Poll \/ DeadlinePassed \/ ReadNode \/ ReadNodeFails \/ WriteNode
  BY <1>5, CallStep DEF Poll, DeadlinePassed, ReadNode, ReadNodeFails, WriteNode, linuxVars
<1>6. CASE UNCHANGED <<contractVars, linuxVars>>
  BY <1>6, CallStep DEF contractVars, linuxVars
<1> QED
  BY <1>1, <1>2, <1>3, <1>4, <1>5, <1>6 DEF LinuxNext

LEMMA OpenInvImplies == OpenInv => OpensThePinned
<1> SUFFICES ASSUME OpenInv PROVE OpensThePinned
  OBVIOUS
<1>1. at = "match" => fd = anchor.inode /\ ReadOf(item, fd)
  BY DEF OpenInv, OpenTypeOK, ProgressInv, PinnedInv
<1>2. DOMAIN item.metadata = Parts
  BY DEF OpenInv, OpenTypeOK, Entry, Metadata, Parts
<1> QED
  BY <1>1, <1>2 DEF OpensThePinned, OpenInv, ReturnedInv, ReadOf

\* A Linux Open returns only the device it pinned, whatever is unplugged and
\* plugged in between its system calls, for every sequence of devices.
THEOREM LinuxOpensThePinned == LinuxSpec => []OpensThePinned
<1>1. LinuxSpec => []OpenInv
  BY OpenInitInv, OpenNextInv, PTL DEF LinuxSpec
<1> QED
  BY <1>1, OpenInvImplies, PTL

-----------------------------------------------------------------------------
\* What read(2) took and no Read returned had another report ID, until a Read
\* has failed; between poll(2) and read(2) there is a report to take.
LinuxIoInv ==
  /\ sent \in Seq(Kinds)
  /\ taken \in Nat /\ drained \in Nat
  /\ taken <= drained /\ drained <= Len(sent)
  /\ readAt \in {"poll", "read"}
  /\ readAt = "read" => drained < Len(sent)
  /\ read.busy => read.result = "none"
  /\ read.result # "error" => \A j \in taken + 1 .. drained : sent[j] = "other"
  /\ write.busy => delivered = FALSE

LEMMA LinuxIoInitInv == ContractInit /\ LinuxInit => LinuxIoInv
BY SMT DEF ContractInit, LinuxInit, OpenInit, LinuxIoInv, Idle, Kinds

LEMMA LinuxIoNextInv == LinuxIoInv /\ [LinuxNext]_<<contractVars, linuxVars>> => LinuxIoInv'
<1> SUFFICES ASSUME LinuxIoInv, [LinuxNext]_<<contractVars, linuxVars>> PROVE LinuxIoInv'
  OBVIOUS
<1> USE DEF LinuxIoInv, Returned, Busy
<1>1. CASE openLinux
  <2>1. UNCHANGED <<sent, taken, read, write, delivered, readAt, drained>>
    BY <1>1 DEF openLinux, OpenStep, anchorSysfs, inspect, resolveNode, readUSBMetadata,
       verifySysfs, openNode, fstat, rawInfo, readDescriptor, readUnique, Ioctl, matches,
       Fails, Return, Proceed, contractVars
  <2> QED
    BY <2>1
<1>2. CASE Plug /\ UNCHANGED <<readAt, drained>>
  BY <1>2 DEF Plug, contractVars
<1>3. CASE (CallRead \/ CallWrite \/ CallClose \/ Closed) /\ UNCHANGED linuxVars
  BY <1>3, SMT DEF CallRead, CallWrite, CallClose, Closed, linuxVars, openVars
<1>4. CASE Send /\ UNCHANGED linuxVars
  BY <1>4, SMT DEF Send, linuxVars, openVars, Kinds
<1>5. CASE Poll
  BY <1>5, SMT DEF Poll, openVars
<1>6. CASE DeadlinePassed
  BY <1>6 DEF DeadlinePassed, linuxVars, openVars
<1>7. CASE ReadNode
  <2>1. /\ sent[drained + 1] \in Kinds /\ drained < Len(sent)
        /\ drained' = drained + 1 /\ readAt' = "poll"
        /\ read.result # "error"
        /\ UNCHANGED <<sent, write, delivered>>
    BY <1>7, SMT DEF ReadNode, Kinds
  <2>2. CASE sent[drained + 1] = "good"
    <3>1. taken' = drained + 1 /\ read' = Returned("report")
      BY <1>7, <2>2 DEF ReadNode
    <3> QED
      BY <2>1, <3>1, SMT
  <2>3. CASE sent[drained + 1] = "bad"
    <3>1. taken' = taken /\ read' = Returned("error")
      BY <1>7, <2>3 DEF ReadNode
    <3> QED
      BY <2>1, <3>1, SMT
  <2>4. CASE sent[drained + 1] = "other"
    <3>1. taken' = taken /\ read' = read
      BY <1>7, <2>4 DEF ReadNode
    <3> QED
      BY <2>1, <2>4, <3>1, SMT
  <2> QED
    BY <2>1, <2>2, <2>3, <2>4 DEF Kinds
<1>8. CASE ReadNodeFails
  BY <1>8, SMT DEF ReadNodeFails, openVars
<1>9. CASE WriteNode
  BY <1>9, SMT DEF WriteNode, linuxVars, openVars
<1>10. CASE UNCHANGED <<contractVars, linuxVars>>
  BY <1>10 DEF contractVars, linuxVars, openVars
<1> QED
  BY <1>1, <1>2, <1>3, <1>4, <1>5, <1>6, <1>7, <1>8, <1>9, <1>10 DEF LinuxNext

\* Every step of the driver is a step of the contract or leaves its state alone.
LEMMA LinuxContractStep ==
  LinuxIoInv /\ OpenInv /\ [LinuxNext]_<<contractVars, linuxVars>>
    => [ContractNext]_contractVars
<1> SUFFICES ASSUME LinuxIoInv, OpenInv, [LinuxNext]_<<contractVars, linuxVars>>
             PROVE  [ContractNext]_contractVars
  OBVIOUS
<1> USE DEF ContractNext, contractVars
<1>1. CASE openLinux
  <2>1. CASE matches \/ Fails
    <3>1. /\ at # "returned"
          /\ handle' \in {"open", "refused"}
          /\ UNCHANGED <<sent, taken, read, write, delivered>>
      BY <2>1 DEF matches, Fails, Return
    <3> QED
      BY <3>1 DEF OpenInv, ProgressInv, Opened
  <2> QED
    BY <1>1, <2>1 DEF openLinux, OpenStep, anchorSysfs, inspect, resolveNode,
       readUSBMetadata, verifySysfs, openNode, fstat, rawInfo, readDescriptor, readUnique,
       Ioctl, Proceed
<1>2. CASE Plug
  BY <1>2 DEF Plug
<1>3. CASE CallRead \/ CallWrite \/ CallClose \/ Closed \/ Send
  BY <1>3
<1>4. CASE Poll \/ DeadlinePassed
  BY <1>4 DEF Poll, DeadlinePassed, ReadReturns
<1>5. CASE ReadNode
  <2>1. drained + 1 \in taken + 1 .. Len(sent) /\ read.busy /\ sent[drained + 1] \in Kinds
    BY <1>5, SMT DEF LinuxIoInv, ReadNode, Kinds
  <2>2. CASE sent[drained + 1] = "good"
    <3>1. IsNext(drained + 1)
      BY <2>2, <1>5, SMT DEF IsNext, LinuxIoInv, ReadNode
    <3>2. taken' = drained + 1 /\ read' = Returned("report")
      BY <2>2, <1>5 DEF ReadNode
    <3> QED
      BY <1>5, <2>1, <3>1, <3>2 DEF ReadReturns, ReadNode
  <2>3. CASE sent[drained + 1] = "bad"
    BY <1>5, <2>1, <2>3 DEF ReadReturns, ReadNode
  <2>4. CASE sent[drained + 1] = "other"
    BY <1>5, <2>1, <2>4 DEF ReadNode
  <2> QED
    BY <2>1, <2>2, <2>3, <2>4 DEF Kinds
<1>6. CASE ReadNodeFails
  BY <1>6 DEF ReadNodeFails, ReadReturns
<1>7. CASE WriteNode
  BY <1>7 DEF WriteNode, WriteReturns, Outcomes, LinuxIoInv
<1>8. CASE UNCHANGED <<contractVars, linuxVars>>
  BY <1>8
<1> QED
  BY <1>1, <1>2, <1>3, <1>4, <1>5, <1>6, <1>7, <1>8 DEF LinuxNext

\* The Linux driver implements the contract of driver.Device: reports in order
\* and none lost to a timeout, truthful write outcomes, for any number of
\* reports and calls.
THEOREM LinuxImplementsContract == LinuxSpec => Contract
<1>1. LinuxSpec => []LinuxIoInv
  BY LinuxIoInitInv, LinuxIoNextInv, PTL DEF LinuxSpec
<1>2. LinuxSpec => []OpenInv
  BY OpenInitInv, OpenNextInv, PTL DEF LinuxSpec
<1> QED
  BY <1>1, <1>2, LinuxContractStep, PTL DEF LinuxSpec, Contract

-----------------------------------------------------------------------------
(* macOS: DarwinDriver. *)

OpeningInv ==
  /\ opener \in {"create", "ready", "writer"} => handle = "opening" /\ stop = FALSE
  /\ handle = "opening" => writer = "none"
  /\ terminal \in {"none", "io", "overflow", "format", "mask"}

\* A connection that has not failed and is not being stopped.
Live == terminal = "none" /\ ~stop

\* The queue of a live connection holds, in order, every report of the handle's
\* format after the last one returned; all others had another report ID.
QueueInv ==
  /\ sent \in Seq(Kinds)
  /\ taken \in Nat /\ taken <= Len(sent)
  /\ queue \in Seq(Nat)
  /\ Len(queue) <= HID_QUEUE_SIZE
  /\ Live =>
       /\ \A i \in 1 .. Len(queue) :
            queue[i] > taken /\ queue[i] <= Len(sent) /\ sent[queue[i]] = "good"
       /\ \A i, j \in 1 .. Len(queue) : i < j => queue[i] < queue[j]
       /\ \A k \in taken + 1 .. Len(sent) :
            sent[k] = "other" \/ \E i \in 1 .. Len(queue) : queue[i] = k

\* A report reaches the device only between its submission and the posting of
\* its result, and the marks of a posted result are true.
DarwinWriteInv ==
  /\ pending \in BOOLEAN
  /\ delivered \in BOOLEAN
  /\ pending = TRUE => write.busy /\ done = {}
  /\ done # {} => write.busy
  /\ writer \in {"setup", "submitted"} => pending = TRUE
  /\ write.busy /\ done = {} /\ writer # "submitted" => delivered = FALSE
  /\ \A result \in done :
       /\ result.submitted \in BOOLEAN /\ result.completed \in BOOLEAN
       /\ result.completed = TRUE => delivered = TRUE
       /\ result.submitted = FALSE => delivered = FALSE /\ result.completed = FALSE

DarwinIoInv == OpeningInv /\ QueueInv /\ DarwinWriteInv

-----------------------------------------------------------------------------
LEMMA DarwinIoInitInv == ContractInit /\ DarwinInit => DarwinIoInv
<1> SUFFICES ASSUME ContractInit, DarwinInit PROVE DarwinIoInv
  OBVIOUS
<1>1. OpeningInv
  BY DEF ContractInit, DarwinInit, OpeningInv
<1>2. QueueInv
  BY QueueAssumption, SMT DEF ContractInit, DarwinInit, QueueInv, Kinds
<1>3. DarwinWriteInv
  BY DEF ContractInit, DarwinInit, DarwinWriteInv, Idle
<1> QED
  BY <1>1, <1>2, <1>3 DEF DarwinIoInv

LEMMA OpeningNextInv ==
  OpeningInv /\ [DarwinNext]_<<contractVars, darwinVars>> => OpeningInv'
BY DEF OpeningInv, DarwinNext, Opening, CreateReader, AwaitReady, CreateWriter, JoinReader,
   Reader, ReaderOpens, ReaderStops, ReaderExits, Writer, WriterWakes, SetupMask,
   WriterPosts, Calls, CallRead, CallWrite, CallClose, hid_read, hid_write,
   hid_write_refuses, hid_write_admits, hid_write_returns, input_callback, Send,
   removal_callback, DeviceReceives, Deliver, hid_disconnect, Joined, Closed,
   fail_locked, contractVars, darwinVars, connectionVars

\* The steps that leave the reports and their queue alone, and revive nothing.
LEMMA QueueFrame ==
  ASSUME QueueInv, UNCHANGED <<sent, taken, queue>>, Live' => Live
  PROVE  QueueInv'
BY DEF QueueInv

LEMMA CallbackStep == QueueInv /\ input_callback => QueueInv'
<1> SUFFICES ASSUME QueueInv, input_callback PROVE QueueInv'
  OBVIOUS
<1> DEFINE kind == sent'[Len(sent')]
           ignored == stop \/ terminal # "none" \/ kind = "other"
<1>1. PICK k \in Kinds : sent' = Append(sent, k)
  BY DEF input_callback, Send
<1>2. /\ sent' \in Seq(Kinds) /\ Len(sent') = Len(sent) + 1 /\ kind = k
      /\ \A i \in 1 .. Len(sent) : sent'[i] = sent[i]
      /\ sent'[Len(sent) + 1] = k
      /\ Len(sent) \in Nat /\ taken \in Nat
      /\ UNCHANGED <<taken, stop>>
  BY <1>1, SMT DEF QueueInv, input_callback, Send
<1>3. CASE ~ignored /\ k = "good" /\ Len(queue) < HID_QUEUE_SIZE
  <2>1. queue' = Append(queue, Len(sent'))
    BY <1>2, <1>3 DEF input_callback
  <2>2. /\ queue' \in Seq(Nat) /\ Len(queue') = Len(queue) + 1
        /\ \A i \in 1 .. Len(queue) : queue'[i] = queue[i] /\ queue[i] \in Nat
        /\ queue'[Len(queue) + 1] = Len(sent) + 1
        /\ Len(queue) \in Nat
    BY <1>2, <2>1, SMT DEF QueueInv
  <2>3. /\ \A i \in 1 .. Len(queue) :
             queue[i] > taken /\ queue[i] <= Len(sent) /\ sent[queue[i]] = "good"
        /\ \A i, j \in 1 .. Len(queue) : i < j => queue[i] < queue[j]
        /\ \A n \in taken + 1 .. Len(sent) :
             sent[n] = "other" \/ \E i \in 1 .. Len(queue) : queue[i] = n
    BY <1>3 DEF Live, QueueInv
  <2>4. ASSUME NEW i \in 1 .. Len(queue')
        PROVE  queue'[i] > taken' /\ queue'[i] <= Len(sent') /\ sent'[queue'[i]] = "good"
    <3>1. CASE i = Len(queue) + 1
      <4>1. taken <= Len(sent)
        BY <1>2, <1>3 DEF QueueInv
      <4> QED
        BY <1>2, <1>3, <2>2, <3>1, <4>1, SMT
    <3>2. CASE i \in 1 .. Len(queue)
      <4>1. queue'[i] = queue[i] /\ queue[i] \in Nat
        BY <2>2, <3>2
      <4>2. queue[i] > taken /\ queue[i] <= Len(sent) /\ sent[queue[i]] = "good"
        BY <2>3, <3>2
      <4>3. sent'[queue[i]] = sent[queue[i]]
        BY <1>2, <4>1, <4>2, SMT
      <4> QED
        BY <1>2, <4>1, <4>2, <4>3, SMT
    <3> QED
      BY <2>2, <3>1, <3>2, SMT
  <2>5. ASSUME NEW i \in 1 .. Len(queue'), NEW j \in 1 .. Len(queue'), i < j
        PROVE  queue'[i] < queue'[j]
    <3>1. i \in 1 .. Len(queue)
      BY <2>2, <2>5, SMT
    <3>2. CASE j = Len(queue) + 1
      <4>1. queue'[i] = queue[i] /\ queue[i] \in Nat /\ queue[i] <= Len(sent)
        BY <2>2, <2>3, <3>1
      <4> QED
        BY <1>2, <2>2, <3>2, <4>1, SMT
    <3>3. CASE j \in 1 .. Len(queue)
      BY <2>2, <2>3, <2>5, <3>1, <3>3
    <3> QED
      BY <2>2, <3>2, <3>3, SMT
  <2>6. ASSUME NEW n \in taken' + 1 .. Len(sent')
        PROVE  sent'[n] = "other" \/ \E i \in 1 .. Len(queue') : queue'[i] = n
    <3>1. CASE n = Len(sent) + 1
      BY <2>2, <3>1, SMT
    <3>2. CASE n \in taken + 1 .. Len(sent)
      BY <1>2, <2>2, <2>3, <3>2, SMTT(30)
    <3> QED
      BY <1>2, <3>1, <3>2, SMT
  <2> QED
    BY <1>2, <1>3, <2>2, <2>4, <2>5, <2>6, QueueAssumption, SMT DEF QueueInv
<1>4. CASE ~(~ignored /\ k = "good" /\ Len(queue) < HID_QUEUE_SIZE)
  <2>1. queue' = queue
    BY <1>2, <1>4 DEF input_callback
  <2>2. Live' => Live /\ k = "other"
    BY <1>2, <1>4, QueueAssumption, SMT DEF Live, QueueInv, input_callback, fail_locked, Kinds
  <2>3. ASSUME Live' PROVE
          /\ \A i \in 1 .. Len(queue') :
               queue'[i] > taken' /\ queue'[i] <= Len(sent') /\ sent'[queue'[i]] = "good"
          /\ \A i, j \in 1 .. Len(queue') : i < j => queue'[i] < queue'[j]
          /\ \A n \in taken' + 1 .. Len(sent') :
               sent'[n] = "other" \/ \E i \in 1 .. Len(queue') : queue'[i] = n
    <3>1. ASSUME NEW i \in 1 .. Len(queue')
          PROVE  queue'[i] > taken' /\ queue'[i] <= Len(sent') /\ sent'[queue'[i]] = "good"
      <4>1. queue'[i] = queue[i] /\ queue[i] \in Nat
        BY <2>1, SMT DEF QueueInv
      <4>2. queue[i] > taken /\ queue[i] <= Len(sent) /\ sent[queue[i]] = "good"
        BY <2>1, <2>2, <2>3 DEF QueueInv
      <4>3. sent'[queue[i]] = sent[queue[i]]
        BY <1>2, <4>1, <4>2, SMT
      <4> QED
        BY <1>2, <4>1, <4>2, <4>3, SMT
    <3>2. ASSUME NEW n \in taken' + 1 .. Len(sent')
          PROVE  sent'[n] = "other" \/ \E i \in 1 .. Len(queue') : queue'[i] = n
      <4>1. CASE n = Len(sent) + 1
        BY <1>2, <2>2, <2>3, <4>1
      <4>2. CASE n \in taken + 1 .. Len(sent)
        BY <1>2, <2>1, <2>2, <2>3, <4>2, SMTT(30) DEF QueueInv
      <4> QED
        BY <1>2, <4>1, <4>2, SMT
    <3>3. \A i, j \in 1 .. Len(queue') : i < j => queue'[i] < queue'[j]
      BY <2>1, <2>2, <2>3 DEF QueueInv
    <3> QED
      BY <3>1, <3>2, <3>3
  <2> QED
    BY <1>2, <2>1, <2>3, SMT DEF QueueInv
<1> QED
  BY <1>3, <1>4

LEMMA ReadStep == QueueInv /\ hid_read => QueueInv'
<1> SUFFICES ASSUME QueueInv, hid_read PROVE QueueInv'
  OBVIOUS
<1>1. CASE Live /\ queue # << >>
  <2>1. taken' = Head(queue) /\ queue' = Tail(queue) /\ UNCHANGED <<sent, terminal, stop>>
    BY <1>1 DEF hid_read, Live
  <2>2. /\ Len(queue) \in Nat \ {0} /\ taken' = queue[1] /\ queue' \in Seq(Nat)
        /\ Len(queue') = Len(queue) - 1
        /\ \A i \in 1 .. Len(queue') : queue'[i] = queue[i + 1]
        /\ \A i \in 1 .. Len(queue) : queue[i] \in Nat
    BY <1>1, <2>1, SMT DEF QueueInv
  <2>3. /\ \A i \in 1 .. Len(queue) :
             queue[i] > taken /\ queue[i] <= Len(sent) /\ sent[queue[i]] = "good"
        /\ \A i, j \in 1 .. Len(queue) : i < j => queue[i] < queue[j]
        /\ \A n \in taken + 1 .. Len(sent) :
             sent[n] = "other" \/ \E i \in 1 .. Len(queue) : queue[i] = n
    BY <1>1 DEF QueueInv
  <2>4. ASSUME NEW i \in 1 .. Len(queue')
        PROVE  queue'[i] > taken' /\ queue'[i] <= Len(sent') /\ sent'[queue'[i]] = "good"
    <3>1. i + 1 \in 1 .. Len(queue) /\ 1 \in 1 .. Len(queue) /\ 1 < i + 1
      BY <2>2, SMT
    <3>2. queue[1] < queue[i + 1] /\ queue[i + 1] <= Len(sent) /\ sent[queue[i + 1]] = "good"
      BY <2>3, <3>1
    <3> QED
      BY <2>1, <2>2, <3>1, <3>2
  <2>5. ASSUME NEW i \in 1 .. Len(queue'), NEW j \in 1 .. Len(queue'), i < j
        PROVE  queue'[i] < queue'[j]
    <3>1. i + 1 \in 1 .. Len(queue) /\ j + 1 \in 1 .. Len(queue) /\ i + 1 < j + 1
      BY <2>2, <2>5, SMT
    <3> QED
      BY <2>2, <2>3, <3>1
  <2>6. ASSUME NEW n \in taken' + 1 .. Len(sent')
        PROVE  sent'[n] = "other" \/ \E i \in 1 .. Len(queue') : queue'[i] = n
    <3>1. n \in taken + 1 .. Len(sent) /\ n > queue[1]
      BY <2>1, <2>2, <2>3, SMT DEF QueueInv
    <3>2. CASE \E i \in 1 .. Len(queue) : queue[i] = n
      <4>1. PICK i \in 1 .. Len(queue) : queue[i] = n
        BY <3>2
      <4>2. i - 1 \in 1 .. Len(queue') /\ (i - 1) + 1 = i
        BY <2>2, <3>1, <4>1, SMT
      <4> QED
        BY <2>2, <4>1, <4>2
    <3> QED
      BY <2>1, <2>3, <3>1, <3>2
  <2>7. taken' <= Len(sent') /\ Len(queue') <= HID_QUEUE_SIZE
    BY <2>1, <2>2, <2>3, QueueAssumption, SMT DEF QueueInv
  <2> QED
    BY <2>1, <2>2, <2>4, <2>5, <2>6, <2>7, SMT DEF QueueInv
<1>2. CASE ~(Live /\ queue # << >>)
  <2>1. UNCHANGED <<sent, taken, queue, terminal, stop>>
    BY <1>2 DEF hid_read, Live
  <2> QED
    BY <2>1, QueueFrame DEF Live
<1> QED
  BY <1>1, <1>2

LEMMA QueueNextInv ==
  OpeningInv /\ QueueInv /\ [DarwinNext]_<<contractVars, darwinVars>> => QueueInv'
<1> SUFFICES ASSUME OpeningInv, QueueInv, [DarwinNext]_<<contractVars, darwinVars>>
             PROVE  QueueInv'
  OBVIOUS
<1>1. CASE hid_read
  BY <1>1, ReadStep
<1>2. CASE input_callback
  BY <1>2, CallbackStep
<1>3. CASE ~hid_read /\ ~input_callback
  <2>1. UNCHANGED <<sent, taken, queue>>
    BY <1>3 DEF DarwinNext, Opening, CreateReader, AwaitReady, CreateWriter, JoinReader,
       Reader, ReaderOpens, ReaderStops, ReaderExits, Writer, WriterWakes, SetupMask,
       WriterPosts, Calls, CallRead, CallWrite, CallClose, hid_write, hid_write_refuses,
       hid_write_admits, hid_write_returns, removal_callback, DeviceReceives, Deliver,
       hid_disconnect, Joined, Closed, contractVars, darwinVars, connectionVars
  <2>2. Live' => Live
    BY <1>3 DEF Live, OpeningInv, fail_locked, DarwinNext, Opening, CreateReader, AwaitReady,
       CreateWriter, JoinReader, Reader, ReaderOpens, ReaderStops, ReaderExits, Writer,
       WriterWakes, SetupMask, WriterPosts, Calls, hid_write, hid_write_refuses,
       hid_write_admits, hid_write_returns, removal_callback, DeviceReceives,
       hid_disconnect, Joined, darwinVars, connectionVars
  <2> QED
    BY <2>1, <2>2, QueueFrame
<1> QED
  BY <1>1, <1>2, <1>3

-----------------------------------------------------------------------------
LEMMA DarwinWriteNextInv ==
  OpeningInv /\ DarwinWriteInv /\ [DarwinNext]_<<contractVars, darwinVars>> => DarwinWriteInv'
<1> SUFFICES ASSUME OpeningInv, DarwinWriteInv, [DarwinNext]_<<contractVars, darwinVars>>
             PROVE  DarwinWriteInv'
  OBVIOUS
<1>1. CASE Writer
  <2>1. CASE WriterWakes \/ SetupMask
    BY <2>1 DEF DarwinWriteInv, WriterWakes, SetupMask, contractVars, connectionVars
  <2>2. CASE WriterPosts
    <3>1. /\ writer \in {"setup", "submitted"} /\ write.busy
          /\ UNCHANGED <<write, delivered>>
          /\ pending' = FALSE /\ writer' \in {"wait", "exited"}
      BY <2>2 DEF DarwinWriteInv, WriterPosts, contractVars
    <3>2. CASE writer = "setup"
      <4>1. done' = {[submitted |-> FALSE, completed |-> FALSE]} /\ delivered = FALSE
        BY <2>2, <3>1, <3>2 DEF DarwinWriteInv, WriterPosts
      <4>2. /\ done' # {}
            /\ \A result \in done' : result.submitted = FALSE /\ result.completed = FALSE
        BY <4>1, SMT
      <4> QED
        BY <3>1, <4>1, <4>2 DEF DarwinWriteInv
    <3>3. CASE writer = "submitted"
      <4>1. PICK completed \in BOOLEAN :
              /\ completed => delivered
              /\ done' = {[submitted |-> TRUE, completed |-> completed]}
        BY <2>2, <3>3 DEF WriterPosts
      <4>2. /\ done' # {}
            /\ \A result \in done' : result.submitted = TRUE /\ result.completed = completed
        BY <4>1, SMT
      <4> QED
        BY <3>1, <4>1, <4>2 DEF DarwinWriteInv
    <3> QED
      BY <3>1, <3>2, <3>3
  <2> QED
    BY <1>1, <2>1, <2>2 DEF Writer
<1>2. CASE Calls
  BY <1>2 DEF Calls, CallRead, CallWrite, CallClose, Busy, DarwinWriteInv, darwinVars,
     connectionVars
<1>3. CASE hid_write
  <2>1. CASE hid_write_refuses
    <3>1. done' = {} /\ pending' = pending /\ ~pending /\ ~write'.busy
      BY <2>1 DEF hid_write_refuses, Returned, darwinVars, connectionVars
    <3>2. UNCHANGED <<delivered, writer>>
      BY <2>1 DEF hid_write_refuses, darwinVars
    <3> QED
      BY <3>1, <3>2 DEF DarwinWriteInv
  <2>2. CASE hid_write_admits
    <3>1. done' = {} /\ done = {} /\ pending' = TRUE /\ write.busy /\ ~pending
      BY <2>2 DEF hid_write_admits
    <3>2. UNCHANGED <<write, delivered, writer>>
      BY <2>2 DEF hid_write_admits, contractVars
    <3> QED
      BY <3>1, <3>2 DEF DarwinWriteInv
  <2>3. CASE hid_write_returns
    <3>1. done' = {} /\ pending' = pending /\ pending = FALSE /\ ~write'.busy
      BY <2>3, SMT DEF hid_write_returns, Returned, DarwinWriteInv
    <3>2. UNCHANGED <<delivered, writer>>
      BY <2>3 DEF hid_write_returns
    <3> QED
      BY <3>1, <3>2 DEF DarwinWriteInv
  <2> QED
    BY <1>3, <2>1, <2>2, <2>3 DEF hid_write
<1>4. CASE DeviceReceives
  <2>1. done = {} /\ writer = "submitted" /\ delivered' = TRUE
    BY <1>4 DEF DeviceReceives, Deliver, DarwinWriteInv
  <2>2. UNCHANGED <<write, pending, done, writer>>
    BY <1>4 DEF DeviceReceives, Deliver, darwinVars, connectionVars
  <2> QED
    BY <2>1, <2>2 DEF DarwinWriteInv
<1>5. CASE CreateWriter
  <2>1. writer = "none" /\ writer' \in {"none", "wait"}
    BY <1>5 DEF CreateWriter, OpeningInv
  <2>2. UNCHANGED <<pending, done, write, delivered>>
    BY <1>5 DEF CreateWriter
  <2> QED
    BY <2>1, <2>2 DEF DarwinWriteInv
<1>6. CASE ~(Writer \/ Calls \/ hid_write \/ DeviceReceives \/ CreateWriter)
  <2>1. UNCHANGED <<pending, done, writer, write, delivered>>
    BY <1>6 DEF DarwinNext, Opening, CreateReader, AwaitReady, JoinReader, Reader,
       ReaderOpens, ReaderStops, ReaderExits, hid_read, input_callback, Send,
       removal_callback, hid_disconnect, Joined, Closed, contractVars, darwinVars,
       connectionVars
  <2> QED
    BY <2>1 DEF DarwinWriteInv
<1> QED
  BY <1>1, <1>2, <1>3, <1>4, <1>5, <1>6

\* The report hid_read takes from the queue is the next one of the format.
LEMMA HeadIsNext ==
  ASSUME QueueInv, Live, queue # << >>
  PROVE  Head(queue) \in taken + 1 .. Len(sent) /\ IsNext(Head(queue))
<1>1. /\ Head(queue) = queue[1] /\ 1 \in 1 .. Len(queue) /\ queue[1] \in Nat
      /\ \A i \in 1 .. Len(queue) : queue[i] \in Nat
  BY SMT DEF QueueInv
<1>2. queue[1] > taken /\ queue[1] <= Len(sent) /\ sent[queue[1]] = "good"
  BY <1>1 DEF QueueInv
<1>3. ASSUME NEW n \in taken + 1 .. queue[1] - 1 PROVE sent[n] = "other"
  <2>1. n \in taken + 1 .. Len(sent)
    BY <1>1, <1>2, SMT DEF QueueInv
  <2>2. ASSUME NEW i \in 1 .. Len(queue) PROVE queue[i] # n
    <3>1. CASE i = 1
      BY <1>1, <1>2, <3>1, SMT DEF QueueInv
    <3>2. CASE 1 < i
      <4>1. queue[1] < queue[i] /\ queue[i] \in Nat
        BY <1>1, <3>2 DEF QueueInv
      <4> QED
        BY <1>1, <4>1, SMT DEF QueueInv
    <3> QED
      BY <3>1, <3>2, SMT
  <2> QED
    BY <2>1, <2>2 DEF QueueInv
<1> QED
  BY <1>1, <1>2, <1>3, SMT DEF IsNext, QueueInv

LEMMA DarwinContractStep ==
  DarwinIoInv /\ [DarwinNext]_<<contractVars, darwinVars>> => [ContractNext]_contractVars
<1> SUFFICES ASSUME DarwinIoInv, [DarwinNext]_<<contractVars, darwinVars>>
             PROVE  [ContractNext]_contractVars
  OBVIOUS
<1> USE DEF ContractNext
<1>1. CASE Opening
  BY <1>1 DEF Opening, CreateReader, AwaitReady, CreateWriter, JoinReader, Opened, DarwinIoInv,
     OpeningInv, contractVars
<1>2. CASE Reader \/ Writer \/ removal_callback \/ hid_disconnect
  BY <1>2 DEF Reader, ReaderOpens, ReaderStops, ReaderExits, Writer, WriterWakes, SetupMask,
     WriterPosts, removal_callback, hid_disconnect
<1>3. CASE Calls \/ input_callback \/ DeviceReceives \/ Joined
  BY <1>3 DEF Calls, input_callback, DeviceReceives, Joined
<1>4. CASE hid_read
  <2>1. CASE Live /\ queue # << >>
    <3>1. /\ taken' = Head(queue) /\ read' = Returned("report") /\ read.busy
          /\ UNCHANGED <<handle, sent, write, delivered>>
      BY <1>4, <2>1 DEF hid_read, darwinRead, Live
    <3> QED
      BY <2>1, <3>1, HeadIsNext DEF DarwinIoInv, ReadReturns
  <2>2. CASE ~(Live /\ queue # << >>)
    <3>1. read.busy /\ \E status \in {"-5", "ETIMEDOUT", "EINVAL", terminal} :
                         read' = darwinRead(status) /\ status # "0"
      BY <1>4, <2>2 DEF hid_read, Live, DarwinIoInv, OpeningInv
    <3>3. \A status : status # "0" => darwinRead(status) \in {Returned("timeout"), Returned("error")}
      BY DEF darwinRead
    <3>2. UNCHANGED <<handle, sent, taken, write, delivered>>
      BY <1>4, <2>2 DEF hid_read, Live
    <3> QED
      BY <3>1, <3>2, <3>3 DEF ReadReturns
  <2> QED
    BY <2>1, <2>2
<1>5. CASE hid_write_refuses
  BY <1>5 DEF hid_write_refuses, WriteReturns, Outcomes, DarwinIoInv, DarwinWriteInv
<1>6. CASE hid_write_admits
  BY <1>6 DEF hid_write_admits
<1>7. CASE hid_write_returns
  <2>1. PICK result \in done : write' = Returned(darwinWrite(result))
    BY <1>7 DEF hid_write_returns
  <2>2. /\ darwinWrite(result) \in Outcomes
        /\ darwinWrite(result) = "Completed" => delivered
        /\ darwinWrite(result) = "NotSubmitted" => ~delivered
    BY DEF DarwinIoInv, DarwinWriteInv, darwinWrite, Outcomes
  <2>3. write.busy /\ UNCHANGED <<handle, sent, taken, read, delivered>>
    BY <1>7 DEF hid_write_returns
  <2> QED
    BY <2>1, <2>2, <2>3 DEF WriteReturns
<1>8. CASE UNCHANGED <<contractVars, darwinVars>>
  BY <1>8
<1> QED
  BY <1>1, <1>2, <1>3, <1>4, <1>5, <1>6, <1>7, <1>8 DEF DarwinNext, hid_write

\* The macOS driver implements the contract of driver.Device: hid_read returns
\* the reports of the device in order, none lost to a timeout or to a full
\* queue without an error, and hid_write's outcome is true of what the writer
\* thread did, for any queue size and any number of reports and calls.
THEOREM DarwinImplementsContract == DarwinSpec => Contract
<1>1. DarwinIoInv /\ [DarwinNext]_<<contractVars, darwinVars>> => DarwinIoInv'
  BY OpeningNextInv, QueueNextInv, DarwinWriteNextInv DEF DarwinIoInv
<1>2. DarwinSpec => []DarwinIoInv
  BY <1>1, DarwinIoInitInv, PTL DEF DarwinSpec
<1> QED
  BY <1>2, DarwinContractStep, PTL DEF DarwinSpec, Contract

-----------------------------------------------------------------------------
\* Which thread exists while hid_connect is under way.
ThreadInv ==
  /\ reader \in {"none", "opening", "run", "teardown", "exited"}
  /\ opener = "create" => reader = "none"
  /\ opener \in {"create", "ready", "writer"} => handle = "opening"
  /\ handle = "opening" => writer = "none"
  /\ NativeAlone

LEMMA ThreadNextInv ==
  ThreadInv /\ [DarwinNext]_<<contractVars, darwinVars>> => ThreadInv'
<1> SUFFICES ASSUME ThreadInv, [DarwinNext]_<<contractVars, darwinVars>> PROVE ThreadInv'
  OBVIOUS
<1> USE DEF ThreadInv, NativeAlone
<1>1. CASE Opening
  BY <1>1, SMT DEF Opening, CreateReader, AwaitReady, CreateWriter, JoinReader, contractVars,
     connectionVars
<1>2. CASE Reader
  BY <1>2, SMT DEF Reader, ReaderOpens, ReaderStops, ReaderExits, contractVars, connectionVars
<1>3. CASE Writer
  BY <1>3, SMT DEF Writer, WriterWakes, SetupMask, WriterPosts, contractVars, connectionVars
<1>4. CASE ~(Opening \/ Reader \/ Writer)
  <2>1. UNCHANGED <<reader, writer, runloop>>
    BY <1>4 DEF DarwinNext, Calls, hid_read, hid_write, hid_write_refuses, hid_write_admits,
       hid_write_returns, input_callback, removal_callback, DeviceReceives, hid_disconnect,
       Joined, darwinVars, connectionVars
  <2>2. CASE hid_disconnect \/ Joined
    BY <2>1, <2>2 DEF hid_disconnect, Joined, Closed, contractVars
  <2>3. CASE Calls
    BY <2>1, <2>3 DEF Calls, CallRead, CallWrite, CallClose, darwinVars
  <2>4. CASE ~(hid_disconnect \/ Joined \/ Calls)
    <3>1. UNCHANGED <<handle, opener>>
      BY <1>4, <2>4 DEF DarwinNext, hid_read, hid_write, hid_write_refuses,
         hid_write_admits, hid_write_returns, input_callback, Send, removal_callback,
         DeviceReceives, Deliver, darwinVars, contractVars
    <3> QED
      BY <2>1, <3>1
  <2> QED
    BY <2>2, <2>3, <2>4
<1> QED
  BY <1>1, <1>2, <1>3, <1>4

\* hid_disconnect, and hid_connect when it fails, free the connection only once
\* both threads have ended, and the run loop they stop has a live thread.
THEOREM DarwinNativeAlone == DarwinSpec => []NativeAlone
<1>1. ContractInit /\ DarwinInit => ThreadInv
  BY DEF ContractInit, DarwinInit, ThreadInv, NativeAlone
<1>2. ThreadInv => NativeAlone
  BY DEF ThreadInv
<1> QED
  BY <1>1, <1>2, ThreadNextInv, PTL DEF DarwinSpec

-----------------------------------------------------------------------------
(* Windows: WindowsDriver. *)

Natives == {"none", "pending", "complete", "failed", "aborted"}

\* A request exists only while the call that made it runs.
TransferInv ==
  /\ transfer \in [Directions -> [at : {"call", "wait", "cancel", "join"}, native : Natives,
                                  got : Nat, trouble : {"none", "timeout", "wait"},
                                  uncancelled : BOOLEAN]]
  /\ \A d \in Directions :
       /\ transfer[d].at = "call" <=> transfer[d].native = "none"
       /\ transfer[d].at # "call" => Running(d)
  /\ transfer["write"].trouble # "timeout"

\* Until a Read has failed, the kernel has handed out the reports the Reads
\* returned, and the one of a request that is complete and not yet joined.
ReadInv ==
  /\ sent \in Seq(Kinds)
  /\ taken \in Nat /\ fetched \in Nat /\ fetched <= Len(sent)
  /\ read.busy => read.result = "none"
  /\ transfer["read"].native = "complete" => transfer["read"].got = fetched
  /\ read.result # "error" =>
       fetched = IF transfer["read"].native = "complete" THEN taken + 1 ELSE taken

\* The device has the report of a complete request, and of no other that is
\* known to have ended without it.
WindowsWriteInv ==
  /\ delivered \in BOOLEAN
  /\ transfer["write"].native = "complete" => delivered = TRUE
  /\ write.busy /\ transfer["write"].native \in {"none", "pending", "aborted"} =>
       delivered = FALSE

\* The native handle is open from the native open to the refusal or to Close.
HandleInv ==
  /\ opening \in {"check", "find", "open", "metadata", "match", "layout", "returned"}
  /\ opening # "returned" <=> handle = "opening"
  /\ acquired = (\/ handle \in {"open", "closing"}
                 \/ opening \in {"metadata", "match", "layout"})
  /\ fits \in BOOLEAN
  /\ opening = "layout" \/ handle \in {"open", "closing"} => fits = TRUE

WindowsIoInv == HandleInv /\ TransferInv /\ ReadInv /\ WindowsWriteInv

-----------------------------------------------------------------------------
LEMMA WindowsIoInitInv == ContractInit /\ WindowsInit => WindowsIoInv
<1> SUFFICES ASSUME ContractInit, WindowsInit PROVE WindowsIoInv
  OBVIOUS
<1>1. TransferInv
  BY DEF ContractInit, WindowsInit, TransferInv, NoTransfer, Transfer, Directions, Natives
<1>2. ReadInv
  BY SMT DEF ContractInit, WindowsInit, ReadInv, NoTransfer, Transfer, Directions, Idle, Kinds
<1>3. WindowsWriteInv
  BY DEF ContractInit, WindowsInit, WindowsWriteInv, NoTransfer, Transfer, Directions, Idle
<1>4. HandleInv
  BY DEF ContractInit, WindowsInit, HandleInv
<1> QED
  BY <1>1, <1>2, <1>3, <1>4 DEF WindowsIoInv

\* Opening and closing the handle touch no call and no request.
LEMMA HandleFacts ==
  ASSUME openWithSystem \/ CloseDevice
  PROVE  UNCHANGED <<sent, taken, read, write, delivered, transfer, fetched>>
BY DEF openWithSystem, CheckEndpoint, FindInterface, Step, OpenPath, ReadMetadata,
   MatchMetadata, ReadLayout, Refuse, CloseDevice, Closed, contractVars

\* The steps of openWithSystem keep the handle and its release together.
LEMMA HandleNextInv ==
  HandleInv /\ [WindowsNext]_<<contractVars, windowsVars>> => HandleInv'
<1> SUFFICES ASSUME HandleInv, [WindowsNext]_<<contractVars, windowsVars>>
             PROVE  HandleInv'
  OBVIOUS
<1>0. ASSUME UNCHANGED <<handle, systemVars>> PROVE HandleInv'
  BY <1>0 DEF HandleInv, systemVars
<1>1. ASSUME opening # "returned", Refuse PROVE HandleInv'
  BY <1>1 DEF Refuse, HandleInv
<1>2. CASE CheckEndpoint
  BY <1>1, <1>2 DEF CheckEndpoint, Step, contractVars, HandleInv
<1>3. CASE FindInterface
  BY <1>1, <1>3 DEF FindInterface, Step, contractVars, HandleInv
<1>4. CASE OpenPath
  BY <1>1, <1>4 DEF OpenPath, contractVars, HandleInv
<1>5. CASE ReadMetadata
  BY <1>1, <1>5 DEF ReadMetadata, contractVars, HandleInv
<1>6. CASE MatchMetadata
  BY <1>1, <1>6 DEF MatchMetadata, contractVars, HandleInv
<1>7. CASE ReadLayout
  BY <1>1, <1>7 DEF ReadLayout, HandleInv
<1>8. CASE CloseDevice
  BY <1>8 DEF CloseDevice, Closed, HandleInv
<1>9. CASE CallClose /\ UNCHANGED windowsVars
  BY <1>9 DEF CallClose, windowsVars, systemVars, HandleInv
<1>10. CASE (CallRead \/ CallWrite \/ Send) /\ UNCHANGED windowsVars
  BY <1>0, <1>10 DEF CallRead, CallWrite, Send, windowsVars
<1>11. ASSUME NEW d \in Directions,
              transferStep(d) \/ WaitFails(d) \/ NativeFails(d) \/ NativeAborts(d)
       PROVE  HandleInv'
  BY <1>0, <1>11 DEF transferStep, CreateEventFails, Submit, SubmitFails, WaitEnds, CancelIoEx,
     GetOverlappedResult, Ends, WaitFails, NativeFails, NativeAborts, contractVars
<1>12. CASE WaitTimesOut \/ NativeRead \/ NativeWrite
  BY <1>0, <1>12 DEF WaitTimesOut, NativeRead, NativeWrite, Deliver, contractVars
<1>13. CASE UNCHANGED <<contractVars, windowsVars>>
  BY <1>0, <1>13 DEF contractVars, windowsVars
<1> QED
  BY <1>2, <1>3, <1>4, <1>5, <1>6, <1>7, <1>8, <1>9, <1>10, <1>11, <1>12, <1>13
  DEF WindowsNext, openWithSystem

\* What the steps do to the request of each direction.
LEMMA TransferFacts ==
  ASSUME TransferInv, NEW d \in Directions
  PROVE  /\ \A point, trouble, uncancelled :
              Moves(d, point, trouble, uncancelled) =>
                /\ transfer' = [transfer EXCEPT ![d] =
                     Transfer(point, transfer[d].native, transfer[d].got, trouble, uncancelled)]
                /\ \A e \in Directions \ {d} : transfer'[e] = transfer[e]
                /\ transfer'[d].native = transfer[d].native
                /\ transfer'[d].got = transfer[d].got
                /\ transfer'[d].at = point
                /\ transfer'[d].trouble = trouble
         /\ \A point, native, got :
              RequestIs(d, point, native, got) =>
                /\ transfer' = [transfer EXCEPT ![d] =
                     Transfer(point, native, got, transfer[d].trouble, transfer[d].uncancelled)]
                /\ \A e \in Directions \ {d} : transfer'[e] = transfer[e]
                /\ transfer'[d].native = native
                /\ transfer'[d].got = got
                /\ transfer'[d].at = point
                /\ transfer'[d].trouble = transfer[d].trouble
         /\ \A result :
              Ends(d, result) =>
                /\ \A e \in Directions \ {d} : transfer'[e] = transfer[e]
                /\ transfer'[d].native = "none"
                /\ transfer'[d].at = "call"
                /\ transfer'[d].trouble = "none"
<1>1. transfer = [e \in Directions |-> transfer[e]] /\ DOMAIN transfer = Directions
  BY DEF TransferInv
<1>2. ASSUME NEW point, NEW trouble, NEW uncancelled, Moves(d, point, trouble, uncancelled)
      PROVE  /\ transfer' = [transfer EXCEPT ![d] =
                  Transfer(point, transfer[d].native, transfer[d].got, trouble, uncancelled)]
             /\ \A e \in Directions \ {d} : transfer'[e] = transfer[e]
             /\ transfer'[d].native = transfer[d].native
             /\ transfer'[d].got = transfer[d].got
             /\ transfer'[d].at = point
             /\ transfer'[d].trouble = trouble
  BY <1>1, <1>2 DEF Moves, Transfer
<1>3. ASSUME NEW point, NEW native, NEW got, RequestIs(d, point, native, got)
      PROVE  /\ transfer' = [transfer EXCEPT ![d] =
                  Transfer(point, native, got, transfer[d].trouble, transfer[d].uncancelled)]
             /\ \A e \in Directions \ {d} : transfer'[e] = transfer[e]
             /\ transfer'[d].native = native
             /\ transfer'[d].got = got
             /\ transfer'[d].at = point
             /\ transfer'[d].trouble = transfer[d].trouble
  BY <1>1, <1>3 DEF RequestIs, Transfer
<1>4. ASSUME NEW result, Ends(d, result)
      PROVE  /\ \A e \in Directions \ {d} : transfer'[e] = transfer[e]
             /\ transfer'[d].native = "none"
             /\ transfer'[d].at = "call"
             /\ transfer'[d].trouble = "none"
  BY <1>1, <1>4 DEF Ends, NoTransfer, Transfer
<1> QED
  BY <1>2, <1>3, <1>4

-----------------------------------------------------------------------------
LEMMA TransferNextInv ==
  TransferInv /\ ReadInv /\ [WindowsNext]_<<contractVars, windowsVars>> => TransferInv'
<1> SUFFICES ASSUME TransferInv, ReadInv, [WindowsNext]_<<contractVars, windowsVars>>
             PROVE  TransferInv'
  OBVIOUS
<1> USE DEF TransferInv, Running
<1>1. CASE openWithSystem \/ CloseDevice
  BY <1>1, HandleFacts
<1>2. CASE (CallRead \/ CallWrite \/ CallClose \/ Send) /\ UNCHANGED windowsVars
  BY <1>2 DEF CallRead, CallWrite, CallClose, Send, Busy, windowsVars
<1>3. ASSUME NEW d \in Directions, CreateEventFails(d) \/ SubmitFails(d)
                                   \/ GetOverlappedResult(d)
      PROVE  TransferInv'
  <2>1. PICK result : Ends(d, result)
    BY <1>3 DEF CreateEventFails, SubmitFails, GetOverlappedResult
  <2> QED
    BY <2>1 DEF Ends, NoTransfer, Transfer, Directions, Natives
<1>4. ASSUME NEW d \in Directions, Submit(d) PROVE TransferInv'
  BY <1>4 DEF Submit, RequestIs, Transfer, Directions, Natives, contractVars
<1>5. ASSUME NEW d \in Directions, WaitEnds(d) \/ WaitFails(d) PROVE TransferInv'
  <2>1. PICK point \in {"join", "cancel"}, trouble \in {"wait", transfer[d].trouble} :
          Moves(d, point, trouble, FALSE)
    BY <1>5 DEF WaitEnds, WaitFails
  <2>2. transfer[d].at = "wait" /\ UNCHANGED <<read, write>>
    BY <1>5 DEF WaitEnds, WaitFails, contractVars
  <2> QED
    BY <2>1, <2>2, SMT DEF Moves, Transfer, Directions, Natives
<1>6. ASSUME NEW d \in Directions, CancelIoEx(d) PROVE TransferInv'
  BY <1>6, SMT DEF CancelIoEx, Moves, Transfer, Directions, Natives, contractVars
<1>7. ASSUME NEW d \in Directions, NativeFails(d) \/ NativeAborts(d) PROVE TransferInv'
  BY <1>7, SMT DEF NativeFails, NativeAborts, RequestIs, Transfer, Directions, Natives,
     contractVars
<1>8. CASE WaitTimesOut
  BY <1>8 DEF WaitTimesOut, Moves, Transfer, Directions, Natives, contractVars
<1>9. CASE NativeRead
  BY <1>9, SMT DEF NativeRead, RequestIs, Transfer, Directions, Natives, contractVars, ReadInv
<1>10. CASE NativeWrite
  BY <1>10, SMT DEF NativeWrite, Deliver, RequestIs, Transfer, Directions, Natives
<1>11. CASE UNCHANGED <<contractVars, windowsVars>>
  BY <1>11 DEF contractVars, windowsVars
<1> QED
  BY <1>1, <1>2, <1>3, <1>4, <1>5, <1>6, <1>7, <1>8, <1>9, <1>10, <1>11
  DEF WindowsNext, transferStep

\* The steps that fetch no report, return none and start no Read.
LEMMA ReadFrame ==
  ASSUME ReadInv, UNCHANGED <<sent, taken, fetched, read>>,
         \/ transfer'["read"] = transfer["read"]
         \/ /\ transfer'["read"].native = transfer["read"].native
            /\ transfer'["read"].got = transfer["read"].got
         \/ /\ transfer["read"].native # "complete"
            /\ transfer'["read"].native # "complete"
  PROVE  ReadInv'
BY DEF ReadInv

LEMMA ReadNextInv ==
  TransferInv /\ ReadInv /\ [WindowsNext]_<<contractVars, windowsVars>> => ReadInv'
<1> SUFFICES ASSUME TransferInv, ReadInv, [WindowsNext]_<<contractVars, windowsVars>>
             PROVE  ReadInv'
  OBVIOUS
<1>0. "read" \in Directions /\ "write" \in Directions /\ "read" # "write"
  BY DEF Directions
<1>1. CASE openWithSystem \/ CloseDevice
  BY <1>1, HandleFacts, ReadFrame
<1>2. CASE (CallRead \/ CallWrite \/ CallClose \/ Send) /\ UNCHANGED windowsVars
  <2>1. CASE CallRead
    BY <1>2, <2>1 DEF CallRead, Busy, windowsVars, ReadInv
  <2>2. CASE Send
    <3>1. UNCHANGED <<taken, read, transfer, fetched>>
      BY <1>2, <2>2 DEF Send, windowsVars
    <3>2. sent' \in Seq(Kinds) /\ Len(sent') = Len(sent) + 1
      <4>1. PICK kind \in Kinds : sent' = Append(sent, kind)
        BY <2>2 DEF Send
      <4>2. sent \in Seq(Kinds)
        BY DEF ReadInv
      <4> QED
        BY <4>1, <4>2, SMT
    <3>3. Len(sent) \in Nat
      BY SMT DEF ReadInv
    <3> QED
      BY <3>1, <3>2, <3>3, SMT DEF ReadInv
  <2>3. CASE CallWrite \/ CallClose
    BY <1>2, <2>3, ReadFrame DEF CallWrite, CallClose, windowsVars
  <2> QED
    BY <1>2, <2>1, <2>2, <2>3
<1>3. ASSUME NEW d \in Directions, CreateEventFails(d) \/ SubmitFails(d)
                                   \/ GetOverlappedResult(d)
      PROVE  ReadInv'
  <2>1. CASE d = "write"
    <3>1. PICK result : Ends(d, result)
      BY <1>3 DEF CreateEventFails, SubmitFails, GetOverlappedResult
    <3>2. UNCHANGED <<sent, taken, fetched, read>>
      BY <2>1, <3>1 DEF Ends
    <3> QED
      BY <1>0, <2>1, <3>1, <3>2, TransferFacts, ReadFrame
  <2>2. CASE d = "read"
    <3>1. ASSUME NEW result, Ends(d, result), result # "report",
                 result = "error" \/ transfer[d].native # "complete"
          PROVE  ReadInv'
      <4>1. transfer'["read"].native = "none"
        BY <2>2, <3>1, TransferFacts
      <4>2. read' = Returned(result) /\ UNCHANGED <<sent, taken, fetched>>
        BY <2>2, <3>1 DEF Ends
      <4>3. result # "error" => read.result # "error"
        BY <1>3, <2>2, <3>1 DEF CreateEventFails, SubmitFails, GetOverlappedResult, Running,
           TransferInv, ReadInv
      <4> QED
        BY <2>2, <3>1, <4>1, <4>2, <4>3 DEF Returned, ReadInv
    <3>2. CASE transfer[d].native = "complete" /\ Ends(d, "report")
      <4>1. transfer'["read"].native = "none"
        BY <2>2, <3>2, TransferFacts
      <4>2. /\ read' = Returned("report") /\ taken' = transfer[d].got
            /\ UNCHANGED <<sent, fetched>>
        BY <2>2, <3>2 DEF Ends
      <4> QED
        BY <2>2, <3>2, <4>1, <4>2 DEF Returned, ReadInv
    <3> QED
      BY <1>3, <2>2, <3>1, <3>2 DEF CreateEventFails, SubmitFails, GetOverlappedResult, Good,
         Failed, TransferInv
  <2> QED
    BY <2>1, <2>2 DEF Directions
<1>4. ASSUME NEW d \in Directions, Submit(d) \/ NativeFails(d) \/ NativeAborts(d)
      PROVE  ReadInv'
  <2>1. PICK point \in {"wait", transfer[d].at}, native \in {"pending", "failed", "aborted"} :
          RequestIs(d, point, native, 0)
    BY <1>4 DEF Submit, NativeFails, NativeAborts
  <2>2. transfer[d].native # "complete" /\ UNCHANGED <<sent, taken, fetched, read>>
    BY <1>4 DEF Submit, NativeFails, NativeAborts, TransferInv, contractVars
  <2>3. \/ transfer'["read"] = transfer["read"]
        \/ transfer["read"].native # "complete" /\ transfer'["read"].native # "complete"
    <3>1. CASE d = "read"
      BY <2>1, <2>2, <3>1, TransferFacts, SMT
    <3>2. CASE d # "read"
      BY <1>0, <2>1, <3>2, TransferFacts, SMT
    <3> QED
      BY <3>1, <3>2
  <2> QED
    BY <2>2, <2>3, ReadFrame
<1>5. ASSUME NEW d \in Directions, WaitEnds(d) \/ WaitFails(d) \/ CancelIoEx(d)
                                   \/ (d = "read" /\ WaitTimesOut)
      PROVE  ReadInv'
  <2>1. PICK point, trouble, uncancelled : Moves(d, point, trouble, uncancelled)
    BY <1>5 DEF WaitEnds, WaitFails, CancelIoEx, WaitTimesOut
  <2>2. UNCHANGED <<sent, taken, fetched, read>>
    BY <1>5 DEF WaitEnds, WaitFails, CancelIoEx, WaitTimesOut, contractVars
  <2>3. \/ transfer'["read"] = transfer["read"]
        \/ /\ transfer'["read"].native = transfer["read"].native
           /\ transfer'["read"].got = transfer["read"].got
    BY <1>0, <2>1, TransferFacts, SMTT(30)
  <2> QED
    BY <2>2, <2>3, ReadFrame
<1>6. CASE NativeRead
  <2>1. /\ transfer'["read"].native = "complete" /\ transfer'["read"].got = fetched + 1
        /\ transfer["read"].native = "pending"
    BY <1>0, <1>6, TransferFacts, SMT DEF NativeRead
  <2>2. fetched' = fetched + 1 /\ fetched < Len(sent) /\ UNCHANGED <<sent, taken, read>>
    BY <1>6 DEF NativeRead, contractVars
  <2> QED
    BY <2>1, <2>2, SMT DEF ReadInv
<1>7. CASE NativeWrite
  <2>1. transfer'["read"] = transfer["read"]
    BY <1>0, <1>7, TransferFacts, SMT DEF NativeWrite
  <2> QED
    BY <1>7, <2>1, ReadFrame DEF NativeWrite, Deliver
<1>8. CASE UNCHANGED <<contractVars, windowsVars>>
  BY <1>8, ReadFrame DEF contractVars, windowsVars
<1> QED
  BY <1>0, <1>1, <1>2, <1>3, <1>4, <1>5, <1>6, <1>7, <1>8 DEF WindowsNext, transferStep

-----------------------------------------------------------------------------
LEMMA WindowsWriteNextInv ==
  TransferInv /\ WindowsWriteInv /\ [WindowsNext]_<<contractVars, windowsVars>> => WindowsWriteInv'
<1> SUFFICES ASSUME TransferInv, WindowsWriteInv, [WindowsNext]_<<contractVars, windowsVars>>
             PROVE  WindowsWriteInv'
  OBVIOUS
<1>0. "read" \in Directions /\ "write" \in Directions /\ "read" # "write"
  BY DEF Directions
<1>1. CASE openWithSystem \/ CloseDevice
  BY <1>1, HandleFacts DEF WindowsWriteInv
<1>2. CASE (CallRead \/ CallWrite \/ CallClose \/ Send) /\ UNCHANGED windowsVars
  <2>1. CASE CallWrite
    <3>1. transfer["write"].native = "none"
      BY <1>0, <2>1 DEF CallWrite, TransferInv, Running
    <3> QED
      BY <1>2, <2>1, <3>1 DEF CallWrite, windowsVars, WindowsWriteInv
  <2>2. CASE CallRead \/ CallClose \/ Send
    BY <1>2, <2>2 DEF CallRead, CallClose, Send, windowsVars, WindowsWriteInv
  <2> QED
    BY <1>2, <2>1, <2>2
<1>3. ASSUME NEW d \in Directions, CreateEventFails(d) \/ SubmitFails(d)
                                   \/ GetOverlappedResult(d)
      PROVE  WindowsWriteInv'
  <2>1. PICK result : Ends(d, result)
    BY <1>3 DEF CreateEventFails, SubmitFails, GetOverlappedResult
  <2>2. CASE d = "write"
    <3>1. transfer'["write"].native = "none"
      BY <2>1, <2>2, TransferFacts
    <3>2. ~write'.busy /\ delivered' = delivered
      BY <2>1, <2>2, SMT DEF Ends, Returned
    <3> QED
      BY <3>1, <3>2 DEF WindowsWriteInv
  <2>3. CASE d = "read"
    <3>1. transfer'["write"] = transfer["write"] /\ UNCHANGED <<write, delivered>>
      BY <1>0, <2>1, <2>3, TransferFacts, SMT DEF Ends
    <3> QED
      BY <3>1 DEF WindowsWriteInv
  <2> QED
    BY <2>2, <2>3 DEF Directions
<1>4. ASSUME NEW d \in Directions, Submit(d) \/ NativeFails(d) \/ NativeAborts(d)
      PROVE  WindowsWriteInv'
  <2>1. PICK point \in {"wait", transfer[d].at}, native \in {"pending", "failed", "aborted"} :
          RequestIs(d, point, native, 0)
    BY <1>4 DEF Submit, NativeFails, NativeAborts
  <2>2. transfer[d].native \in {"none", "pending"} /\ UNCHANGED <<write, delivered>>
    BY <1>4 DEF Submit, NativeFails, NativeAborts, TransferInv, contractVars
  <2>3. CASE d = "write"
    <3>1. transfer'["write"].native = native
      BY <2>1, <2>3, TransferFacts, SMT
    <3> QED
      BY <2>2, <2>3, <3>1 DEF WindowsWriteInv
  <2>4. CASE d # "write"
    <3>1. transfer'["write"] = transfer["write"]
      BY <1>0, <2>1, <2>4, TransferFacts, SMT
    <3> QED
      BY <2>2, <3>1 DEF WindowsWriteInv
  <2> QED
    BY <2>3, <2>4
<1>5. ASSUME NEW d \in Directions, WaitEnds(d) \/ WaitFails(d) \/ CancelIoEx(d)
                                   \/ (d = "read" /\ WaitTimesOut)
      PROVE  WindowsWriteInv'
  <2>1. PICK point, trouble, uncancelled : Moves(d, point, trouble, uncancelled)
    BY <1>5 DEF WaitEnds, WaitFails, CancelIoEx, WaitTimesOut
  <2>2. UNCHANGED <<write, delivered>>
    BY <1>5 DEF WaitEnds, WaitFails, CancelIoEx, WaitTimesOut, contractVars
  <2>3. transfer'["write"].native = transfer["write"].native
    BY <1>0, <2>1, TransferFacts, SMT
  <2> QED
    BY <2>2, <2>3 DEF WindowsWriteInv
<1>6. CASE NativeRead
  <2>1. transfer'["write"] = transfer["write"] /\ UNCHANGED <<write, delivered>>
    BY <1>0, <1>6, TransferFacts, SMT DEF NativeRead, contractVars
  <2> QED
    BY <2>1 DEF WindowsWriteInv
<1>7. CASE NativeWrite
  <2>1. transfer'["write"].native \in {"complete", "failed"} /\ delivered' = TRUE
    BY <1>0, <1>7, TransferFacts, SMT DEF NativeWrite, Deliver
  <2> QED
    BY <2>1 DEF WindowsWriteInv
<1>8. CASE UNCHANGED <<contractVars, windowsVars>>
  BY <1>8 DEF contractVars, windowsVars, WindowsWriteInv
<1> QED
  BY <1>0, <1>1, <1>2, <1>3, <1>4, <1>5, <1>6, <1>7, <1>8 DEF WindowsNext, transferStep

LEMMA WindowsIoInvariant == WindowsSpec => []WindowsIoInv
<1>1. WindowsIoInv /\ [WindowsNext]_<<contractVars, windowsVars>> => WindowsIoInv'
  BY HandleNextInv, TransferNextInv, ReadNextInv, WindowsWriteNextInv DEF WindowsIoInv
<1> QED
  BY <1>1, WindowsIoInitInv, PTL DEF WindowsSpec

-----------------------------------------------------------------------------
LEMMA ReadEnds ==
  ASSUME WindowsIoInv, NEW result \in {"report", "timeout", "error"}, Ends("read", result),
         Running("read"),
         result = "report" =>
           /\ transfer["read"].native = "complete"
           /\ sent[transfer["read"].got] = "good"
  PROVE  ReadReturns
<1>1. CASE result = "report"
  <2>1. /\ transfer["read"].got = taken + 1 /\ taken + 1 \in taken + 1 .. Len(sent)
        /\ taken \in Nat
    BY <1>1, SMT DEF WindowsIoInv, ReadInv, Running
  <2>2. IsNext(taken + 1)
    BY <1>1, <2>1, SMT DEF IsNext
  <2>3. /\ taken' = taken + 1 /\ read' = Returned("report")
        /\ UNCHANGED <<handle, sent, write, delivered>>
    BY <1>1, <2>1 DEF Ends
  <2> QED
    BY <2>1, <2>2, <2>3 DEF ReadReturns, Running
<1>2. CASE result # "report"
  BY <1>2 DEF Ends, ReadReturns, Running
<1> QED
  BY <1>1, <1>2

LEMMA WriteEnds ==
  ASSUME WindowsIoInv, NEW outcome \in Outcomes, Ends("write", outcome), Running("write"),
         outcome = "Completed" => transfer["write"].native = "complete",
         outcome = "NotSubmitted" => transfer["write"].native = "none"
  PROVE  WriteReturns
<1>1. /\ outcome = "Completed" => delivered = TRUE
      /\ outcome = "NotSubmitted" => delivered = FALSE
  BY DEF WindowsIoInv, WindowsWriteInv, Running
<1>2. write' = Returned(outcome) /\ UNCHANGED <<handle, sent, taken, read, delivered>>
  BY DEF Ends
<1> QED
  BY <1>1, <1>2 DEF WriteReturns, Running

LEMMA WindowsContractStep ==
  WindowsIoInv /\ [WindowsNext]_<<contractVars, windowsVars>> => [ContractNext]_contractVars
<1> SUFFICES ASSUME WindowsIoInv, [WindowsNext]_<<contractVars, windowsVars>>
             PROVE  [ContractNext]_contractVars
  OBVIOUS
<1> USE DEF ContractNext
<1>1. CASE openWithSystem
  <2>1. Refuse /\ opening # "returned" => Opened
    BY DEF Refuse, Opened, WindowsIoInv, HandleInv
  <2>2. ReadLayout => Opened
    BY <2>1 DEF ReadLayout, Opened, WindowsIoInv, HandleInv
  <2> QED
    BY <1>1, <2>1, <2>2 DEF openWithSystem, CheckEndpoint, FindInterface, Step, OpenPath,
       ReadMetadata, MatchMetadata
<1>2. CASE CallRead \/ CallWrite \/ CallClose \/ Send \/ CloseDevice
  BY <1>2 DEF CloseDevice
<1>3. ASSUME CreateEventFails("read") \/ SubmitFails("read") \/ GetOverlappedResult("read")
      PROVE  ReadReturns
  <2>1. Running("read")
    BY <1>3 DEF CreateEventFails, SubmitFails, GetOverlappedResult, WindowsIoInv, TransferInv,
       Directions
  <2> QED
    BY <1>3, <2>1, ReadEnds DEF CreateEventFails, SubmitFails, GetOverlappedResult, Good,
       Failed
<1>4. ASSUME CreateEventFails("write") \/ SubmitFails("write") \/ GetOverlappedResult("write")
      PROVE  WriteReturns
  <2>1. Running("write")
    BY <1>4 DEF CreateEventFails, SubmitFails, GetOverlappedResult, WindowsIoInv, TransferInv,
       Directions
  <2>2. transfer["write"].at = "call" => transfer["write"].native = "none"
    BY DEF WindowsIoInv, TransferInv, Directions
  <2>3. transfer["write"].trouble # "timeout"
    BY DEF WindowsIoInv, TransferInv
  <2> QED
    BY <1>4, <2>1, <2>2, <2>3, WriteEnds DEF CreateEventFails, SubmitFails,
       GetOverlappedResult, Good, Failed, Outcomes
<1>5. ASSUME NEW d \in Directions,
             Submit(d) \/ WaitEnds(d) \/ CancelIoEx(d) \/ WaitFails(d) \/ NativeFails(d)
             \/ NativeAborts(d)
      PROVE  UNCHANGED contractVars
  BY <1>5 DEF Submit, WaitEnds, CancelIoEx, WaitFails, NativeFails, NativeAborts
<1>6. CASE WaitTimesOut \/ NativeRead
  BY <1>6 DEF WaitTimesOut, NativeRead
<1>7. CASE NativeWrite
  BY <1>7 DEF NativeWrite
<1>8. CASE UNCHANGED <<contractVars, windowsVars>>
  BY <1>8
<1> QED
  BY <1>1, <1>2, <1>3, <1>4, <1>5, <1>6, <1>7, <1>8 DEF WindowsNext, transferStep, Directions

\* The Windows driver implements the contract of driver.Device: a report that
\* completes while its request is being cancelled is returned and not lost, and
\* a Write's outcome is true of what the kernel did with the request, for any
\* number of reports and calls.
THEOREM WindowsImplementsContract == WindowsSpec => Contract
<1>1. ContractInit /\ WindowsInit => ContractInit
  OBVIOUS
<1> QED
  BY <1>1, WindowsIoInvariant, WindowsContractStep, PTL DEF WindowsSpec, Contract

\* transfer joins its request before it returns: no native request is pending
\* on the buffer of a call that has returned.
THEOREM WindowsBufferOwned == WindowsSpec => []BufferOwned
<1>1. WindowsIoInv => BufferOwned
  BY DEF WindowsIoInv, TransferInv, BufferOwned
<1> QED
  BY <1>1, WindowsIoInvariant, PTL

-----------------------------------------------------------------------------
(* All platforms.  The state of the drivers that a build does not have keeps *)
(* its initial value.                                                        *)

DarwinAbsent == reader = "none" /\ writer = "none" /\ runloop = FALSE

WindowsAbsent == /\ \A d \in Directions : transfer[d].native = "none"
                 /\ acquired = FALSE

LinuxAbsent == at # "returned" /\ at # "match" /\ fd = 0

DriversInv ==
  /\ platform \in {"darwin", "windows", "linux"}
  /\ IF platform = "darwin" THEN DarwinIoInv /\ ThreadInv ELSE DarwinAbsent
  /\ IF platform = "windows" THEN WindowsIoInv ELSE WindowsAbsent
  /\ IF platform = "linux" THEN LinuxIoInv /\ OpenInv ELSE LinuxAbsent

\* The drivers keep their invariants in the build that has them.
LEMMA DriversNextInv == DriversInv /\ [MCNext \/ Stopped]_allVars => DriversInv'
<1> SUFFICES ASSUME DriversInv, [MCNext \/ Stopped]_allVars PROVE DriversInv'
  OBVIOUS
<1>0. platform' = platform
  BY DEF MCNext, Stopped, allVars
<1>1. ASSUME UNCHANGED darwinVars PROVE DarwinAbsent => DarwinAbsent'
  BY <1>1 DEF DarwinAbsent, darwinVars, connectionVars
<1>2. ASSUME UNCHANGED windowsVars PROVE WindowsAbsent => WindowsAbsent'
  BY <1>2 DEF WindowsAbsent, windowsVars, systemVars
<1>3. ASSUME UNCHANGED linuxVars PROVE LinuxAbsent => LinuxAbsent'
  BY <1>3 DEF LinuxAbsent, linuxVars, openVars
<1>4. CASE platform = "darwin"
  <2>1. /\ [DarwinNext]_<<contractVars, darwinVars>>
        /\ UNCHANGED windowsVars /\ UNCHANGED linuxVars
    BY <1>4 DEF MCNext, Stopped, allVars
  <2>2. DarwinIoInv' /\ ThreadInv'
    BY <1>4, <2>1, OpeningNextInv, QueueNextInv, DarwinWriteNextInv, ThreadNextInv
    DEF DriversInv, DarwinIoInv
  <2> QED
    BY <1>0, <1>2, <1>3, <1>4, <2>1, <2>2 DEF DriversInv
<1>5. CASE platform = "windows"
  <2>1. /\ [WindowsNext]_<<contractVars, windowsVars>>
        /\ UNCHANGED darwinVars /\ UNCHANGED linuxVars
    BY <1>5 DEF MCNext, Stopped, allVars
  <2>2. WindowsIoInv'
    BY <1>5, <2>1, HandleNextInv, TransferNextInv, ReadNextInv, WindowsWriteNextInv
    DEF DriversInv, WindowsIoInv
  <2> QED
    BY <1>0, <1>1, <1>3, <1>5, <2>1, <2>2 DEF DriversInv
<1>6. CASE platform = "linux"
  <2>1. /\ [LinuxNext]_<<contractVars, linuxVars>>
        /\ UNCHANGED darwinVars /\ UNCHANGED windowsVars
    BY <1>6 DEF MCNext, Stopped, allVars
  <2>2. LinuxIoInv' /\ OpenInv'
    BY <1>6, <2>1, LinuxIoNextInv, OpenNextInv DEF DriversInv
  <2> QED
    BY <1>0, <1>1, <1>2, <1>6, <2>1, <2>2 DEF DriversInv
<1> QED
  BY <1>4, <1>5, <1>6 DEF DriversInv

\* So they hold in every behaviour.
LEMMA DriversInvariant == MCSpec => []DriversInv
<1>1. MCInit => DriversInv
  <2> SUFFICES ASSUME MCInit PROVE DriversInv
    OBVIOUS
  <2>1. DarwinIoInv /\ WindowsIoInv /\ LinuxIoInv /\ OpenInv
    BY DarwinIoInitInv, WindowsIoInitInv, LinuxIoInitInv, OpenInitInv DEF MCInit
  <2>2. ThreadInv /\ DarwinAbsent
    BY DEF MCInit, ContractInit, DarwinInit, ThreadInv, NativeAlone, DarwinAbsent
  <2>3. WindowsAbsent
    BY DEF MCInit, WindowsInit, WindowsAbsent, NoTransfer, Transfer
  <2>4. LinuxAbsent
    BY DEF MCInit, LinuxInit, OpenInit, LinuxAbsent
  <2> QED
    BY <2>1, <2>2, <2>3, <2>4 DEF DriversInv, MCInit
<1> QED
  BY <1>1, DriversNextInv, PTL DEF MCSpec

\* NativeEnds, on every platform: hid_disconnect and a failed hid_connect free the
\* connection only when both threads have ended, openWithSystem of Windows closes the
\* handle on every error path, and transfer joins its request before the buffer goes.
THEOREM NativeEndsHolds == MCSpec => []NativeEnds
<1>1. DriversInv => NativeEnds
  <2> SUFFICES ASSUME DriversInv PROVE NativeEnds
    OBVIOUS
  <2>1. NativeAlone
    BY DEF DriversInv, ThreadInv, NativeAlone, DarwinAbsent
  <2>2. BufferOwned
    BY DEF DriversInv, WindowsIoInv, TransferInv, BufferOwned, WindowsAbsent
  <2>3. HandleOwned
    BY DEF DriversInv, WindowsIoInv, HandleInv, HandleOwned, WindowsAbsent
  <2> QED
    BY <2>1, <2>2, <2>3 DEF NativeEnds
<1> QED
  BY <1>1, DriversInvariant, PTL

\* The driver of every build implements the contract of driver.Device.
THEOREM DriversImplementContract == MCSpec => Contract
<1>1. DriversInv /\ [MCNext \/ Stopped]_allVars => [ContractNext]_contractVars
  <2> SUFFICES ASSUME DriversInv, [MCNext \/ Stopped]_allVars PROVE [ContractNext]_contractVars
    OBVIOUS
  <2>1. CASE platform = "darwin"
    <3>1. [DarwinNext]_<<contractVars, darwinVars>> /\ DarwinIoInv
      BY <2>1 DEF MCNext, Stopped, allVars, DriversInv
    <3> QED
      BY <3>1, DarwinContractStep
  <2>2. CASE platform = "windows"
    <3>1. [WindowsNext]_<<contractVars, windowsVars>> /\ WindowsIoInv
      BY <2>2 DEF MCNext, Stopped, allVars, DriversInv
    <3> QED
      BY <3>1, WindowsContractStep
  <2>3. CASE platform = "linux"
    <3>1. [LinuxNext]_<<contractVars, linuxVars>> /\ LinuxIoInv /\ OpenInv
      BY <2>3 DEF MCNext, Stopped, allVars, DriversInv
    <3> QED
      BY <3>1, LinuxContractStep
  <2> QED
    BY <2>1, <2>2, <2>3 DEF DriversInv
<1>2. MCInit => ContractInit
  BY DEF MCInit
<1> QED
  BY <1>1, <1>2, DriversInvariant, PTL DEF MCSpec, Contract

\* OpensThePinned, in every build.
THEOREM OpensThePinnedHolds == MCSpec => []OpensThePinned
<1>1. DriversInv => OpensThePinned
  BY OpenInvImplies DEF DriversInv, LinuxAbsent, OpensThePinned
<1> QED
  BY <1>1, DriversInvariant, PTL

-----------------------------------------------------------------------------
(* PC/SC: PcscBackend. *)

Seats ==
  [pc : {"idle", "next", "select", "open", "done"}, op : {"none", "discover", "open"},
   todo : SUBSET Readers, reader : Readers \cup {Free}, found : SUBSET Readers,
   errors : BOOLEAN, ok : BOOLEAN]

\* What a user holds at each point: its context from Establish on, and beside it the
\* card of the reader it is at, of no other one.
Holds(u, k, held, connected) ==
  /\ k.pc \in {"idle", "done"} => u \notin held /\ \A r \in Readers : u \notin connected[r]
  /\ k.pc = "next" => u \in held /\ \A r \in Readers : u \notin connected[r]
  /\ k.pc \in {"select", "open"} =>
       /\ u \in held /\ k.reader \in Readers
       /\ \A r \in Readers : u \in connected[r] <=> r = k.reader

PcscInv ==
  /\ user \in [Users -> Seats]
  /\ card \in [Readers -> SUBSET Users]
  /\ \A u \in Users : Holds(u, user[u], contexts, card)

\* A step of one user touches what no other user holds.
LEMMA OthersHold ==
  ASSUME PcscInv, NEW u \in Users, NEW k \in Seats, Set(u, k),
         contexts' \in {contexts, contexts \cup {u}, contexts \ {u}},
         card' \in [Readers -> SUBSET Users],
         \A r \in Readers : card'[r] \in {card[r], card[r] \cup {u}, card[r] \ {u}},
         Holds(u, k, contexts', card')
  PROVE  PcscInv'
<1>1. user' = [user EXCEPT ![u] = k] /\ user \in [Users -> Seats]
  BY DEF Set, PcscInv
<1>2. user' \in [Users -> Seats] /\ user'[u] = k /\ \A v \in Users \ {u} : user'[v] = user[v]
  BY <1>1
<1>3. ASSUME NEW v \in Users PROVE Holds(v, user'[v], contexts', card')
  <2>1. CASE v = u
    BY <1>2, <2>1
  <2>2. CASE v # u
    <3>1. v \in contexts' <=> v \in contexts
      BY <2>2
    <3>2. \A r \in Readers : v \in card'[r] <=> v \in card[r]
      BY <2>2
    <3>3. Holds(v, user[v], contexts, card) /\ user'[v] = user[v]
      BY <1>2, <2>2 DEF PcscInv
    <3> QED
      BY <3>1, <3>2, <3>3 DEF Holds
  <2> QED
    BY <2>1, <2>2
<1> QED
  BY <1>2, <1>3 DEF PcscInv

\* Where a user begins.
LEMMA IdleHolds == IdleUser \in Seats /\ IdleUser.pc = "idle"
BY DEF IdleUser, Seats

\* The steps of one user.
LEMMA PcscUserInv ==
  ASSUME PcscInv, NEW u \in Users,
         \/ Establish(u, "discover", Readers) \/ DiscoverReturns(u)
         \/ \E r \in Readers : Establish(u, "open", {r})
         \/ \E r \in Readers, outcome \in ConnectOutcomes : Connect(u, r, outcome)
         \/ \E outcome \in SelectOutcomes : selectFIDOApplet(u, outcome)
         \/ \E fails \in BOOLEAN : CloseTransceiver(u, fails)
  PROVE  PcscInv'
<1> DEFINE k == user[u]
<1>0. /\ k \in Seats /\ card \in [Readers -> SUBSET Users] /\ Holds(u, k, contexts, card)
  BY DEF PcscInv
<1> HIDE DEF k
<1>1. ASSUME NEW op \in {"discover", "open"}, NEW todo \in SUBSET Readers, Establish(u, op, todo)
      PROVE  PcscInv'
  <2>1. k.pc = "idle" /\ card' = card
    BY <1>1 DEF Establish, k
  <2>2. CASE Set(u, [IdleUser EXCEPT !.pc = "done", !.op = op]) /\ UNCHANGED contexts
    <3> DEFINE n == [IdleUser EXCEPT !.pc = "done", !.op = op]
    <3>1. n \in Seats /\ n.pc = "done"
      BY IdleHolds DEF Seats
    <3>2. Set(u, n)
      BY <2>2
    <3> HIDE DEF n
    <3>3. Holds(u, n, contexts', card')
      BY <1>0, <2>1, <2>2, <3>1 DEF Holds
    <3> QED
      BY <1>0, <2>1, <2>2, <3>1, <3>2, <3>3, OthersHold
  <2>3. CASE /\ Set(u, [IdleUser EXCEPT !.pc = "next", !.op = op, !.todo = todo])
             /\ contexts' = contexts \cup {u}
    <3> DEFINE n == [IdleUser EXCEPT !.pc = "next", !.op = op, !.todo = todo]
    <3>1. n \in Seats /\ n.pc = "next"
      BY IdleHolds DEF Seats
    <3>2. Set(u, n)
      BY <2>3
    <3> HIDE DEF n
    <3>3. Holds(u, n, contexts', card')
      BY <1>0, <2>1, <2>3, <3>1 DEF Holds
    <3> QED
      BY <1>0, <2>1, <2>3, <3>1, <3>2, <3>3, OthersHold
  <2> QED
    BY <1>1, <2>2, <2>3 DEF Establish
<1>2. ASSUME NEW n \in Seats, NEW ok, ok \in BOOLEAN, Released(u, n, ok),
             card' \in [Readers -> SUBSET Users],
             \A r \in Readers : card'[r] \in {card[r], card[r] \ {u}} /\ u \notin card'[r]
      PROVE  PcscInv'
  <2> DEFINE d == [n EXCEPT !.pc = "done", !.ok = ok]
  <2>1. d \in Seats /\ d.pc = "done"
    BY <1>2 DEF Seats
  <2>2. Set(u, d) /\ contexts' = contexts \ {u}
    BY <1>2 DEF Released
  <2> HIDE DEF d
  <2>3. Holds(u, d, contexts', card')
    BY <1>2, <2>1, <2>2 DEF Holds
  <2> QED
    BY <1>2, <2>1, <2>2, <2>3, OthersHold
<1>3. ASSUME DiscoverReturns(u) PROVE PcscInv'
  <2>1. k.pc = "next" /\ card' = card
    BY <1>3 DEF DiscoverReturns, k
  <2>2. \A r \in Readers : card'[r] \in {card[r], card[r] \ {u}} /\ u \notin card'[r]
    BY <1>0, <2>1 DEF Holds
  <2>3. [k EXCEPT !.found = {}] \in Seats
    BY <1>0 DEF Seats
  <2>4. \/ Released(u, [k EXCEPT !.found = {}], FALSE)
        \/ Released(u, k, ~k.errors)
    BY <1>3 DEF DiscoverReturns, k
  <2>5. (~k.errors) \in BOOLEAN
    OBVIOUS
  <2> QED
    BY <1>0, <1>2, <2>1, <2>2, <2>3, <2>4, <2>5
<1>4. ASSUME NEW r \in Readers, NEW outcome \in ConnectOutcomes, Connect(u, r, outcome)
      PROVE  PcscInv'
  <2> DEFINE next == [k EXCEPT !.todo = k.todo \ {r}, !.reader = r]
  <2>1. k.pc = "next" /\ \A q \in Readers : u \notin card[q]
    BY <1>0, <1>4 DEF Connect, k, Holds
  <2>2. next \in Seats /\ next.reader = r /\ next.pc = "next"
    <3>1. k.todo \ {r} \in SUBSET Readers /\ k.pc = "next"
      BY <1>0, <2>1 DEF Seats
    <3> QED
      BY <1>0, <3>1 DEF Seats
  <2>3. CASE outcome = "ok"
    <3>1. /\ card' = [card EXCEPT ![r] = @ \cup {u}] /\ UNCHANGED contexts
          /\ Set(u, [next EXCEPT !.pc = "select"])
      BY <1>4, <2>3 DEF Connect, k
    <3> HIDE DEF next
    <3> DEFINE s == [next EXCEPT !.pc = "select"]
    <3>2. s \in Seats /\ s.pc = "select" /\ s.reader = r
      BY <2>2 DEF Seats
    <3>3. Set(u, s)
      BY <3>1
    <3> HIDE DEF s
    <3>4. /\ card' \in [Readers -> SUBSET Users]
          /\ \A q \in Readers : card'[q] \in {card[q], card[q] \cup {u}}
          /\ \A q \in Readers : u \in card'[q] <=> q = r
      BY <1>0, <2>1, <3>1
    <3>5. Holds(u, s, contexts', card')
      BY <1>0, <2>1, <3>1, <3>2, <3>4 DEF Holds
    <3> QED
      BY <3>1, <3>2, <3>3, <3>4, <3>5, OthersHold
  <2>4. CASE outcome # "ok" /\ k.op = "discover"
    <3>1. /\ UNCHANGED <<contexts, card>>
          /\ Set(u, [next EXCEPT !.errors = @ \/ outcome = "error"])
      BY <1>4, <2>4 DEF Connect, k
    <3> HIDE DEF next
    <3>2. PICK errors \in BOOLEAN : Set(u, [next EXCEPT !.errors = errors])
      <4>1. (next.errors \/ outcome = "error") \in BOOLEAN
        OBVIOUS
      <4> QED
        BY <3>1, <4>1
    <3> DEFINE s == [next EXCEPT !.errors = errors]
    <3>3. s \in Seats /\ s.pc = "next"
      BY <2>2 DEF Seats
    <3>4. Set(u, s)
      BY <3>2
    <3> HIDE DEF s
    <3>5. Holds(u, s, contexts', card')
      BY <1>0, <2>1, <3>1, <3>3 DEF Holds
    <3> QED
      BY <1>0, <3>1, <3>3, <3>4, <3>5, OthersHold
  <2>5. CASE outcome # "ok" /\ k.op # "discover"
    <3>1. Released(u, next, FALSE) /\ card' = card
      BY <1>4, <2>5 DEF Connect, k
    <3> HIDE DEF next
    <3> QED
      BY <1>0, <1>2, <2>1, <2>2, <3>1
  <2> QED
    BY <2>3, <2>4, <2>5
<1>5. ASSUME k.pc \in {"select", "open"}, card' = Disconnected(u)
      PROVE  /\ card' \in [Readers -> SUBSET Users]
             /\ \A r \in Readers : card'[r] \in {card[r], card[r] \ {u}} /\ u \notin card'[r]
  <2>1. k.reader \in Readers /\ \A r \in Readers : u \in card[r] <=> r = k.reader
    BY <1>0, <1>5 DEF Holds
  <2>2. card' = [card EXCEPT ![k.reader] = @ \ {u}]
    BY <1>5 DEF Disconnected, k
  <2> QED
    BY <1>0, <2>1, <2>2
<1>6. ASSUME NEW outcome \in SelectOutcomes, selectFIDOApplet(u, outcome) PROVE PcscInv'
  <2>1. k.pc = "select" /\ u \in contexts /\ k.reader \in Readers
    BY <1>0, <1>6 DEF selectFIDOApplet, k, Holds
  <2>2. CASE k.op = "discover"
    <3>1. /\ card' = Disconnected(u) /\ UNCHANGED contexts
          /\ Set(u, [k EXCEPT !.pc = "next",
                              !.found = IF outcome = "fido" THEN @ \cup {k.reader} ELSE @,
                              !.errors = @ \/ outcome \in {"other status", "error"}])
      BY <1>6, <2>2 DEF selectFIDOApplet, k
    <3>2. PICK found \in SUBSET Readers, errors \in BOOLEAN :
             Set(u, [k EXCEPT !.pc = "next", !.found = found, !.errors = errors])
      <4>1. (k.errors \/ outcome \in {"other status", "error"}) \in BOOLEAN
        OBVIOUS
      <4>2. (IF outcome = "fido" THEN k.found \cup {k.reader} ELSE k.found) \in SUBSET Readers
        BY <1>0, <2>1 DEF Seats
      <4> QED
        BY <3>1, <4>1, <4>2
    <3> DEFINE s == [k EXCEPT !.pc = "next", !.found = found, !.errors = errors]
    <3>3. s \in Seats /\ s.pc = "next"
      BY <1>0 DEF Seats
    <3>4. Set(u, s)
      BY <3>2
    <3> HIDE DEF s
    <3>5. /\ card' \in [Readers -> SUBSET Users]
          /\ \A r \in Readers : card'[r] \in {card[r], card[r] \ {u}} /\ u \notin card'[r]
      BY <1>5, <2>1, <3>1
    <3>6. Holds(u, s, contexts', card')
      BY <2>1, <3>1, <3>3, <3>5 DEF Holds
    <3> QED
      BY <3>1, <3>3, <3>4, <3>5, <3>6, OthersHold
  <2>3. CASE k.op = "open" /\ outcome = "fido"
    <3>1. Set(u, [k EXCEPT !.pc = "open"]) /\ UNCHANGED <<contexts, card>>
      BY <1>6, <2>3 DEF selectFIDOApplet, k
    <3> DEFINE s == [k EXCEPT !.pc = "open"]
    <3>2. s \in Seats /\ s.pc = "open" /\ s.reader = k.reader
      BY <1>0 DEF Seats
    <3>3. Set(u, s)
      BY <3>1
    <3> HIDE DEF s
    <3>4. Holds(u, s, contexts', card')
      BY <1>0, <2>1, <3>1, <3>2 DEF Holds
    <3> QED
      BY <1>0, <3>1, <3>2, <3>3, <3>4, OthersHold
  <2>4. CASE k.op # "discover" /\ ~(k.op = "open" /\ outcome = "fido")
    <3>1. Released(u, k, FALSE) /\ card' = Disconnected(u)
      BY <1>6, <2>4 DEF selectFIDOApplet, k
    <3> QED
      BY <1>0, <1>2, <1>5, <2>1, <3>1
  <2> QED
    BY <2>2, <2>3, <2>4
<1>7. ASSUME NEW fails \in BOOLEAN, CloseTransceiver(u, fails) PROVE PcscInv'
  <2>1. k.pc = "open" /\ card' = Disconnected(u) /\ Released(u, k, ~fails)
    BY <1>7 DEF CloseTransceiver, k
  <2>2. (~fails) \in BOOLEAN
    OBVIOUS
  <2> QED
    BY <1>0, <1>2, <1>5, <2>1, <2>2
<1> QED
  <2>1. \A r \in Readers : {r} \in SUBSET Readers
    OBVIOUS
  <2> QED
    BY <1>1, <1>3, <1>4, <1>6, <1>7, <2>1

\* The invariant of discovery and opening over PC/SC.
THEOREM PcscInvariant == PcscSpec => []PcscInv
<1>1. PcscInit => PcscInv
  BY IdleHolds DEF PcscInit, PcscInv, Holds
<1>2. PcscInv /\ [PcscNext]_pcscVars => PcscInv'
  <2> SUFFICES ASSUME PcscInv, [PcscNext]_pcscVars PROVE PcscInv'
    OBVIOUS
  <2>1. CASE UNCHANGED pcscVars
    BY <2>1 DEF pcscVars, PcscInv, Holds
  <2>2. CASE PcscNext
    BY <2>1, <2>2, PcscUserInv DEF PcscNext, PcscDone
  <2> QED
    BY <2>1, <2>2
<1> QED
  BY <1>1, <1>2, PTL DEF PcscSpec

\* A Discover, Open or Close that has returned holds no context and no card, and an open
\* transceiver holds both, for any readers and users (pcscDiscoverer, pcscOpener).
THEOREM NothingHeldHolds == PcscSpec => []NothingHeld
<1>1. PcscInv => NothingHeld
  BY DEF PcscInv, Holds, NothingHeld
<1> QED
  BY <1>1, PcscInvariant, PTL


=============================================================================
