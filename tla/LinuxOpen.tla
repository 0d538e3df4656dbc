------------------------------ MODULE LinuxOpen ------------------------------
(***************************************************************************)
(* Open of the Linux driver (open_linux.go, with inspect of                *)
(* inventory_linux.go): a hidraw class entry is pinned, inspected, opened  *)
(* and inspected again while devices come and go behind its name.          *)
(*                                                                         *)
(* The entry's name and minor are reused: unplugging a device and plugging *)
(* one in gives the entry to a new incarnation, with an inode of its own.  *)
(* Every system call sees the incarnation present at that moment.          *)
(***************************************************************************)
EXTENDS HidDriver

CONSTANTS
  Attributes,    \* of the incarnations, in the order they are plugged in
  expected       \* the attributes of the endpoint the caller asks for

Metadata == [info : Nat, descriptor : Nat, unique : Nat, strings : Nat]

Incarnation == [sysPath : Nat \ {0}, dev : Nat \ {0}, metadata : Metadata]

ASSUME OpenAssumption ==
  /\ Attributes \in Seq(Incarnation)
  /\ Len(Attributes) > 0
  /\ expected \in Incarnation

VARIABLES
  present,       \* the incarnation behind the entry, 0 when there is none
  plugged,       \* the incarnations plugged in so far
  at,            \* the next system call of openWithSystem
  anchor,        \* the pinned inode, and the path its entry resolved to
  item,          \* what the inspection under way, or the last one, has read
  round,         \* the verifySysfs under way or next: 1, 2 or 3
  realPath,      \* what verifySysfs resolved
  fd             \* the incarnation the open descriptor belongs to, 0 for none

openVars == <<present, plugged, at, anchor, item, round, realPath, fd>>

NoAnchor == [inode |-> 0, path |-> 0]

NoMetadata == [info |-> 0, descriptor |-> 0, unique |-> 0, strings |-> 0]

NoEntry == [sysPath |-> 0, dev |-> 0, metadata |-> NoMetadata]

OpenInit ==
  /\ present = 1
  /\ plugged = 1
  /\ at = "pin"
  /\ anchor = NoAnchor
  /\ item = NoEntry
  /\ round = 1
  /\ realPath = 0
  /\ fd = 0

\* The attributes of the incarnation present: what sysfs shows.
Shown == Attributes[present]

Plug ==
  /\ handle = "opening"
  /\ \/ present # 0 /\ present' = 0 /\ UNCHANGED plugged
     \/ /\ present = 0
        /\ plugged < Len(Attributes)
        /\ present' = plugged + 1
        /\ plugged' = plugged + 1
  /\ UNCHANGED <<contractVars, at, anchor, item, round, realPath, fd>>

-----------------------------------------------------------------------------
\* openWithSystem returns; the anchor is closed, and the descriptor on failure.
Return(opened) ==
  /\ handle' = IF opened THEN "open" ELSE "refused"
  /\ at' = "returned"
  /\ fd' = IF opened THEN fd ELSE 0
  /\ anchor' = NoAnchor
  /\ item' = NoEntry
  /\ round' = 1
  /\ realPath' = 0
  /\ UNCHANGED <<sent, taken, read, write, delivered, present, plugged>>

\* A system call fails for a reason of its own, or because the entry is gone.
Fails == at # "returned" /\ Return(FALSE)

Proceed(next) ==
  /\ at' = next
  /\ UNCHANGED <<contractVars, present, plugged>>

Steps == [pin |-> "pinPath", pinPath |-> "resolve", resolve |-> "number", number |-> "node",
          hid |-> "usb", usb |-> "report", report |-> "verifyPath"]

anchorSysfs ==
  /\ present # 0
  /\ \/ at = "pin" /\ anchor' = [inode |-> present, path |-> 0]
     \/ at = "pinPath" /\ anchor' = [inode |-> anchor.inode, path |-> Shown.sysPath]
  /\ Proceed(Steps[at])
  /\ UNCHANGED <<item, round, realPath, fd>>

\* The entry inspected is the one asked for, and the second time the one opened.
SameAddress(entry) ==
  /\ entry.sysPath = expected.sysPath
  /\ fd # 0 => entry.dev = Attributes[fd].dev

HasRead(info, descriptor, unique, strings) ==
  item' = [sysPath |-> item.sysPath, dev |-> item.dev,
           metadata |-> [info |-> info, descriptor |-> descriptor, unique |-> unique,
                         strings |-> strings]]

inspect ==
  /\ present # 0
  /\ \/ /\ at = "resolve"
        /\ item' = [sysPath |-> Shown.sysPath, dev |-> 0, metadata |-> NoMetadata]
     \/ /\ at = "number"
        /\ item' = [sysPath |-> item.sysPath, dev |-> Shown.dev, metadata |-> NoMetadata]
     \/ /\ at = "hid"
        /\ HasRead(Shown.metadata.info, 0, Shown.metadata.unique, 0)
     \/ /\ at = "report"
        /\ HasRead(item.metadata.info, Shown.metadata.descriptor, item.metadata.unique,
                   item.metadata.strings)
        /\ SameAddress(item)
  /\ Proceed(Steps[at])
  /\ UNCHANGED <<anchor, round, realPath, fd>>

resolveNode ==
  /\ at = "node"
  /\ present # 0
  /\ Shown.dev = item.dev
  /\ Proceed("hid")
  /\ UNCHANGED <<anchor, item, round, realPath, fd>>

\* Interface number and strings of the USB parent; what cannot be read is left
\* unknown, 0 here, and fails nothing.
readUSBMetadata ==
  /\ at = "usb"
  /\ \E strings \in {0} \cup {Attributes[i].metadata.strings : i \in {present} \ {0}} :
       HasRead(item.metadata.info, 0, item.metadata.unique, strings)
  /\ Proceed("report")
  /\ UNCHANGED <<anchor, round, realPath, fd>>

verifySysfsPathOnlyBroken ==
  /\ present # 0
  /\ \/ /\ at = "verifyPath"
        /\ realPath' = Shown.sysPath
        /\ Proceed("verify")
        /\ UNCHANGED round
     \/ /\ at = "verify"
        /\ realPath = anchor.path
        /\ realPath = item.sysPath
        /\ Proceed(<<"open", "info", "match">>[round])
        /\ round' = IF round = 3 THEN 3 ELSE round + 1
        /\ UNCHANGED realPath
  /\ UNCHANGED <<anchor, item, fd>>

verifySysfs ==
  /\ present # 0
  /\ \/ /\ at = "verifyPath"
        /\ realPath' = Shown.sysPath
        /\ Proceed("verify")
        /\ UNCHANGED round
     \/ /\ at = "verify"
        /\ realPath = anchor.path
        /\ realPath = item.sysPath
        /\ present = anchor.inode
        /\ Proceed(<<"open", "info", "match">>[round])
        /\ round' = IF round = 3 THEN 3 ELSE round + 1
        /\ UNCHANGED realPath
  /\ UNCHANGED <<anchor, item, fd>>

openNode ==
  /\ at = "open"
  /\ present # 0
  /\ fd' = present
  /\ Proceed("fstat")
  /\ UNCHANGED <<anchor, item, round, realPath>>

fstat ==
  /\ at = "fstat"
  /\ Attributes[fd].dev = item.dev
  /\ Proceed("resolve")
  /\ UNCHANGED <<anchor, item, round, realPath, fd>>

\* An ioctl on the descriptor: hidraw answers for the device that now has the
\* descriptor's minor.
Ioctl(part, next) ==
  /\ at = part
  /\ present # 0
  /\ Proceed(next)
  /\ UNCHANGED <<anchor, item, round, realPath, fd>>

rawInfo ==
  Ioctl("info", "descriptor") /\ Shown.metadata.info = item.metadata.info

readDescriptor ==
  Ioctl("descriptor", "unique") /\ Shown.metadata.descriptor = item.metadata.descriptor

\* A device may have no unique string, 0 here.
readUnique ==
  /\ Ioctl("unique", "verifyPath")
  /\ \/ Shown.metadata.unique = item.metadata.unique
     \/ 0 \in {Shown.metadata.unique, item.metadata.unique}

\* What the caller knows of the endpoint (0 is unknown) is what was read of it.
Wanted(metadata) ==
  \A part \in DOMAIN metadata :
    expected.metadata[part] # 0 => metadata[part] = expected.metadata[part]

matches ==
  /\ at = "match"
  /\ Wanted(item.metadata)
  /\ Return(TRUE)

OpenStep == anchorSysfs \/ inspect \/ resolveNode \/ readUSBMetadata \/ verifySysfs
            \/ openNode \/ fstat \/ rawInfo \/ readDescriptor \/ readUnique \/ matches

\* An endpoint is opened only as the device that was pinned and inspected: the
\* descriptor, the inode and the metadata handed to the caller belong to one
\* incarnation, the one the caller asked for, whatever was unplugged, plugged in
\* or renumbered between the system calls; a refused Open keeps no descriptor.
OpensThePinned ==
  /\ at = "match" =>
       /\ fd = anchor.inode
       /\ \A part \in DOMAIN item.metadata :
            item.metadata[part] \in {0, Attributes[fd].metadata[part]}
  /\ handle = "open" /\ at = "returned" =>
       /\ Attributes[fd].sysPath = expected.sysPath
       /\ Wanted(Attributes[fd].metadata)
  /\ handle = "refused" => fd = 0
=============================================================================
