------------------------------ MODULE HidDriver ------------------------------
(***************************************************************************)
(* What pkg/hid asks of a native driver: the contract of driver.Device     *)
(* (pkg/hid/internal/driver/driver.go), with the calls the core makes.     *)
(* One Read and one Write may run at once, Close comes after both have     *)
(* returned, and the core calls no Read after one that failed.  The three  *)
(* platform modules (DarwinDriver, WindowsDriver, LinuxDriver) share these *)
(* variables and are checked to implement Contract.                        *)
(*                                                                         *)
(* sent holds what the device has sent this open handle: a report of the   *)
(* handle's input format ("good"), one of that ID with another length      *)
(* ("bad"), or one with another report ID ("other").                       *)
(***************************************************************************)
EXTENDS Naturals, Sequences

CONSTANT maxReports    \* bound: reports the device sends in a behaviour

VARIABLES
  platform,    \* the driver this build has: "darwin", "windows" or "linux"
  handle,      \* "opening", "open", "refused", "closing" or "closed"
  sent,        \* the input reports of the device, in order
  taken,       \* the position in sent of the last report a Read returned
  read,        \* the Read call: running or not, and how the last one ended
  write,       \* the Write call, likewise
  delivered    \* the device has received the report of the latest Write

contractVars == <<handle, sent, taken, read, write, delivered>>

Kinds == {"good", "bad", "other"}

Outcomes == {"NotSubmitted", "Unknown", "Completed"}

Idle == [busy |-> FALSE, result |-> "none"]

Busy == [busy |-> TRUE, result |-> "none"]

Returned(result) == [busy |-> FALSE, result |-> result]

ContractInit ==
  /\ handle = "opening"
  /\ sent = << >>
  /\ taken = 0
  /\ read = Idle
  /\ write = Idle
  /\ delivered = FALSE

-----------------------------------------------------------------------------
(* The calls of the core, and the reports of the device. *)

CallRead ==
  /\ handle = "open"
  /\ ~read.busy
  /\ read.result # "error"
  /\ read' = Busy
  /\ UNCHANGED <<handle, sent, taken, write, delivered>>

CallWrite ==
  /\ handle = "open"
  /\ ~write.busy
  /\ write' = Busy
  /\ delivered' = FALSE
  /\ UNCHANGED <<handle, sent, taken, read>>

CallClose ==
  /\ handle = "open"
  /\ ~read.busy
  /\ ~write.busy
  /\ handle' = "closing"
  /\ UNCHANGED <<sent, taken, read, write, delivered>>

Send ==
  /\ Len(sent) < maxReports
  /\ \E kind \in Kinds : sent' = Append(sent, kind)
  /\ UNCHANGED <<handle, taken, read, write, delivered>>

-----------------------------------------------------------------------------
(* What a driver may answer. *)

\* Report i is the next one of the handle's format after the last returned.
IsNext(i) ==
  /\ sent[i] = "good"
  /\ \A j \in taken + 1 .. i - 1 : sent[j] = "other"

Opened ==
  /\ handle = "opening"
  /\ handle' \in {"open", "refused"}
  /\ UNCHANGED <<sent, taken, read, write, delivered>>

Closed ==
  /\ handle = "closing"
  /\ handle' = "closed"
  /\ UNCHANGED <<sent, taken, read, write, delivered>>

ReadReturns ==
  /\ read.busy
  /\ \/ /\ \E i \in taken + 1 .. Len(sent) :
             IsNext(i) /\ taken' = i
        /\ read' = Returned("report")
     \/ /\ read' \in {Returned("timeout"), Returned("error")}
        /\ UNCHANGED taken
  /\ UNCHANGED <<handle, sent, write, delivered>>

Deliver ==
  /\ write.busy
  /\ delivered' = TRUE
  /\ UNCHANGED <<handle, sent, taken, read, write>>

WriteReturns ==
  /\ write.busy
  /\ delivered' \in {delivered, TRUE}
  /\ \E outcome \in Outcomes :
       /\ write' = Returned(outcome)
       /\ outcome = "Completed" => delivered'
       /\ outcome = "NotSubmitted" => ~delivered'
  /\ UNCHANGED <<handle, sent, taken, read>>

ContractNext ==
  \/ CallRead
  \/ CallWrite
  \/ CallClose
  \/ Send
  \/ Opened
  \/ Closed
  \/ ReadReturns
  \/ Deliver
  \/ WriteReturns

\* driver.go, "Device permits one Read and one Write concurrently. Close is
\* called only after both have returned. Read's local timeout must leave no
\* pending read that can consume the next caller's report": successive Reads
\* return the device's reports in order, with no gap and no repetition across
\* timeouts, until one fails; a Write reported Completed reached the device,
\* one reported NotSubmitted did not and never will.
Contract == ContractInit /\ [][ContractNext]_contractVars
=============================================================================
