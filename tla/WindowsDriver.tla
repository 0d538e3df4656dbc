---------------------------- MODULE WindowsDriver ----------------------------
(***************************************************************************)
(* The Windows driver: openWithSystem of device_windows.go with the native *)
(* handle it acquires, and the overlapped transfer that Read and Write     *)
(* share.  A transfer is submitted, waited for, cancelled when the wait    *)
(* times out or fails, and always joined before its buffer is released.    *)
(* The I/O manager completes, fails or aborts it at any time while it is   *)
(* pending.                                                                *)
(***************************************************************************)
EXTENDS HidDriver

VARIABLES
  transfer,   \* per direction: where the call stands (at), the state of the
              \* native request (native), the report it took (got), why it was
              \* cancelled (trouble) and whether CancelIoEx failed (uncancelled)
  fetched,    \* the reports of sent that native reads have taken
  opening,    \* where openWithSystem stands
  fits,       \* the metadata read from the handle match the requested endpoint
  acquired    \* the native handle is open

systemVars  == <<opening, fits, acquired>>
windowsVars == <<transfer, fetched, systemVars>>

Directions == {"read", "write"}

Transfer(at, native, got, trouble, uncancelled) ==
  [at |-> at, native |-> native, got |-> got, trouble |-> trouble,
   uncancelled |-> uncancelled]

NoTransfer == Transfer("call", "none", 0, "none", FALSE)

WindowsInit ==
  /\ transfer = [d \in Directions |-> NoTransfer]
  /\ fetched = 0
  /\ opening = "check" /\ fits = FALSE /\ acquired = FALSE

\* The call moves on, or its native request ends.
Moves(d, at, trouble, uncancelled) ==
  transfer' = [transfer EXCEPT ![d] = Transfer(at, @.native, @.got, trouble, uncancelled)]

RequestIs(d, at, native, got) ==
  transfer' = [transfer EXCEPT ![d] = Transfer(at, native, got, @.trouble, @.uncancelled)]

Running(d) == IF d = "read" THEN read.busy ELSE write.busy

-----------------------------------------------------------------------------
(* Opening and closing the native handle. *)

\* A return with an error; the deferred function closes the handle, if there is one.
Refuse ==
  /\ handle' = "refused"
  /\ opening' = "returned"
  /\ acquired' = FALSE
  /\ UNCHANGED <<sent, taken, read, write, delivered, fits>>

\* One of the steps that need no handle fails, or the next one follows.
Step(here, next) ==
  /\ opening = here
  /\ \/ Refuse
     \/ opening' = next /\ UNCHANGED <<contractVars, fits, acquired>>

\* The endpoint's ID and path, and its entry in a fresh inventory (find).
CheckEndpoint == Step("check", "find")
FindInterface == Step("find", "open")

OpenPath ==
  /\ opening = "open"
  /\ \/ Refuse
     \/ /\ acquired' = TRUE
        /\ opening' = "metadata"
        /\ UNCHANGED <<contractVars, fits>>

\* Another device may be at the path by now.
ReadMetadata ==
  /\ opening = "metadata"
  /\ \/ Refuse
     \/ /\ fits' \in BOOLEAN
        /\ opening' = "match"
        /\ UNCHANGED <<contractVars, acquired>>

MatchMetadata ==
  /\ opening = "match"
  /\ \/ ~fits /\ Refuse
     \/ fits /\ opening' = "layout" /\ UNCHANGED <<contractVars, fits, acquired>>

ReadLayout ==
  /\ opening = "layout"
  /\ \/ Refuse
     \/ /\ handle' = "open"
        /\ opening' = "returned"
        /\ UNCHANGED <<sent, taken, read, write, delivered, fits, acquired>>

openWithSystem ==
  /\ CheckEndpoint \/ FindInterface \/ OpenPath \/ ReadMetadata \/ MatchMetadata \/ ReadLayout
  /\ UNCHANGED <<transfer, fetched>>

\* device.Close.
CloseDevice ==
  /\ Closed
  /\ acquired' = FALSE
  /\ UNCHANGED <<transfer, fetched, opening, fits>>

-----------------------------------------------------------------------------
(* Transfers. *)

\* Read and Write return what transfer gave them.
Ends(d, result) ==
  /\ transfer' = [transfer EXCEPT ![d] = NoTransfer]
  /\ IF d = "read"
     THEN /\ read' = Returned(result)
          /\ taken' = IF result = "report" THEN transfer[d].got ELSE taken
          /\ UNCHANGED write
     ELSE write' = Returned(result) /\ UNCHANGED <<read, taken>>
  /\ UNCHANGED <<handle, sent, delivered, fetched, systemVars>>

CreateEventFails(d) ==
  /\ Running(d)
  /\ transfer[d].at = "call"
  /\ Ends(d, IF d = "read" THEN "error" ELSE "NotSubmitted")

\* ReadFile or WriteFile; an inline completion needs no wait.
Submit(d) ==
  /\ Running(d)
  /\ transfer[d].at = "call"
  /\ RequestIs(d, "wait", "pending", 0)
  /\ UNCHANGED <<contractVars, fetched, systemVars>>

SubmitFails(d) ==
  /\ Running(d)
  /\ transfer[d].at = "call"
  /\ Ends(d, IF d = "read" THEN "error" ELSE "Unknown")

\* WaitForSingleObject: the event is set, a Read's wait times out, or it fails.
WaitEnds(d) ==
  /\ transfer[d].at = "wait"
  /\ transfer[d].native # "pending"
  /\ Moves(d, "join", transfer[d].trouble, FALSE)
  /\ UNCHANGED <<contractVars, fetched, systemVars>>

WaitTimesOut ==
  /\ transfer["read"].at = "wait"
  /\ Moves("read", "cancel", "timeout", FALSE)
  /\ UNCHANGED <<contractVars, fetched, systemVars>>

WaitFails(d) ==
  /\ transfer[d].at = "wait"
  /\ Moves(d, "cancel", "wait", FALSE)
  /\ UNCHANGED <<contractVars, fetched, systemVars>>

\* A request that has ended is ERROR_NOT_FOUND, which is ignored.
CancelIoEx(d) ==
  /\ transfer[d].at = "cancel"
  /\ \E failed \in BOOLEAN : Moves(d, "join", transfer[d].trouble, failed)
  /\ UNCHANGED <<contractVars, fetched, systemVars>>

\* What Read makes of a report, and Write of a count.
Good(d) ==
  IF d = "write" THEN "Completed"
  ELSE IF sent[transfer[d].got] = "good" THEN "report" ELSE "error"

Failed(d) == IF d = "read" THEN "error" ELSE "Unknown"

GetOverlappedResultTimeoutBroken(d) ==
  /\ transfer[d].at = "join"
  /\ transfer[d].native # "pending"
  /\ LET t == transfer[d] IN
     Ends(d, IF t.trouble = "timeout" THEN "timeout"
               ELSE IF t.native = "complete" THEN Good(d) ELSE Failed(d))

\* The blocking join.  A report that arrived before the cancellation took
\* effect is returned; a Write that completed is Completed even so.
GetOverlappedResult(d) ==
  /\ transfer[d].at = "join"
  /\ transfer[d].native # "pending"
  /\ LET t == transfer[d]
         troubled == d = "read" /\ (t.trouble = "wait" \/ t.uncancelled)
     IN  \/ /\ t.native = "complete"
            /\ Ends(d, IF troubled THEN "error" ELSE Good(d))
         \/ /\ t.native = "complete"
            /\ d = "read"    \* the event's CloseHandle failed
            /\ Ends(d, "error")
         \/ /\ t.native # "complete"
            /\ Ends(d, IF t.native = "aborted" /\ t.trouble = "timeout"
                         THEN "timeout" ELSE Failed(d))

-----------------------------------------------------------------------------
(* The I/O manager. *)

NativeRead ==
  /\ transfer["read"].native = "pending"
  /\ fetched < Len(sent)
  /\ fetched' = fetched + 1
  /\ RequestIs("read", transfer["read"].at, "complete", fetched + 1)
  /\ UNCHANGED <<contractVars, systemVars>>

NativeWrite ==
  /\ transfer["write"].native = "pending"
  /\ Deliver
  /\ \E native \in {"complete", "failed"} :
       RequestIs("write", transfer["write"].at, native, 0)
  /\ UNCHANGED <<fetched, systemVars>>

NativeFails(d) ==
  /\ transfer[d].native = "pending"
  /\ RequestIs(d, transfer[d].at, "failed", 0)
  /\ UNCHANGED <<contractVars, fetched, systemVars>>

NativeAborts(d) ==
  /\ transfer[d].native = "pending"
  /\ transfer[d].at = "join"
  /\ ~transfer[d].uncancelled
  /\ RequestIs(d, transfer[d].at, "aborted", 0)
  /\ UNCHANGED <<contractVars, fetched, systemVars>>

-----------------------------------------------------------------------------
transferStep(d) ==
  CreateEventFails(d) \/ Submit(d) \/ SubmitFails(d) \/ WaitEnds(d) \/ CancelIoEx(d)
  \/ GetOverlappedResult(d)

WindowsNext ==
  \/ openWithSystem
  \/ (CallRead \/ CallWrite \/ CallClose \/ Send) /\ UNCHANGED windowsVars
  \/ CloseDevice
  \/ \E d \in Directions :
       transferStep(d) \/ WaitFails(d) \/ NativeFails(d) \/ NativeAborts(d)
  \/ WaitTimesOut
  \/ NativeRead
  \/ NativeWrite

WindowsSpec ==
  ContractInit /\ WindowsInit /\ [][WindowsNext]_<<contractVars, windowsVars>>

\* System calls return, a Read's wait is bounded, the device takes or rejects a
\* report in the end, and a request whose cancellation was accepted ends.
WindowsFairness ==
  /\ WF_<<contractVars, windowsVars>>(platform = "windows" /\ (openWithSystem \/ CloseDevice))
  /\ WF_<<contractVars, windowsVars>>(platform = "windows" /\ WaitTimesOut)
  /\ WF_<<contractVars, windowsVars>>(platform = "windows" /\ NativeWrite)
  /\ \A d \in Directions :
       /\ WF_<<contractVars, windowsVars>>(platform = "windows" /\ transferStep(d))
       /\ WF_<<contractVars, windowsVars>>(platform = "windows" /\ NativeAborts(d))

\* The native handle of a device that was refused or closed is not open, that of an open
\* device is, and its metadata were those of the endpoint that was asked for.
HandleOwned ==
  /\ handle \in {"refused", "closed"} => ~acquired
  /\ platform = "windows" /\ handle \in {"open", "closing"} => acquired /\ fits

\* No native request outlives the call that owns its buffer.
BufferOwned == \A d \in Directions : transfer[d].native = "pending" => Running(d)
=============================================================================
