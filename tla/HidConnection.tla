---------------------------- MODULE HidConnection ----------------------------
(***************************************************************************)
(* One opened HID collection: the type connection of pkg/hid with its      *)
(* operations Read, Write and Close, its input pump, one goroutine per     *)
(* native write and the supervisor that retirement starts.                 *)
(*                                                                         *)
(* A call of Read, Write or Close is identified with its context: a member *)
(* of Readers, Writers or Closers is one call, made at any time or never,  *)
(* and ctx[c] says that its context has expired.  The mutex c.mu is not    *)
(* modelled as a variable: every critical section is one action.  What     *)
(* happens outside it (a select, a native call, a deferred second lock) is *)
(* an action of its own.  The native device is external: a native call     *)
(* returns at any later time, or never, with any result of its contract.   *)
(*                                                                         *)
(* An operator whose name ends in Broken is a plausible mistake in the     *)
(* definition that follows it.  The specification does not use it; put in  *)
(* the definition's place it must violate a property.                      *)
(***************************************************************************)
EXTENDS Naturals, Sequences

CONSTANTS Readers,    \* the calls of Read
          Writers,    \* the calls of Write, and the goroutines that perform them
          Closers,    \* the calls of Close
          QueueSize,  \* driver.InputQueueSize
          MaxReports  \* bound on the reports the device produces

Pump  == "pump"
Calls == Readers \cup Writers \cup Closers
Slots == 0..(QueueSize - 1)

ASSUME ConnectionAssumption ==
    /\ Readers \cap Writers = {}
    /\ Readers \cap Closers = {}
    /\ Writers \cap Closers = {}
    /\ Pump \notin Writers
    /\ QueueSize \in Nat \ {0}
    /\ MaxReports \in Nat

VARIABLES
    retiring,   \* c.retiring; the channel c.retired is closed exactly then
    reason,     \* c.reason, by the event that it wraps
    readBusy, writeBusy,
    queue, head, count,  \* the ring of input reports, 0 in an empty slot
    ready,      \* the one token of the channel c.ready
    workers,    \* the goroutines the wait group c.workers counts
    pump,       \* program counter of pump()
    sup,        \* program counter of the supervisor; c.done is closed at "done"
    closeErr,   \* device.Close failed
    lease,      \* the endpoint is reserved in the shared resources
    pc,         \* program counter of every call
    ctx,        \* the context of the call has expired
    err,        \* the error the call returned
    timed,      \* the Read has a positive local wait
    wake,       \* wakeError of a Read
    wpc,        \* program counter of the goroutine of a Write
    pending,    \* pendingWrite
    outcome,    \* the WriteResult the Write returned
    raw,        \* what device.Write answered
    produced,   \* number of reports the device has produced
    delivered,  \* reports returned by Read, in order
    causes      \* what has happened that may end the connection

retireVars == <<retiring, reason, sup, queue, count>>
pumpVars   == <<pump, produced>>
readVars   == <<readBusy, head, ready, timed, wake, delivered>>
writeVars  == <<writeBusy, wpc, pending, outcome, raw>>
closeVars  == <<closeErr, lease>>
callVars   == <<pc, err>>
vars == <<retireVars, pumpVars, readVars, writeVars, closeVars, callVars,
          workers, ctx, causes>>

Outcomes == {"Unknown", "NotSubmitted", "Completed"}
Errors   == {"none", "ctx", "closed", "busy", "invalid", "timeout", "io"}
NoAnswer == [outcome |-> "none", failed |-> FALSE]
Fresh    == [submitted |-> FALSE, completed |-> FALSE,
             outcome |-> "Unknown", failed |-> FALSE]

\* newConnection: the pump is the first worker and the lease is held.
Init ==
    /\ retiring = FALSE /\ reason = "none" /\ sup = "none"
    /\ queue = [i \in Slots |-> 0] /\ head = 0 /\ count = 0
    /\ readBusy = FALSE /\ writeBusy = FALSE /\ ready = FALSE
    /\ workers = {Pump} /\ pump = "check"
    /\ closeErr = FALSE /\ lease = TRUE
    /\ pc = [c \in Calls |-> "start"]
    /\ ctx = [c \in Calls |-> FALSE]
    /\ err = [c \in Calls |-> "none"]
    /\ timed = [r \in Readers |-> FALSE]
    /\ wake = [r \in Readers |-> "none"]
    /\ wpc = [w \in Writers |-> "none"]
    /\ pending = [w \in Writers |-> Fresh]
    /\ outcome = [w \in Writers |-> "Unknown"]
    /\ raw = [w \in Writers |-> NoAnswer]
    /\ produced = 0 /\ delivered = <<>> /\ causes = {}

------------------------------------------------------------------------------
(* Retirement. *)

\* retireLocked: the first caller revokes admission, drops the queued input and
\* starts the supervisor; later calls change nothing.
RetireLocked(why) ==
    IF retiring
    THEN UNCHANGED retireVars
    ELSE /\ retiring' = TRUE
         /\ reason' = why
         /\ sup' = "waiting"
         /\ queue' = [i \in Slots |-> 0]
         /\ count' = 0

\* A cancelled write leaves the connection open.
RetireIfExpiredBroken(c) == UNCHANGED retireVars

\* An expired context retires the connection.
RetireIfExpired(c) == IF ctx[c] THEN RetireLocked("ctx") ELSE UNCHANGED retireVars

\* workers.Wait() returns.
WorkersDone == workers = {}

\* The supervisor calls device.Close once every worker is done.
SupervisorClose ==
    /\ sup = "waiting"
    /\ WorkersDone
    /\ sup' = "closing"
    /\ UNCHANGED <<retiring, reason, queue, count, pumpVars, readVars, writeVars,
                   closeVars, callVars, workers, ctx, causes>>

\* device.Close returns, with or without an error.
NativeCloseReturn ==
    /\ sup = "closing"
    /\ sup' = "closed"
    /\ closeErr' \in BOOLEAN
    /\ UNCHANGED <<retiring, reason, queue, count, pumpVars, readVars, writeVars,
                   lease, callVars, workers, ctx, causes>>

\* shared.releaseEndpoint(c.lease).
SupervisorRelease ==
    /\ sup = "closed"
    /\ sup' = "released"
    /\ lease' = FALSE
    /\ UNCHANGED <<retiring, reason, queue, count, pumpVars, readVars, writeVars,
                   closeErr, callVars, workers, ctx, causes>>

\* The supervisor publishes the close error and closes c.done.
SupervisorDone ==
    /\ sup = "released"
    /\ sup' = "done"
    /\ UNCHANGED <<retiring, reason, queue, count, pumpVars, readVars, writeVars,
                   closeVars, callVars, workers, ctx, causes>>

Supervisor == SupervisorClose \/ SupervisorRelease \/ SupervisorDone

------------------------------------------------------------------------------
(* The input pump. *)

\* The pump does not look at c.retiring before it reads again.
StopRequestedBroken == FALSE

StopRequested == retiring

\* The loop head: leave when the connection retires, else call device.Read.
PumpCheck ==
    /\ pump = "check"
    /\ pump' = IF StopRequested THEN "exiting" ELSE "reading"
    /\ UNCHANGED <<retireVars, produced, readVars, writeVars, closeVars, callVars,
                   workers, ctx, causes>>

\* device.Read returns: its local timeout, an error, a report of the layout's ID
\* and size, or another report.  The report carries its place in the input.
NativeReadReturn ==
    /\ pump = "reading"
    /\ \/ pump' = "check" /\ UNCHANGED <<produced, causes>>
       \/ pump' = "failed" /\ causes' = causes \cup {"device"} /\ UNCHANGED produced
       \/ /\ produced < MaxReports
          /\ produced' = produced + 1
          /\ \/ pump' = "report" /\ UNCHANGED causes
             \/ pump' = "misfit" /\ causes' = causes \cup {"device"}
    /\ UNCHANGED <<retireVars, readVars, writeVars, closeVars, callVars, workers, ctx>>

\* A report that arrives after retirement is dropped and the pump leaves.
PumpDrop ==
    /\ pump \in {"report", "misfit"}
    /\ retiring
    /\ pump' = "exiting"
    /\ UNCHANGED <<retireVars, produced, readVars, writeVars, closeVars, callVars,
                   workers, ctx, causes>>

QueueFull == count = QueueSize

\* A read error, a report outside the layout and a full queue retire the
\* connection.
PumpFail ==
    /\ \/ pump = "failed" /\ RetireLocked("device")
       \/ pump = "misfit" /\ ~retiring /\ RetireLocked("device")
       \/ pump = "report" /\ ~retiring /\ QueueFull /\ RetireLocked("overflow")
    /\ pump' = "exiting"
    /\ UNCHANGED <<produced, readVars, writeVars, closeVars, callVars, workers, ctx,
                   causes>>

\* The send is forgotten.
SignalReadyBroken == UNCHANGED ready

\* The non-blocking send on c.ready.
SignalReady == ready' = TRUE

\* The head is forgotten.
FreeSlotBroken == count % QueueSize

\* The ring's first free slot.
FreeSlot == (head + count) % QueueSize

\* The report goes to the ring's free slot and the token to c.ready.
PumpEnqueue ==
    /\ pump = "report"
    /\ ~retiring
    /\ ~QueueFull
    /\ queue' = [queue EXCEPT ![FreeSlot] = produced]
    /\ count' = count + 1
    /\ SignalReady
    /\ pump' = "check"
    /\ UNCHANGED <<retiring, reason, sup, produced, readBusy, head, timed, wake,
                   delivered, writeVars, closeVars, callVars, workers, ctx, causes>>

\* The deferred workers.Done().
PumpDone ==
    /\ pump = "exiting"
    /\ pump' = "gone"
    /\ workers' = workers \ {Pump}
    /\ UNCHANGED <<retireVars, produced, readVars, writeVars, closeVars, callVars,
                   ctx, causes>>

PumpStep == PumpCheck \/ PumpDrop \/ PumpFail \/ PumpEnqueue \/ PumpDone

------------------------------------------------------------------------------
(* Read. *)

\* The call returns e, through the deferred section that clears its busy flag.
Leave(c, e) ==
    /\ pc' = [pc EXCEPT ![c] = "clear"]
    /\ err' = [err EXCEPT ![c] = e]

\* The call returns e at once: it was not admitted or holds no flag.
Return(c, e) ==
    /\ pc' = [pc EXCEPT ![c] = "returned"]
    /\ err' = [err EXCEPT ![c] = e]

\* An argument error, an expired context, retirement and a Read in progress
\* refuse the call and change nothing.
ReadRefuse(r) ==
    /\ pc[r] = "start"
    /\ \/ Return(r, "invalid")
       \/ ctx[r] /\ Return(r, "ctx")
       \/ ~ctx[r] /\ retiring /\ Return(r, "closed")
       \/ ~ctx[r] /\ ~retiring /\ readBusy /\ Return(r, "busy")
    /\ UNCHANGED <<retireVars, pumpVars, readVars, writeVars, closeVars, workers,
                   ctx, causes>>

\* Admission of a read, under the lock.
ReadAdmissible(r) == ~ctx[r] /\ ~retiring /\ ~readBusy

\* The admitted Read takes readBusy and starts its timer when wait is positive.
ReadAdmit(r) ==
    /\ pc[r] = "start"
    /\ ReadAdmissible(r)
    /\ readBusy' = TRUE
    /\ timed' \in {[timed EXCEPT ![r] = b] : b \in BOOLEAN}
    /\ pc' = [pc EXCEPT ![r] = "loop"]
    /\ UNCHANGED <<retireVars, pumpVars, head, ready, wake, delivered, writeVars,
                   closeVars, err, workers, ctx, causes>>

\* The loop under the lock, first part: an expired context wins over queued
\* input and retires the connection; retirement ends the call.
ReadEnd(r) ==
    /\ pc[r] = "loop"
    /\ \/ ctx[r] /\ RetireLocked("ctx") /\ Leave(r, "ctx")
       \/ ~ctx[r] /\ retiring /\ UNCHANGED retireVars /\ Leave(r, "closed")
    /\ UNCHANGED <<pumpVars, readVars, writeVars, closeVars, workers, ctx, causes>>

\* Second part: the oldest queued report leaves the ring.
ReadTake(r) ==
    /\ pc[r] = "loop"
    /\ ~ctx[r]
    /\ ~retiring
    /\ count > 0
    /\ delivered' = Append(delivered, queue[head])
    /\ queue' = [queue EXCEPT ![head] = 0]
    /\ head' = (head + 1) % QueueSize
    /\ count' = count - 1
    /\ Leave(r, "none")
    /\ UNCHANGED <<retiring, reason, sup, pumpVars, readBusy, ready, timed, wake,
                   writeVars, closeVars, workers, ctx, causes>>

\* A local timeout retires the connection too.
WakeRetiresBroken(r) == TRUE

\* Only a wake-up that is not the local timeout retires the connection.
WakeRetires(r) == wake[r] # "timeout"

\* Third part: nothing is queued; the wake-up error is returned, or the call
\* unlocks and parks in its select.
ReadIdle(r) ==
    /\ pc[r] = "loop"
    /\ ~ctx[r]
    /\ ~retiring
    /\ count = 0
    /\ \/ /\ wake[r] # "none"
          /\ IF WakeRetires(r) THEN RetireLocked("ctx") ELSE UNCHANGED retireVars
          /\ Leave(r, wake[r])
       \/ /\ wake[r] = "none"
          /\ pc' = [pc EXCEPT ![r] = "select"]
          /\ UNCHANGED <<retireVars, err>>
    /\ UNCHANGED <<pumpVars, readVars, writeVars, closeVars, workers, ctx, causes>>

\* The select: the token, retirement, the context or the timer, whichever of
\* those that are ready the scheduler picks.
ReadWake(r) ==
    /\ pc[r] = "select"
    /\ \/ ready /\ ready' = FALSE /\ UNCHANGED wake
       \/ retiring /\ UNCHANGED <<ready, wake>>
       \/ ctx[r] /\ wake' = [wake EXCEPT ![r] = "ctx"] /\ UNCHANGED ready
       \/ timed[r] /\ wake' = [wake EXCEPT ![r] = "timeout"] /\ UNCHANGED ready
    /\ pc' = [pc EXCEPT ![r] = "loop"]
    /\ UNCHANGED <<retireVars, pumpVars, readBusy, head, timed, delivered, writeVars,
                   closeVars, err, workers, ctx, causes>>

\* The deferred section that clears readBusy.
ReadClear(r) ==
    /\ pc[r] = "clear"
    /\ readBusy' = FALSE
    /\ pc' = [pc EXCEPT ![r] = "returned"]
    /\ UNCHANGED <<retireVars, pumpVars, head, ready, timed, wake, delivered,
                   writeVars, closeVars, err, workers, ctx, causes>>

ReadStep(r) ==
    ReadEnd(r) \/ ReadTake(r) \/ ReadIdle(r) \/ ReadWake(r) \/ ReadClear(r)

------------------------------------------------------------------------------
(* Write. *)

\* An invalid report or argument, an expired context, retirement and a Write in
\* progress refuse the call: nothing was submitted.
WriteRefuse(w) ==
    /\ pc[w] = "start"
    /\ \/ Return(w, "invalid")
       \/ ctx[w] /\ Return(w, "ctx")
       \/ ~ctx[w] /\ retiring /\ Return(w, "closed")
       \/ ~ctx[w] /\ ~retiring /\ writeBusy /\ Return(w, "busy")
    /\ outcome' = [outcome EXCEPT ![w] = "NotSubmitted"]
    /\ UNCHANGED <<retireVars, pumpVars, readVars, writeBusy, wpc, pending, raw,
                   closeVars, workers, ctx, causes>>

\* Retirement is not looked at.
WriteAdmissibleBroken(w) == ~ctx[w] /\ ~writeBusy

\* Admission of a write, under the lock.
WriteAdmissible(w) == ~ctx[w] /\ ~retiring /\ ~writeBusy

\* The admitted Write takes writeBusy, joins the wait group, starts performWrite
\* and waits in its select.
WriteAdmit(w) ==
    /\ pc[w] = "start"
    /\ WriteAdmissible(w)
    /\ writeBusy' = TRUE
    /\ workers' = workers \cup {w}
    /\ wpc' = [wpc EXCEPT ![w] = "start"]
    /\ pc' = [pc EXCEPT ![w] = "select"]
    /\ UNCHANGED <<retireVars, pumpVars, readVars, pending, outcome, raw, closeVars,
                   err, ctx, causes>>

\* The select ignores the context.
WriteWokenBroken(w) == pending[w].completed

\* The select ends on the worker's completion or on the call's own context,
\* never on retirement.
WriteWoken(w) == pending[w].completed \/ ctx[w]

WriteWake(w) ==
    /\ pc[w] = "select"
    /\ WriteWoken(w)
    /\ pc' = [pc EXCEPT ![w] = "result"]
    /\ UNCHANGED <<retireVars, pumpVars, readVars, writeVars, closeVars, err, workers,
                   ctx, causes>>

\* The outcome a cancelled Write reports for a worker that has not completed.
CancelledOutcome(w) ==
    IF pending[w].submitted THEN "Unknown" ELSE "NotSubmitted"

\* The result: the worker's when it completed, else what is known of the
\* submission.  An expired context retires the connection in both cases.
WriteReturn(w) ==
    /\ pc[w] = "result"
    /\ \/ /\ pending[w].completed
          /\ outcome' = [outcome EXCEPT ![w] = pending[w].outcome]
          /\ Leave(w, IF ctx[w] THEN "ctx" ELSE IF pending[w].failed THEN "io" ELSE "none")
       \/ /\ ~pending[w].completed
          /\ ctx[w]
          /\ outcome' = [outcome EXCEPT ![w] = CancelledOutcome(w)]
          /\ Leave(w, "ctx")
       \/ /\ ~pending[w].completed
          /\ ~ctx[w]
          /\ outcome' = [outcome EXCEPT ![w] = "Unknown"]
          /\ Leave(w, "closed")
    /\ RetireIfExpired(w)
    /\ UNCHANGED <<pumpVars, readVars, writeBusy, wpc, pending, raw, closeVars,
                   workers, ctx, causes>>

\* The deferred section that clears writeBusy, also while the worker of a
\* cancelled call is still inside device.Write.
WriteClear(w) ==
    /\ pc[w] = "clear"
    /\ writeBusy' = FALSE
    /\ pc' = [pc EXCEPT ![w] = "returned"]
    /\ UNCHANGED <<retireVars, pumpVars, readVars, wpc, pending, outcome, raw,
                   closeVars, err, workers, ctx, causes>>

WriteStep(w) == WriteWake(w) \/ WriteReturn(w) \/ WriteClear(w)

\* The worker submits although its connection has retired meanwhile.
MaySubmitBroken(w) == TRUE

\* performWrite may submit: decided under the mutex that retirement takes.
MaySubmit(w) == ~ctx[w] /\ ~retiring

\* performWrite gives up: an expired context retires the connection, and a
\* retiring connection completes the write as not submitted.
WorkerRefuse(w) ==
    /\ wpc[w] = "start"
    /\ ~MaySubmit(w)
    /\ RetireIfExpired(w)
    /\ pending' = [pending EXCEPT ![w].completed = TRUE,
                                  ![w].outcome = "NotSubmitted",
                                  ![w].failed = TRUE]
    /\ wpc' = [wpc EXCEPT ![w] = "exiting"]
    /\ UNCHANGED <<pumpVars, readVars, writeBusy, outcome, raw, closeVars, callVars,
                   workers, ctx, causes>>

\* performWrite marks the submission and calls device.Write.
WorkerSubmit(w) ==
    /\ wpc[w] = "start"
    /\ MaySubmit(w)
    /\ pending' = [pending EXCEPT ![w].submitted = TRUE]
    /\ wpc' = [wpc EXCEPT ![w] = "native"]
    /\ UNCHANGED <<retireVars, pumpVars, readVars, writeBusy, outcome, raw, closeVars,
                   callVars, workers, ctx, causes>>

\* device.Write returns any outcome, also one outside the enumeration, with or
\* without an error.
NativeWriteReturn(w) ==
    /\ wpc[w] = "native"
    /\ wpc' = [wpc EXCEPT ![w] = "answered"]
    /\ \E o \in Outcomes \cup {"OutOfRange"}, f \in BOOLEAN :
          /\ raw' = [raw EXCEPT ![w] = [outcome |-> o, failed |-> f]]
          /\ causes' = IF f \/ o # "Completed" THEN causes \cup {"device"} ELSE causes
    /\ UNCHANGED <<retireVars, pumpVars, readVars, writeBusy, pending, outcome,
                   closeVars, callVars, workers, ctx>>

\* The outcome of a native answer; a value outside the enumeration is unknown.
Checked(a) == IF a.outcome = "OutOfRange" THEN "Unknown" ELSE a.outcome

\* A native answer is an error when it says so or did not complete.
Failed(a) == a.failed \/ Checked(a) # "Completed"

\* performWrite publishes the result and retires the connection on an error.
WorkerComplete(w) ==
    /\ wpc[w] = "answered"
    /\ pending' = [pending EXCEPT ![w].completed = TRUE,
                                  ![w].outcome = Checked(raw[w]),
                                  ![w].failed = Failed(raw[w])]
    /\ IF Failed(raw[w]) THEN RetireLocked("device") ELSE UNCHANGED retireVars
    /\ wpc' = [wpc EXCEPT ![w] = "exiting"]
    /\ UNCHANGED <<pumpVars, readVars, writeBusy, outcome, raw, closeVars, callVars,
                   workers, ctx, causes>>

\* The deferred workers.Done().
WorkerDone(w) ==
    /\ wpc[w] = "exiting"
    /\ wpc' = [wpc EXCEPT ![w] = "gone"]
    /\ workers' = workers \ {w}
    /\ UNCHANGED <<retireVars, pumpVars, readVars, writeBusy, pending, outcome, raw,
                   closeVars, callVars, ctx, causes>>

WorkerStep(w) ==
    WorkerRefuse(w) \/ WorkerSubmit(w) \/ WorkerComplete(w) \/ WorkerDone(w)

------------------------------------------------------------------------------
(* Close. *)

\* A closed handle counts as a finished cleanup.
CleanupDoneBroken == sup \in {"closed", "released", "done"}

\* c.done is closed.
CleanupDone == sup = "done"

\* The first section: retire, whatever the context; then answer a nil context
\* and a finished cleanup, or wait.
CloseCall(c) ==
    /\ pc[c] = "start"
    /\ RetireLocked("none")
    /\ causes' = causes \cup {"close"}
    /\ \/ Return(c, "invalid")
       \/ CleanupDone /\ Return(c, IF closeErr THEN "io" ELSE "none")
       \/ ~CleanupDone /\ pc' = [pc EXCEPT ![c] = "select"] /\ UNCHANGED err
    /\ UNCHANGED <<pumpVars, readVars, writeVars, closeVars, workers, ctx>>

\* The select on c.done and the context.
CloseWake(c) ==
    /\ pc[c] = "select"
    /\ CleanupDone \/ ctx[c]
    /\ pc' = [pc EXCEPT ![c] = "result"]
    /\ UNCHANGED <<retireVars, pumpVars, readVars, writeVars, closeVars, err, workers,
                   ctx, causes>>

\* The second section: a finished cleanup wins over the context.
CloseReturn(c) ==
    /\ pc[c] = "result"
    /\ \/ sup = "done" /\ Return(c, IF closeErr THEN "io" ELSE "none")
       \/ sup # "done" /\ Return(c, "ctx")
    /\ UNCHANGED <<retireVars, pumpVars, readVars, writeVars, closeVars, workers, ctx,
                   causes>>

CloseStep(c) == CloseWake(c) \/ CloseReturn(c)

------------------------------------------------------------------------------
(* The caller's contexts and the specification. *)

Admitted(c) == pc[c] \in {"loop", "select", "result"}

\* The context of a call is cancelled or its deadline passes.
Expire(c) ==
    /\ ~ctx[c]
    /\ pc[c] # "returned"
    /\ ctx' = [ctx EXCEPT ![c] = TRUE]
    /\ causes' = IF c \notin Closers /\ Admitted(c)
                 THEN causes \cup {"cancel"} ELSE causes
    /\ UNCHANGED <<retireVars, pumpVars, readVars, writeVars, closeVars, callVars,
                   workers>>

\* Every call that began has returned and the supervisor has finished.
Finished ==
    /\ \A c \in Calls : pc[c] \in {"start", "returned"}
    /\ sup = "done"
    /\ UNCHANGED vars

Next ==
    \/ \E r \in Readers : ReadRefuse(r) \/ ReadAdmit(r) \/ ReadStep(r)
    \/ \E w \in Writers : \/ WriteRefuse(w) \/ WriteAdmit(w) \/ WriteStep(w)
                          \/ WorkerStep(w) \/ NativeWriteReturn(w)
    \/ \E c \in Closers : CloseCall(c) \/ CloseStep(c)
    \/ \E c \in Calls : Expire(c)
    \/ PumpStep \/ NativeReadReturn
    \/ Supervisor \/ NativeCloseReturn
    \/ Finished

Spec == Init /\ [][Next]_vars

\* The Go scheduler runs every goroutine that can run, and timers fire.  Nothing
\* is assumed of the native calls, of the callers or of their contexts.
SchedulerFairness ==
    /\ \A r \in Readers : WF_vars(ReadStep(r))
    /\ \A w \in Writers : WF_vars(WriteStep(w)) /\ WF_vars(WorkerStep(w))
    /\ \A c \in Closers : WF_vars(CloseStep(c))
    /\ WF_vars(PumpStep)
    /\ WF_vars(Supervisor)

\* Native calls return: the driver contract of device.Read's timeout, and a
\* device that answers its writes and its close.
NativeFairness ==
    /\ WF_vars(NativeReadReturn)
    /\ \A w \in Writers : WF_vars(NativeWriteReturn(w))
    /\ WF_vars(NativeCloseReturn)

FairSpec == Spec /\ SchedulerFairness

------------------------------------------------------------------------------
(* The connection implements the life cycle of HidLifecycle. *)

Phase == CASE sup = "none"    -> "open"
           [] sup = "waiting" -> "retiring"
           [] OTHER           -> "closed"

Lifecycle == INSTANCE HidLifecycle
                 WITH Users <- Writers \cup {Pump}, phase <- Phase, users <- workers

------------------------------------------------------------------------------
(* Properties. *)

FlagsOK ==
    /\ retiring \in BOOLEAN /\ readBusy \in BOOLEAN /\ writeBusy \in BOOLEAN
    /\ ready \in BOOLEAN /\ closeErr \in BOOLEAN /\ lease \in BOOLEAN

RingOK ==
    /\ queue \in [Slots -> 0..MaxReports]
    /\ head \in Slots
    /\ count \in 0..QueueSize
    /\ produced \in 0..MaxReports
    /\ delivered \in Seq(0..MaxReports)

ControlOK ==
    /\ reason \in {"none", "ctx", "device", "overflow"}
    /\ sup \in {"none", "waiting", "closing", "closed", "released", "done"}
    /\ workers \subseteq (Writers \cup {Pump})
    /\ pump \in {"check", "reading", "failed", "report", "misfit", "exiting", "gone"}
    /\ pc \in [Calls -> {"start", "loop", "select", "result", "clear", "returned"}]
    /\ ctx \in [Calls -> BOOLEAN]
    /\ err \in [Calls -> Errors]
    /\ timed \in [Readers -> BOOLEAN]
    /\ wake \in [Readers -> {"none", "ctx", "timeout"}]
    /\ wpc \in [Writers -> {"none", "start", "native", "answered", "exiting", "gone"}]
    /\ causes \subseteq {"close", "cancel", "device"}

WritesOK ==
    /\ pending \in [Writers -> [submitted : BOOLEAN, completed : BOOLEAN,
                                outcome : Outcomes, failed : BOOLEAN]]
    /\ outcome \in [Writers -> Outcomes]
    /\ raw \in [Writers -> [outcome : Outcomes \cup {"OutOfRange", "none"},
                            failed : BOOLEAN]]

\* Every variable stays in its range; the ring never holds more than QueueSize
\* reports.
TypeOK == FlagsOK /\ RingOK /\ ControlOK /\ WritesOK

InNative(w) == wpc[w] = "native"
DeviceInUse == pump = "reading" \/ \E w \in Writers : InNative(w)

\* While the pump is inside device.Read or any goroutine inside device.Write, the
\* device has not been closed and the endpoint's lease has not been given back,
\* although the callers may have returned long ago (retireLocked).
HandleLifetime == DeviceInUse => lease /\ sup \in {"none", "waiting"}

\* writeBusy is cleared when the caller returns, not when the native write does;
\* still device.Write is never called twice at a time (Write, performWrite).
OneNativeWrite == \A v, w \in Writers : InNative(v) /\ InNative(w) => v = w

\* Once retirement has started workers.Wait, no goroutine joins the wait group:
\* the Add of a Write never races the Wait of the supervisor.
NoLateWorker == [][retiring => workers' \subseteq workers]_vars

\* The WriteResult that a Write has returned is true for ever: "NotSubmitted"
\* means that the device never sees the report or itself said so, "Completed"
\* that the device completed it, and "Unknown" only follows the caller's own
\* context or the device's answer, never another caller's Close.
WriteEvidence ==
    \A w \in Writers : pc[w] = "returned" =>
        /\ outcome[w] = "NotSubmitted" =>
              /\ wpc[w] \notin {"native", "answered"}
              /\ raw[w].outcome \in {"none", "NotSubmitted"}
        /\ outcome[w] = "Completed" => raw[w].outcome = "Completed"
        /\ outcome[w] = "Unknown" =>
              err[w] = "ctx" \/ raw[w].outcome \in {"Unknown", "OutOfRange"}

\* The queued reports, oldest first.
Queued == [i \in 1..count |-> queue[(head + i - 1) % QueueSize]]

\* The Read was admitted and its deferred section has not run.
Reading(r) == pc[r] \in {"loop", "select", "clear"}

\* As long as the connection is open every report of the device has been handed
\* to exactly one Read, or is queued, or is in the pump's hand, in the order of
\* arrival (the ring of pump and Read).  One Read takes reports at a time, and
\* readBusy stays set until that very Read clears it, whatever Reads are refused
\* meanwhile.
FifoDelivery ==
    /\ ~retiring =>
          LET inHand == IF pump \in {"report", "misfit"} THEN 1 ELSE 0
          IN  delivered \o Queued = [i \in 1..(produced - inHand) |-> i]
    /\ \A q, r \in Readers : Reading(q) /\ Reading(r) => q = r
    /\ \A r \in Readers : Reading(r) => readBusy

\* A Read parked in its select while a report is queued has a token to wake it
\* (the non-blocking send on c.ready against the check of c.count).
NoLostWakeup == \A r \in Readers : pc[r] = "select" /\ count > 0 => ready

\* A connection retires only for a cause, and gives later callers the right one:
\* a Close, the context of an admitted call, the device, or QueueSize reports
\* that nobody read.  A local wait that runs out, a refused call and a call whose
\* context expired before admission leave it open.
RetiredForCause ==
    retiring => CASE reason = "none"     -> "close" \in causes
                  [] reason = "ctx"      -> "cancel" \in causes
                  [] reason = "device"   -> "device" \in causes
                  [] reason = "overflow" -> produced > Len(delivered) + QueueSize

\* A Close that returns the result of the cleanup returns after the device was
\* closed and the lease given back, with no goroutine of the connection left, and
\* every such Close, however late, reports the failure of device.Close if and only
\* if it failed.
CloseMeansClean ==
    \A c \in Closers : pc[c] = "returned" /\ err[c] \in {"none", "io"} =>
        /\ ~lease /\ workers = {} /\ sup = "done"
        /\ err[c] = "io" <=> closeErr

\* The connection keeps the order of retirement, drained wait group, closed handle
\* and released lease that HidLifecycle promises to the holder of the endpoint.
ImplementsLifecycle == Lifecycle!Spec

\* When native calls return, it also makes the progress that HidLifecycle promises.
ImplementsFairLifecycle == NativeFairness => Lifecycle!Fairness

\* A caller whose context has expired returns, even if no native call ever does.
CancelledCallReturns ==
    \A c \in Calls : (pc[c] # "start" /\ ctx[c]) ~> pc[c] = "returned"

\* A parked Read with a queued report returns.  When native calls return, an
\* accepted Write returns although its context never expires and whatever happens
\* to the connection meanwhile.
ParkedCallReturns ==
    /\ \A r \in Readers : (pc[r] = "select" /\ count > 0) ~> pc[r] = "returned"
    /\ NativeFairness => \A w \in Writers : pc[w] = "select" ~> pc[w] = "returned"

==============================================================================
