------------------------- MODULE HidConnectionProofs -------------------------
(*****************************************************************************)
(* What TLC checks of HidConnection on small instances, proved for any       *)
(* sets of calls, any queue size and any number of reports.                  *)
(*                                                                           *)
(* First the data: every variable stays in its range, no report is lost      *)
(* while the connection is open, and the ring delivers them in order.        *)
(* TypeOK has four parts because the flags, the ring arithmetic, the control *)
(* state and the records of the writes ask for different reasoning; each has *)
(* a step lemma with one case per goroutine or call.  Frame lemmas say once  *)
(* what the steps of a Read, a Write, a Close, the pump and the supervisor   *)
(* leave alone.  CountInv accounts for every report.  FifoInv says that the  *)
(* delivered reports and, from the head of the ring on, the queued ones are  *)
(* numbered consecutively.  Only the actions that move a report need the     *)
(* arithmetic of the ring index.                                             *)
(*                                                                           *)
(* Then the control.  The safety invariants follow from seven inductive ones:*)
(* LifeInv (retirement, wait group, handle and lease), WriteInv (who may be  *)
(* inside device.Write), EvidenceInv (what a Write may report), ReadInv (the *)
(* token of a parked Read), CauseInv and CountInv (why a connection          *)
(* retires) and CloseInv (the result of device.Close).  With the frame       *)
(* lemmas, a step lemma looks only at the actions that may disturb its       *)
(* invariant.                                                                *)
(*****************************************************************************)
EXTENDS HidConnection, SequenceTheorems, TLAPS

\* Zenon proves the leaves, except for those that cite SMT.
USE Zenon

USE ConnectionAssumption
    DEF Calls, retireVars, pumpVars, readVars, writeVars, closeVars, callVars

------------------------------------------------------------------------------
(* Types. *)

\* A remainder by QueueSize is a slot of the ring.
LEMMA ModBound ==
    ASSUME NEW a \in Nat, NEW n \in Nat \ {0}
    PROVE  a % n \in 0..(n - 1)
BY SMT

\* newConnection makes a connection of the right type.
LEMMA InitTypes == Init => TypeOK
<1> SUFFICES ASSUME Init PROVE TypeOK
  OBVIOUS
<1>1. FlagsOK
  BY DEF Init, FlagsOK
<1>2. RingOK
  BY SMT DEF Init, RingOK, Slots
<1>3. ControlOK
  BY DEF Init, ControlOK, Errors
<1>4. WritesOK
  BY DEF Init, WritesOK, Outcomes, Fresh, NoAnswer
<1> QED
  BY <1>1, <1>2, <1>3, <1>4 DEF TypeOK

\* What the type of the published outcome rests on.
AnsweredInv == \A w \in Writers : wpc[w] = "answered" => raw[w].outcome # "none"

\* A step keeps the flags Boolean.
LEMMA FlagsStep ==
    FlagsOK /\ [Next]_vars => FlagsOK'
<1> SUFFICES ASSUME FlagsOK PROVE [Next]_vars => FlagsOK'
  OBVIOUS
<1> USE DEF FlagsOK
<1>1. ASSUME NEW r \in Readers, ReadRefuse(r) \/ ReadAdmit(r) PROVE FlagsOK'
  BY <1>1 DEF ReadRefuse, ReadAdmit, ReadAdmissible, Return
<1>2. ASSUME NEW r \in Readers, ReadStep(r) PROVE FlagsOK'
  BY <1>2 DEF ReadStep, ReadEnd, ReadTake, ReadIdle, ReadWake, ReadClear,
     WakeRetires, RetireLocked, Leave
<1>3. ASSUME NEW w \in Writers, WriteRefuse(w) \/ WriteAdmit(w) PROVE FlagsOK'
  BY <1>3 DEF WriteRefuse, WriteAdmit, WriteAdmissible, Return
<1>4. ASSUME NEW w \in Writers, WriteStep(w) PROVE FlagsOK'
  <2>1. CASE WriteWake(w)
    BY <2>1 DEF WriteWake, WriteWoken
  <2>2. CASE WriteReturn(w)
    BY <2>2 DEF WriteReturn, CancelledOutcome, RetireIfExpired, RetireLocked, Leave
  <2>3. CASE WriteClear(w)
    BY <2>3 DEF WriteClear
  <2> QED
    BY <1>4, <2>1, <2>2, <2>3 DEF WriteStep
<1>5. ASSUME NEW w \in Writers, WorkerStep(w) PROVE FlagsOK'
  BY <1>5 DEF WorkerStep, WorkerRefuse, WorkerSubmit, WorkerComplete, WorkerDone,
     MaySubmit, Failed, Checked, RetireIfExpired, RetireLocked
<1>6. ASSUME NEW w \in Writers, NativeWriteReturn(w) PROVE FlagsOK'
  BY <1>6 DEF NativeWriteReturn
<1>7. ASSUME NEW c \in Closers, CloseCall(c) PROVE FlagsOK'
  BY <1>7 DEF CloseCall, CleanupDone, RetireLocked, Return
<1>8. ASSUME NEW c \in Closers, CloseStep(c) PROVE FlagsOK'
  BY <1>8 DEF CloseStep, CloseWake, CloseReturn, CleanupDone, Return
<1>9. ASSUME NEW c \in Calls, Expire(c) PROVE FlagsOK'
  BY <1>9 DEF Expire, Admitted
<1>10. CASE PumpStep
  BY <1>10 DEF PumpStep, PumpCheck, StopRequested, PumpDrop, PumpFail, PumpEnqueue,
     PumpDone, RetireLocked, QueueFull, SignalReady, FreeSlot
<1>11. CASE NativeReadReturn
  BY <1>11 DEF NativeReadReturn
<1>12. CASE Supervisor \/ NativeCloseReturn
  BY <1>12 DEF Supervisor, SupervisorClose, WorkersDone, SupervisorRelease,
     SupervisorDone, NativeCloseReturn
<1>13. CASE UNCHANGED vars
  BY <1>13 DEF vars
<1> QED
  BY <1>1, <1>2, <1>3, <1>4, <1>5, <1>6, <1>7, <1>8, <1>9, <1>10, <1>11, <1>12,
     <1>13
     DEF Next, Finished

\* A step keeps the ring and its counters in range.
LEMMA RingStep ==
    RingOK /\ [Next]_vars => RingOK'
<1> SUFFICES ASSUME RingOK PROVE [Next]_vars => RingOK'
  OBVIOUS
<1> USE DEF RingOK, Slots
<1>1. ASSUME NEW r \in Readers, ReadRefuse(r) \/ ReadAdmit(r) PROVE RingOK'
  BY <1>1 DEF ReadRefuse, ReadAdmit, ReadAdmissible, Return
<1>2. ASSUME NEW r \in Readers, ReadStep(r) PROVE RingOK'
  <2>1. CASE ReadEnd(r)
    BY <2>1, SMT DEF ReadEnd, RetireLocked, Leave
  <2>2. CASE ReadTake(r)
    <3>1. (head + 1) % QueueSize \in Slots
      BY ModBound, SMT
    <3> QED
      BY <2>2, <3>1, SMT DEF ReadTake
  <2>3. CASE ReadIdle(r)
    BY <2>3, SMT DEF ReadIdle, WakeRetires, RetireLocked, Leave
  <2>4. CASE ReadWake(r)
    BY <2>4 DEF ReadWake
  <2>5. CASE ReadClear(r)
    BY <2>5 DEF ReadClear
  <2> QED
    BY <1>2, <2>1, <2>2, <2>3, <2>4, <2>5 DEF ReadStep
<1>3. ASSUME NEW w \in Writers, WriteRefuse(w) \/ WriteAdmit(w) PROVE RingOK'
  BY <1>3 DEF WriteRefuse, WriteAdmit, WriteAdmissible, Return
<1>4. ASSUME NEW w \in Writers, WriteStep(w) PROVE RingOK'
  <2>1. CASE WriteWake(w)
    BY <2>1 DEF WriteWake, WriteWoken
  <2>2. CASE WriteReturn(w)
    BY <2>2, SMTT(30) DEF WriteReturn, CancelledOutcome, RetireIfExpired, RetireLocked, Leave
  <2>3. CASE WriteClear(w)
    BY <2>3 DEF WriteClear
  <2> QED
    BY <1>4, <2>1, <2>2, <2>3, SMTT(20) DEF WriteStep
<1>5. ASSUME NEW w \in Writers, WorkerStep(w) PROVE RingOK'
  <2>1. CASE WorkerRefuse(w)
    BY <2>1, SMT DEF WorkerRefuse, MaySubmit, RetireIfExpired, RetireLocked
  <2>2. CASE WorkerSubmit(w)
    BY <2>2 DEF WorkerSubmit, MaySubmit
  <2>3. CASE WorkerComplete(w)
    BY <2>3, SMT DEF WorkerComplete, Failed, Checked, RetireLocked
  <2>4. CASE WorkerDone(w)
    BY <2>4 DEF WorkerDone
  <2> QED
    BY <1>5, <2>1, <2>2, <2>3, <2>4, SMTT(20) DEF WorkerStep
<1>6. ASSUME NEW w \in Writers, NativeWriteReturn(w) PROVE RingOK'
  BY <1>6 DEF NativeWriteReturn
<1>7. ASSUME NEW c \in Closers, CloseCall(c) PROVE RingOK'
  BY <1>7, SMT DEF CloseCall, CleanupDone, RetireLocked, Return
<1>8. ASSUME NEW c \in Closers, CloseStep(c) PROVE RingOK'
  BY <1>8 DEF CloseStep, CloseWake, CloseReturn, CleanupDone, Return
<1>9. ASSUME NEW c \in Calls, Expire(c) PROVE RingOK'
  BY <1>9 DEF Expire, Admitted
<1>10. CASE PumpStep
  <2>1. CASE PumpCheck
    BY <2>1 DEF PumpCheck, StopRequested
  <2>2. CASE PumpDrop
    BY <2>2 DEF PumpDrop
  <2>3. CASE PumpFail
    BY <2>3, SMT DEF PumpFail, QueueFull, RetireLocked
  <2>4. CASE PumpEnqueue
    <3>1. FreeSlot \in Slots
      BY ModBound, SMT DEF FreeSlot
    <3>2. count + 1 \in 0..QueueSize
      BY <2>4, SMT DEF PumpEnqueue, QueueFull
    <3> QED
      BY <2>4, <3>1, <3>2 DEF PumpEnqueue
  <2>5. CASE PumpDone
    BY <2>5 DEF PumpDone
  <2> QED
    BY <1>10, <2>1, <2>2, <2>3, <2>4, <2>5, SMTT(20) DEF PumpStep
<1>11. CASE NativeReadReturn
  BY <1>11, SMT DEF NativeReadReturn
<1>12. CASE Supervisor \/ NativeCloseReturn
  BY <1>12 DEF Supervisor, SupervisorClose, WorkersDone, SupervisorRelease,
     SupervisorDone, NativeCloseReturn
<1>13. CASE UNCHANGED vars
  BY <1>13 DEF vars
<1> QED
  BY <1>1, <1>2, <1>3, <1>4, <1>5, <1>6, <1>7, <1>8, <1>9, <1>10, <1>11, <1>12,
     <1>13
     DEF Next, Finished

\* A step keeps the program counters, contexts and errors in range.
LEMMA ControlStep ==
    ControlOK /\ [Next]_vars => ControlOK'
<1> SUFFICES ASSUME ControlOK PROVE [Next]_vars => ControlOK'
  OBVIOUS
<1> USE DEF ControlOK, Errors
<1>1. ASSUME NEW r \in Readers, ReadRefuse(r) \/ ReadAdmit(r) PROVE ControlOK'
  <2>1. CASE ReadRefuse(r)
    BY <2>1, SMT DEF ReadRefuse, Return
  <2>2. CASE ReadAdmit(r)
    BY <2>2, SMT DEF ReadAdmit, ReadAdmissible
  <2> QED
    BY <1>1, <2>1, <2>2
<1>2. ASSUME NEW r \in Readers, ReadStep(r) PROVE ControlOK'
  <2>1. CASE ReadEnd(r)
    BY <2>1, SMT DEF ReadEnd, RetireLocked, Leave
  <2>2. CASE ReadTake(r)
    BY <2>2 DEF ReadTake, Leave
  <2>3. CASE ReadIdle(r)
    BY <2>3, SMT DEF ReadIdle, WakeRetires, RetireLocked, Leave
  <2>4. CASE ReadWake(r)
    BY <2>4 DEF ReadWake
  <2>5. CASE ReadClear(r)
    BY <2>5 DEF ReadClear
  <2> QED
    BY <1>2, <2>1, <2>2, <2>3, <2>4, <2>5 DEF ReadStep
<1>3. ASSUME NEW w \in Writers, WriteRefuse(w) \/ WriteAdmit(w) PROVE ControlOK'
  <2>1. CASE WriteRefuse(w)
    BY <2>1, SMT DEF WriteRefuse, Return
  <2>2. CASE WriteAdmit(w)
    BY <2>2 DEF WriteAdmit, WriteAdmissible
  <2> QED
    BY <1>3, <2>1, <2>2
<1>4. ASSUME NEW w \in Writers, WriteStep(w) PROVE ControlOK'
  <2>1. CASE WriteWake(w)
    BY <2>1 DEF WriteWake, WriteWoken
  <2>2. CASE WriteReturn(w)
    BY <2>2, SMT DEF WriteReturn, CancelledOutcome, RetireIfExpired, RetireLocked, Leave
  <2>3. CASE WriteClear(w)
    BY <2>3 DEF WriteClear
  <2> QED
    BY <1>4, <2>1, <2>2, <2>3 DEF WriteStep
<1>5. ASSUME NEW w \in Writers, WorkerStep(w) PROVE ControlOK'
  BY <1>5, SMT DEF WorkerStep, WorkerRefuse, WorkerSubmit, WorkerComplete, WorkerDone,
     MaySubmit, Failed, Checked, RetireIfExpired, RetireLocked
<1>6. ASSUME NEW w \in Writers, NativeWriteReturn(w) PROVE ControlOK'
  BY <1>6 DEF NativeWriteReturn
<1>7. ASSUME NEW c \in Closers, CloseCall(c) PROVE ControlOK'
  BY <1>7, SMT DEF CloseCall, CleanupDone, RetireLocked, Return
<1>8. ASSUME NEW c \in Closers, CloseStep(c) PROVE ControlOK'
  <2>1. CASE CloseWake(c)
    BY <2>1 DEF CloseWake
  <2>2. CASE CloseReturn(c)
    BY <2>2, SMT DEF CloseReturn, Return
  <2> QED
    BY <1>8, <2>1, <2>2 DEF CloseStep
<1>9. ASSUME NEW c \in Calls, Expire(c) PROVE ControlOK'
  BY <1>9 DEF Expire, Admitted
<1>10. CASE PumpStep
  BY <1>10 DEF PumpStep, PumpCheck, StopRequested, PumpDrop, PumpFail, PumpEnqueue,
     PumpDone, RetireLocked, QueueFull, SignalReady, FreeSlot
<1>11. CASE NativeReadReturn
  BY <1>11 DEF NativeReadReturn
<1>12. CASE Supervisor \/ NativeCloseReturn
  BY <1>12 DEF Supervisor, SupervisorClose, WorkersDone, SupervisorRelease,
     SupervisorDone, NativeCloseReturn
<1>13. CASE UNCHANGED vars
  BY <1>13 DEF vars
<1> QED
  BY <1>1, <1>2, <1>3, <1>4, <1>5, <1>6, <1>7, <1>8, <1>9, <1>10, <1>11, <1>12,
     <1>13
     DEF Next, Finished

\* A goroutine reaches the evaluation of its native answer only with an answer.
LEMMA AnsweredStep ==
    ControlOK /\ WritesOK /\ AnsweredInv /\ [Next]_vars => AnsweredInv'
<1> SUFFICES ASSUME ControlOK, WritesOK, AnsweredInv PROVE [Next]_vars => AnsweredInv'
  OBVIOUS
<1> USE DEF ControlOK, WritesOK, Outcomes, AnsweredInv
<1>1. ASSUME NEW r \in Readers, ReadRefuse(r) \/ ReadAdmit(r) PROVE AnsweredInv'
  BY <1>1 DEF ReadRefuse, ReadAdmit, ReadAdmissible, Return
<1>2. ASSUME NEW r \in Readers, ReadStep(r) PROVE AnsweredInv'
  BY <1>2 DEF ReadStep, ReadEnd, ReadTake, ReadIdle, ReadWake, ReadClear,
     WakeRetires, RetireLocked, Leave
<1>3. ASSUME NEW w \in Writers, WriteRefuse(w) \/ WriteAdmit(w) PROVE AnsweredInv'
  BY <1>3, SMT DEF WriteRefuse, WriteAdmit, WriteAdmissible, Return
<1>4. ASSUME NEW w \in Writers, WriteStep(w) PROVE AnsweredInv'
  BY <1>4 DEF WriteStep, WriteWake, WriteWoken, WriteReturn, WriteClear,
     CancelledOutcome, RetireIfExpired, RetireLocked, Leave
<1>5. ASSUME NEW w \in Writers, WorkerStep(w) PROVE AnsweredInv'
  <2>1. CASE WorkerRefuse(w)
    BY <2>1 DEF WorkerRefuse, MaySubmit, RetireIfExpired, RetireLocked
  <2>2. CASE WorkerSubmit(w)
    BY <2>2 DEF WorkerSubmit, MaySubmit
  <2>3. CASE WorkerComplete(w)
    BY <2>3, SMT DEF WorkerComplete, Failed, Checked, RetireLocked
  <2>4. CASE WorkerDone(w)
    BY <2>4 DEF WorkerDone
  <2> QED
    BY <1>5, <2>1, <2>2, <2>3, <2>4 DEF WorkerStep
<1>6. ASSUME NEW w \in Writers, NativeWriteReturn(w) PROVE AnsweredInv'
  BY <1>6, SMT DEF NativeWriteReturn
<1>7. ASSUME NEW c \in Closers, CloseCall(c) PROVE AnsweredInv'
  BY <1>7 DEF CloseCall, CleanupDone, RetireLocked, Return
<1>8. ASSUME NEW c \in Closers, CloseStep(c) PROVE AnsweredInv'
  BY <1>8 DEF CloseStep, CloseWake, CloseReturn, CleanupDone, Return
<1>9. ASSUME NEW c \in Calls, Expire(c) PROVE AnsweredInv'
  BY <1>9 DEF Expire, Admitted
<1>10. CASE PumpStep
  BY <1>10 DEF PumpStep, PumpCheck, StopRequested, PumpDrop, PumpFail, PumpEnqueue,
     PumpDone, RetireLocked, QueueFull, SignalReady, FreeSlot
<1>11. CASE NativeReadReturn
  BY <1>11 DEF NativeReadReturn
<1>12. CASE Supervisor \/ NativeCloseReturn
  BY <1>12 DEF Supervisor, SupervisorClose, WorkersDone, SupervisorRelease,
     SupervisorDone, NativeCloseReturn
<1>13. CASE UNCHANGED vars
  BY <1>13 DEF vars
<1> QED
  BY <1>1, <1>2, <1>3, <1>4, <1>5, <1>6, <1>7, <1>8, <1>9, <1>10, <1>11, <1>12,
     <1>13
     DEF Next, Finished

\* A step keeps the records of the writes in range; the published outcome is one of
\* the enumeration whatever the device answered.
LEMMA WritesStep ==
    WritesOK /\ AnsweredInv /\ [Next]_vars => WritesOK'
<1> SUFFICES ASSUME WritesOK, AnsweredInv PROVE [Next]_vars => WritesOK'
  OBVIOUS
<1> USE DEF WritesOK, Outcomes
<1>1. ASSUME NEW r \in Readers, ReadRefuse(r) \/ ReadAdmit(r) PROVE WritesOK'
  BY <1>1 DEF ReadRefuse, ReadAdmit, ReadAdmissible, Return
<1>2. ASSUME NEW r \in Readers, ReadStep(r) PROVE WritesOK'
  BY <1>2 DEF ReadStep, ReadEnd, ReadTake, ReadIdle, ReadWake, ReadClear,
     WakeRetires, RetireLocked, Leave
<1>3. ASSUME NEW w \in Writers, WriteRefuse(w) \/ WriteAdmit(w) PROVE WritesOK'
  BY <1>3 DEF WriteRefuse, WriteAdmit, WriteAdmissible, Return
<1>4. ASSUME NEW w \in Writers, WriteStep(w) PROVE WritesOK'
  BY <1>4 DEF WriteStep, WriteWake, WriteWoken, WriteReturn, WriteClear,
     CancelledOutcome, RetireIfExpired, RetireLocked, Leave
<1>5. ASSUME NEW w \in Writers, WorkerStep(w) PROVE WritesOK'
  <2> DEFINE Record == [submitted : BOOLEAN, completed : BOOLEAN, outcome : Outcomes,
                        failed : BOOLEAN]
  <2>0. ASSUME NEW o \in Outcomes, NEW f \in BOOLEAN, UNCHANGED <<outcome, raw>>,
               pending' = [pending EXCEPT ![w] = [@ EXCEPT !.completed = TRUE,
                                                           !.outcome = o, !.failed = f]]
        PROVE  WritesOK'
    <3>1. pending[w] \in Record
      OBVIOUS
    <3>2. [pending[w] EXCEPT !.completed = TRUE, !.outcome = o, !.failed = f] \in Record
      BY <3>1
    <3>3. pending' \in [Writers -> Record]
      BY <2>0, <3>2
    <3> QED
      BY <2>0, <3>3
  <2>1. CASE WorkerRefuse(w)
    <3>1. "NotSubmitted" \in Outcomes /\ TRUE \in BOOLEAN
      OBVIOUS
    <3>2. /\ UNCHANGED <<outcome, raw>>
          /\ pending' = [pending EXCEPT ![w] = [@ EXCEPT !.completed = TRUE,
                                                         !.outcome = "NotSubmitted",
                                                         !.failed = TRUE]]
      BY <2>1 DEF WorkerRefuse
    <3> QED
      BY <2>0, <3>1, <3>2
  <2>2. CASE WorkerSubmit(w)
    <3>1. /\ UNCHANGED <<outcome, raw>>
          /\ pending' = [pending EXCEPT ![w] = [@ EXCEPT !.submitted = TRUE]]
      BY <2>2 DEF WorkerSubmit
    <3>2. pending[w] \in Record
      OBVIOUS
    <3>3. [pending[w] EXCEPT !.submitted = TRUE] \in Record
      BY <3>2
    <3>4. pending' \in [Writers -> Record]
      BY <3>1, <3>3
    <3> QED
      BY <3>1, <3>4
  <2>3. CASE WorkerComplete(w)
    <3>1. Checked(raw[w]) \in Outcomes
      BY <2>3 DEF WorkerComplete, AnsweredInv, Checked
    <3>2. Failed(raw[w]) \in BOOLEAN
      BY DEF Failed, Checked
    <3>3. /\ UNCHANGED <<outcome, raw>>
          /\ pending' = [pending EXCEPT ![w] = [@ EXCEPT !.completed = TRUE,
                                                         !.outcome = Checked(raw[w]),
                                                         !.failed = Failed(raw[w])]]
      BY <2>3 DEF WorkerComplete
    <3> QED
      BY <2>0, <3>1, <3>2, <3>3
  <2>4. CASE WorkerDone(w)
    BY <2>4 DEF WorkerDone
  <2> QED
    BY <1>5, <2>1, <2>2, <2>3, <2>4 DEF WorkerStep
<1>6. ASSUME NEW w \in Writers, NativeWriteReturn(w) PROVE WritesOK'
  BY <1>6, SMT DEF NativeWriteReturn
<1>7. ASSUME NEW c \in Closers, CloseCall(c) PROVE WritesOK'
  BY <1>7 DEF CloseCall, CleanupDone, RetireLocked, Return
<1>8. ASSUME NEW c \in Closers, CloseStep(c) PROVE WritesOK'
  BY <1>8 DEF CloseStep, CloseWake, CloseReturn, CleanupDone, Return
<1>9. ASSUME NEW c \in Calls, Expire(c) PROVE WritesOK'
  BY <1>9 DEF Expire, Admitted
<1>10. CASE PumpStep
  BY <1>10 DEF PumpStep, PumpCheck, StopRequested, PumpDrop, PumpFail, PumpEnqueue,
     PumpDone, RetireLocked, QueueFull, SignalReady, FreeSlot
<1>11. CASE NativeReadReturn
  BY <1>11 DEF NativeReadReturn
<1>12. CASE Supervisor \/ NativeCloseReturn
  BY <1>12 DEF Supervisor, SupervisorClose, WorkersDone, SupervisorRelease,
     SupervisorDone, NativeCloseReturn
<1>13. CASE UNCHANGED vars
  BY <1>13 DEF vars
<1> QED
  BY <1>1, <1>2, <1>3, <1>4, <1>5, <1>6, <1>7, <1>8, <1>9, <1>10, <1>11, <1>12,
     <1>13
     DEF Next, Finished

\* Every variable of the connection stays in its range: in particular pump never
\* writes past the ring and Read never takes from an empty one.
THEOREM TypeCorrect == Spec => []TypeOK
<1>1. Init => AnsweredInv
  BY DEF Init, AnsweredInv
<1>2. TypeOK /\ AnsweredInv /\ [Next]_vars => TypeOK' /\ AnsweredInv'
  BY FlagsStep, RingStep, ControlStep, AnsweredStep, WritesStep DEF TypeOK
<1> QED
  BY InitTypes, <1>1, <1>2, PTL DEF Spec

------------------------------------------------------------------------------
(* What the actions leave alone. *)

ReadAction(r) == ReadRefuse(r) \/ ReadAdmit(r) \/ ReadStep(r)

WriteAction(w) ==
    WriteRefuse(w) \/ WriteAdmit(w) \/ WriteStep(w) \/ WorkerStep(w) \/ NativeWriteReturn(w)

CloseAction(c) == CloseCall(c) \/ CloseStep(c)

\* The other calls are where they were.
Others(c) == \A d \in Calls : d # c => pc'[d] = pc[d] /\ err'[d] = err[d]

\* The goroutines and results of the other Writes are as they were.
OtherWrites(w) ==
    \A v \in Writers : v # w =>
        /\ wpc'[v] = wpc[v] /\ pending'[v] = pending[v]
        /\ outcome'[v] = outcome[v] /\ raw'[v] = raw[v]

\* The connection begins to retire, and not for an overflow.
Retires ==
    /\ ~retiring /\ retiring'
    /\ sup' = "waiting" /\ count' = 0
    /\ reason' \in {"none", "ctx", "device"}

\* retireLocked changes nothing or starts the retirement.
LEMMA RetireCases ==
    ASSUME NEW why \in {"none", "ctx", "device"}, RetireLocked(why)
    PROVE  UNCHANGED retireVars \/ Retires
BY DEF RetireLocked, Retires

\* A step of a Read leaves the other calls, the pump, the writes and the wait group
\* alone.
LEMMA ReadFrame ==
    ASSUME ControlOK, NEW r \in Readers, ReadAction(r)
    PROVE  /\ UNCHANGED <<pumpVars, writeVars, closeVars, workers, ctx, causes>>
           /\ Others(r)
           /\ UNCHANGED <<retiring, reason, sup>> \/ Retires
<1>1. UNCHANGED <<pumpVars, writeVars, closeVars, workers, ctx, causes>>
  BY DEF ReadAction, ReadRefuse, ReadAdmit, ReadStep, ReadEnd, ReadTake, ReadIdle,
     ReadWake, ReadClear
<1>2. \E p, e : pc' = [pc EXCEPT ![r] = p] /\ (err' = [err EXCEPT ![r] = e] \/ err' = err)
  BY DEF ReadAction, ReadRefuse, ReadAdmit, ReadStep, ReadEnd, ReadTake, ReadIdle,
     ReadWake, ReadClear, Return, Leave
<1>3. Others(r)
  BY <1>2 DEF Others, ControlOK
<1>4. UNCHANGED <<retiring, reason, sup>> \/ Retires
  BY RetireCases DEF ReadAction, ReadRefuse, ReadAdmit, ReadStep, ReadEnd, ReadTake,
     ReadIdle, ReadWake, ReadClear
<1> QED
  BY <1>1, <1>3, <1>4

\* A step of a Write or of its goroutine leaves the other calls and writes, the pump,
\* the ring's readers and the lease alone.
LEMMA WriteFrame ==
    ASSUME ControlOK, WritesOK, NEW w \in Writers, WriteAction(w)
    PROVE  /\ UNCHANGED <<pumpVars, readVars, closeVars, ctx>>
           /\ Others(w)
           /\ OtherWrites(w)
           /\ UNCHANGED retireVars \/ Retires
<1>1. UNCHANGED <<pumpVars, readVars, closeVars, ctx>>
  BY DEF WriteAction, WriteRefuse, WriteAdmit, WriteStep, WriteWake, WriteReturn,
     WriteClear, WorkerStep, WorkerRefuse, WorkerSubmit, WorkerComplete, WorkerDone,
     NativeWriteReturn
<1>2. /\ pc' = pc \/ \E p : pc' = [pc EXCEPT ![w] = p]
      /\ err' = err \/ \E e : err' = [err EXCEPT ![w] = e]
  BY DEF WriteAction, WriteRefuse, WriteAdmit, WriteStep, WriteWake, WriteReturn,
     WriteClear, WorkerStep, WorkerRefuse, WorkerSubmit, WorkerComplete, WorkerDone,
     NativeWriteReturn, Return, Leave
<1>3. Others(w)
  BY <1>2 DEF Others, ControlOK
<1>4. /\ wpc' = wpc \/ \E p : wpc' = [wpc EXCEPT ![w] = p]
      /\ outcome' = outcome \/ \E o : outcome' = [outcome EXCEPT ![w] = o]
  BY DEF WriteAction, WriteRefuse, WriteAdmit, WriteStep, WriteWake, WriteReturn,
     WriteClear, WorkerStep, WorkerRefuse, WorkerSubmit, WorkerComplete, WorkerDone,
     NativeWriteReturn
<1>5. /\ pending' = pending \/ \E p : pending' = [pending EXCEPT ![w] = p]
      /\ raw' = raw \/ \E a : raw' = [raw EXCEPT ![w] = a]
  BY DEF WriteAction, WriteRefuse, WriteAdmit, WriteStep, WriteWake, WriteReturn,
     WriteClear, WorkerStep, WorkerRefuse, WorkerSubmit, WorkerComplete, WorkerDone,
     NativeWriteReturn
<1>6. OtherWrites(w)
  BY <1>4, <1>5 DEF OtherWrites, ControlOK, WritesOK
<1>7. UNCHANGED retireVars \/ Retires
  BY RetireCases
     DEF WriteAction, WriteRefuse, WriteAdmit, WriteStep, WriteWake, WriteReturn, WriteClear,
         WorkerStep, WorkerRefuse, WorkerSubmit, WorkerComplete, WorkerDone,
         NativeWriteReturn, RetireIfExpired
<1> QED
  BY <1>1, <1>3, <1>6, <1>7

\* A step of a Close leaves all but its own call and the retirement alone.
LEMMA CloseFrame ==
    ASSUME ControlOK, NEW c \in Closers, CloseAction(c)
    PROVE  /\ UNCHANGED <<pumpVars, readVars, writeVars, closeVars, workers, ctx>>
           /\ causes \subseteq causes'
           /\ Others(c)
           /\ UNCHANGED retireVars \/ Retires
<1>1. UNCHANGED <<pumpVars, readVars, writeVars, closeVars, workers, ctx>>
  BY DEF CloseAction, CloseCall, CloseStep, CloseWake, CloseReturn
<1>2. causes \subseteq causes'
  BY DEF CloseAction, CloseCall, CloseStep, CloseWake, CloseReturn
<1>3. \E p, e : pc' = [pc EXCEPT ![c] = p] /\ (err' = [err EXCEPT ![c] = e] \/ err' = err)
  BY DEF CloseAction, CloseCall, CloseStep, CloseWake, CloseReturn, Return
<1>4. Others(c)
  BY <1>3 DEF Others, ControlOK
<1>5. UNCHANGED retireVars \/ Retires
  BY RetireCases DEF CloseAction, CloseCall, CloseStep, CloseWake, CloseReturn
<1> QED
  BY <1>1, <1>2, <1>4, <1>5

\* A step of the pump, of the supervisor or of their native calls leaves the calls, the
\* writes and the contexts alone.
LEMMA OwnFrame ==
    ASSUME PumpStep \/ NativeReadReturn \/ Supervisor \/ NativeCloseReturn
    PROVE  /\ UNCHANGED <<readBusy, head, timed, wake, delivered, writeVars, callVars, ctx>>
           /\ causes \subseteq causes'
           /\ retiring => retiring'
<1>1. UNCHANGED <<readBusy, head, timed, wake, delivered, writeVars, callVars, ctx>>
  BY DEF PumpStep, PumpCheck, PumpDrop, PumpFail, PumpEnqueue, PumpDone,
     NativeReadReturn, Supervisor, SupervisorClose, SupervisorRelease, SupervisorDone,
     NativeCloseReturn
<1>2. causes \subseteq causes'
  BY DEF PumpStep, PumpCheck, PumpDrop, PumpFail, PumpEnqueue, PumpDone,
     NativeReadReturn, Supervisor, SupervisorClose, SupervisorRelease, SupervisorDone,
     NativeCloseReturn
<1>3. retiring => retiring'
  BY DEF PumpStep, PumpCheck, PumpDrop, PumpFail, PumpEnqueue, PumpDone,
     NativeReadReturn, Supervisor, SupervisorClose, SupervisorRelease, SupervisorDone,
     NativeCloseReturn, RetireLocked
<1> QED
  BY <1>1, <1>2, <1>3

------------------------------------------------------------------------------
(* The ring. *)

InHand == IF pump \in {"report", "misfit"} THEN 1 ELSE 0

\* No report is lost while the connection is open, and an overflow leaves more than
\* QueueSize of them undelivered.
CountInv ==
    /\ retiring /\ reason = "overflow" => produced > Len(delivered) + QueueSize
    /\ ~retiring => produced = Len(delivered) + count + InHand

\* Steps that move no report keep CountInv.
LEMMA CountFrame ==
    ASSUME CountInv, UNCHANGED <<produced, delivered, pump>>,
           UNCHANGED <<retiring, reason, count>> \/ Retires
    PROVE  CountInv'
BY SMT DEF CountInv, InHand, Retires

\* Every report is accounted for after every action of an open connection.
LEMMA CountStep ==
    RingOK /\ ControlOK /\ WritesOK /\ CountInv /\ [Next]_vars => CountInv'
<1> SUFFICES ASSUME RingOK, ControlOK, WritesOK, CountInv PROVE [Next]_vars => CountInv'
  OBVIOUS
<1>1. ASSUME NEW r \in Readers, ReadAction(r) PROVE CountInv'
  <2>1. UNCHANGED <<produced, pump>>
    BY <1>1, ReadFrame
  <2>2. CASE ReadTake(r)
    <3>1. /\ ~retiring /\ UNCHANGED retiring /\ count' = count - 1
          /\ delivered' = Append(delivered, queue[head])
      BY <2>2 DEF ReadTake
    <3>2. Len(delivered') = Len(delivered) + 1 /\ Len(delivered) \in Nat
      BY <3>1, SMT DEF RingOK
    <3> QED
      BY <2>1, <3>1, <3>2, SMT DEF CountInv, InHand, RingOK
  <2>3. CASE ~ReadTake(r)
    <3>1. UNCHANGED delivered /\ (UNCHANGED <<retiring, reason, count>> \/ Retires)
      BY <1>1, <2>3, RetireCases DEF ReadAction, ReadRefuse, ReadAdmit, ReadStep,
         ReadEnd, ReadIdle, ReadWake, ReadClear
    <3> QED
      BY <2>1, <3>1, CountFrame
  <2> QED
    BY <2>2, <2>3
<1>2. ASSUME NEW w \in Writers, WriteAction(w) PROVE CountInv'
  BY <1>2, WriteFrame, CountFrame
<1>3. ASSUME NEW c \in Closers, CloseAction(c) PROVE CountInv'
  BY <1>3, CloseFrame, CountFrame
<1>4. ASSUME NEW c \in Calls, Expire(c) PROVE CountInv'
  BY <1>4, CountFrame DEF Expire
<1>5. CASE PumpStep
  <2>1. UNCHANGED <<produced, delivered>>
    BY <1>5 DEF PumpStep, PumpCheck, PumpDrop, PumpFail, PumpEnqueue, PumpDone
  <2>2. CASE PumpCheck \/ PumpDrop \/ PumpDone
    <3>1. /\ UNCHANGED <<retiring, reason, count>>
          /\ retiring \/ (pump \in {"check", "exiting"} /\ pump' \in {"reading", "gone"})
      BY <2>2 DEF PumpCheck, StopRequested, PumpDrop, PumpDone
    <3> QED
      BY <2>1, <3>1 DEF CountInv, InHand
  <2>3. CASE PumpFail
    <3>1. retiring'
      BY <2>3 DEF PumpFail, RetireLocked
    <3>2. \/ UNCHANGED <<retiring, reason>>
          \/ ~retiring /\ reason' = "device"
          \/ ~retiring /\ reason' = "overflow" /\ pump = "report" /\ count = QueueSize
      BY <2>3 DEF PumpFail, RetireLocked, QueueFull
    <3>3. ASSUME ~retiring, pump = "report", count = QueueSize
          PROVE  produced > Len(delivered) + QueueSize
      BY <3>3, SMT DEF CountInv, InHand, RingOK
    <3>4. reason' = "overflow" => produced > Len(delivered) + QueueSize
      <4>1. CASE UNCHANGED <<retiring, reason>>
        BY <3>1, <4>1 DEF CountInv
      <4>2. CASE ~UNCHANGED <<retiring, reason>>
        BY <3>2, <3>3, <4>2
      <4> QED
        BY <4>1, <4>2
    <3> QED
      BY <2>1, <3>1, <3>4 DEF CountInv
  <2>4. CASE PumpEnqueue
    <3>1. /\ ~retiring /\ UNCHANGED retiring /\ count' = count + 1
          /\ pump = "report" /\ pump' = "check"
      BY <2>4 DEF PumpEnqueue
    <3> QED
      BY <2>1, <3>1, SMT DEF CountInv, InHand, RingOK
  <2> QED
    BY <1>5, <2>2, <2>3, <2>4 DEF PumpStep
<1>6. CASE NativeReadReturn
  <2>1. UNCHANGED <<retiring, reason, count, delivered>> /\ pump = "reading"
    BY <1>6 DEF NativeReadReturn
  <2>2. \/ produced' = produced /\ pump' \in {"check", "failed"}
        \/ produced' = produced + 1 /\ pump' \in {"report", "misfit"}
    BY <1>6 DEF NativeReadReturn
  <2> QED
    BY <2>1, <2>2, SMT DEF CountInv, InHand, RingOK
<1>7. CASE Supervisor \/ NativeCloseReturn
  <2>1. UNCHANGED <<produced, delivered, pump, retiring, reason, count>>
    BY <1>7 DEF Supervisor, SupervisorClose, SupervisorRelease, SupervisorDone,
       NativeCloseReturn
  <2> QED
    BY <2>1, CountFrame
<1>8. CASE UNCHANGED vars
  BY <1>8, CountFrame DEF vars
<1> QED
  BY <1>1, <1>2, <1>3, <1>4, <1>5, <1>6, <1>7, <1>8
     DEF Next, Finished, ReadAction, WriteAction, CloseAction

\* An index below QueueSize is its own slot.
LEMMA ModSmall ==
    ASSUME NEW n \in Nat \ {0}, NEW a \in 0..(n - 1)
    PROVE  a % n = a
BY SMT

\* An index in the second round of the ring wraps by QueueSize.
LEMMA ModWrap ==
    ASSUME NEW n \in Nat \ {0}, NEW a \in n..(2 * n - 1)
    PROVE  a % n = a - n
BY SMT

\* Two offsets below QueueSize from the head name two slots.
LEMMA SlotsDiffer ==
    ASSUME NEW h \in Slots, NEW i \in Slots, NEW j \in Slots, i # j
    PROVE  (h + i) % QueueSize # (h + j) % QueueSize
<1> USE DEF Slots
<1>1. h + i < QueueSize => (h + i) % QueueSize = h + i
  BY ModSmall, SMT
<1>2. h + i >= QueueSize => (h + i) % QueueSize = h + i - QueueSize
  BY ModWrap, SMT
<1>3. h + j < QueueSize => (h + j) % QueueSize = h + j
  BY ModSmall, SMT
<1>4. h + j >= QueueSize => (h + j) % QueueSize = h + j - QueueSize
  BY ModWrap, SMT
<1> QED
  BY <1>1, <1>2, <1>3, <1>4, SMT

\* After the head has advanced, every offset is one less.
LEMMA SlotAdvances ==
    ASSUME NEW h \in Slots, NEW i \in 1..(QueueSize - 1)
    PROVE  (((h + 1) % QueueSize) + i - 1) % QueueSize = (h + i) % QueueSize
<1> USE DEF Slots
<1>1. CASE h + 1 < QueueSize
  <2>1. (h + 1) % QueueSize = h + 1
    BY <1>1, ModSmall, SMT
  <2> QED
    BY <2>1, SMT
<1>2. CASE h + 1 = QueueSize
  <2>1. (h + 1) % QueueSize = 0
    BY <1>2, ModWrap, SMT
  <2>2. (i - 1) % QueueSize = i - 1
    BY ModSmall, SMT
  <2>3. (h + i) % QueueSize = h + i - QueueSize
    BY <1>2, ModWrap, SMT
  <2> QED
    BY <1>2, <2>1, <2>2, <2>3, SMT
<1> QED
  BY <1>1, <1>2, SMT

\* Two sequences that count on from each other.
LEMMA ConcatCounts ==
    ASSUME NEW S, NEW s \in Seq(S), NEW t \in Seq(S),
           \A i \in 1..Len(s) : s[i] = i,
           \A i \in 1..Len(t) : t[i] = Len(s) + i
    PROVE  s \o t = [i \in 1..(Len(s) + Len(t)) |-> i]
<1>1. /\ s \o t \in Seq(S) /\ Len(s \o t) = Len(s) + Len(t)
      /\ \A i \in 1..(Len(s) + Len(t)) :
            (s \o t)[i] = IF i <= Len(s) THEN s[i] ELSE t[i - Len(s)]
  BY ConcatProperties, SMT
<1>2. Len(s) \in Nat /\ Len(t) \in Nat
  BY LenProperties
<1>3. ASSUME NEW i \in 1..(Len(s) + Len(t)) PROVE (s \o t)[i] = i
  <2>1. CASE i <= Len(s)
    BY <1>1, <1>2, <2>1, SMT
  <2>2. CASE ~(i <= Len(s))
    <3>1. i - Len(s) \in 1..Len(t)
      BY <1>2, <2>2, SMT
    <3>2. Len(s) + (i - Len(s)) = i
      BY <1>2, SMT
    <3> QED
      BY <1>1, <2>2, <3>1, <3>2
  <2> QED
    BY <2>1, <2>2
<1>4. DOMAIN (s \o t) = 1..(Len(s) + Len(t))
  BY <1>1, LenProperties
<1>5. s \o t = [i \in DOMAIN (s \o t) |-> (s \o t)[i]]
  BY <1>1, LenProperties
<1> QED
  BY <1>3, <1>4, <1>5

\* The reports delivered and those queued are numbered consecutively.
FifoInv ==
    ~retiring =>
        /\ \A i \in 1..Len(delivered) : delivered[i] = i
        /\ \A i \in 1..count : queue[(head + i - 1) % QueueSize] = Len(delivered) + i

\* Every action keeps FifoInv: only ReadTake and PumpEnqueue move reports.
LEMMA FifoStep ==
    RingOK /\ CountInv /\ FifoInv /\ [Next]_vars => FifoInv'
<1> SUFFICES ASSUME RingOK, CountInv, FifoInv PROVE [Next]_vars => FifoInv'
  OBVIOUS
<1>0. ASSUME retiring' \/ UNCHANGED <<retiring, queue, head, count, delivered>>
      PROVE  FifoInv'
  BY <1>0 DEF FifoInv
<1>1. ASSUME NEW r \in Readers, ReadTake(r) PROVE FifoInv'
  <2> USE DEF RingOK, Slots
  <2>1. /\ ~retiring /\ ~retiring' /\ count > 0 /\ count' = count - 1
        /\ head' = (head + 1) % QueueSize
        /\ queue' = [queue EXCEPT ![head] = 0]
        /\ delivered' = Append(delivered, queue[head])
    BY <1>1 DEF ReadTake
  <2>2. queue[head] = Len(delivered) + 1
    <3>1. (head + 1 - 1) % QueueSize = head
      <4>1. head % QueueSize = head
        BY ModSmall
      <4>2. head + 1 - 1 = head
        BY SMT
      <4> QED
        BY <4>1, <4>2
    <3>2. 1 \in 1..count
      BY <2>1, SMT
    <3> QED
      BY <2>1, <3>1, <3>2 DEF FifoInv
  <2>3. Len(delivered') = Len(delivered) + 1
    BY <2>1, SMT
  <2>4. ASSUME NEW i \in 1..Len(delivered') PROVE delivered'[i] = i
    BY <2>1, <2>2, <2>3, <2>4, SMT DEF FifoInv
  <2>5. ASSUME NEW i \in 1..count'
        PROVE  queue'[(head' + i - 1) % QueueSize] = Len(delivered') + i
    <3>1. i \in 1..(QueueSize - 1) /\ i + 1 \in 1..count
      BY <2>1, SMT
    <3>2. (head' + i - 1) % QueueSize = (head + i) % QueueSize
      BY <2>1, <3>1, SlotAdvances
    <3>3. (head + i) % QueueSize \in Slots
      <4>1. head + i \in Nat
        BY SMT
      <4> QED
        BY <4>1, ModBound
    <3>4. (head + i) % QueueSize # head
      <4>1. head % QueueSize = head
        BY ModSmall
      <4>2. head + 0 = head
        BY SMT
      <4>3. i \in Slots /\ 0 \in Slots /\ i # 0
        BY <3>1, SMT
      <4>4. (head + i) % QueueSize # (head + 0) % QueueSize
        BY <4>3, SlotsDiffer
      <4> QED
        BY <4>1, <4>2, <4>4
    <3>5. queue[(head + i) % QueueSize] = Len(delivered) + i + 1
      <4>1. head + (i + 1) - 1 = head + i
        BY SMT
      <4>2. queue[(head + (i + 1) - 1) % QueueSize] = Len(delivered) + (i + 1)
        BY <2>1, <3>1 DEF FifoInv
      <4> QED
        BY <4>1, <4>2, SMT
    <3>6. queue'[(head + i) % QueueSize] = queue[(head + i) % QueueSize]
      BY <2>1, <3>3, <3>4
    <3> QED
      BY <2>3, <3>2, <3>5, <3>6, SMT
  <2> QED
    BY <2>4, <2>5 DEF FifoInv
<1>2. ASSUME PumpEnqueue PROVE FifoInv'
  <2> USE DEF RingOK, Slots
  <2>1. /\ ~retiring /\ ~retiring' /\ count < QueueSize /\ count' = count + 1
        /\ UNCHANGED <<head, delivered>>
        /\ queue' = [queue EXCEPT ![(head + count) % QueueSize] = produced]
    BY <1>2, SMT DEF PumpEnqueue, QueueFull, FreeSlot
  <2>2. produced = Len(delivered) + count + 1
    BY <1>2, <2>1 DEF PumpEnqueue, CountInv, InHand
  <2>3. ASSUME NEW i \in 1..count'
        PROVE  queue'[(head + i - 1) % QueueSize] = Len(delivered) + i
    <3>1. (head + (i - 1)) % QueueSize \in Slots
      BY <2>1, ModBound, SMT
    <3>2. CASE i = count + 1
      BY <2>1, <2>2, <3>1, <3>2, SMT
    <3>3. CASE i \in 1..count
      <4>0. i - 1 \in Slots /\ count \in Slots /\ i - 1 # count
        BY <2>1, <3>3, SMT
      <4>1. (head + (i - 1)) % QueueSize # (head + count) % QueueSize
        BY <4>0, SlotsDiffer
      <4>2. head + (i - 1) = head + i - 1
        OBVIOUS
      <4> QED
        BY <2>1, <3>1, <3>3, <4>1, <4>2 DEF FifoInv
    <3> QED
      BY <2>1, <3>2, <3>3, SMT
  <2> QED
    BY <2>1, <2>3 DEF FifoInv
<1>3. ASSUME NEW why, RetireLocked(why), UNCHANGED <<head, delivered>> PROVE FifoInv'
  BY <1>0, <1>3 DEF RetireLocked
<1>4. ASSUME NEW r \in Readers, ReadRefuse(r) \/ ReadAdmit(r) \/ ReadStep(r) PROVE FifoInv'
  BY <1>0, <1>1, <1>3, <1>4
     DEF ReadRefuse, ReadAdmit, ReadStep, ReadEnd, ReadIdle, ReadWake, ReadClear
<1>5. ASSUME NEW w \in Writers,
             \/ WriteRefuse(w) \/ WriteAdmit(w) \/ WriteStep(w)
             \/ WorkerStep(w) \/ NativeWriteReturn(w)
      PROVE  FifoInv'
  BY <1>0, <1>3, <1>5
     DEF WriteRefuse, WriteAdmit, WriteStep, WriteWake, WriteReturn, WriteClear,
         WorkerStep, WorkerRefuse, WorkerSubmit, WorkerComplete, WorkerDone,
         NativeWriteReturn, RetireIfExpired
<1>6. ASSUME NEW c \in Closers, CloseCall(c) \/ CloseStep(c) PROVE FifoInv'
  BY <1>0, <1>3, <1>6 DEF CloseCall, CloseStep, CloseWake, CloseReturn
<1>7. ASSUME NEW c \in Calls, Expire(c) PROVE FifoInv'
  BY <1>0, <1>7 DEF Expire
<1>8. CASE PumpStep \/ NativeReadReturn
  BY <1>0, <1>2, <1>3, <1>8
     DEF PumpStep, PumpCheck, PumpDrop, PumpFail, PumpDone, NativeReadReturn
<1>9. CASE Supervisor \/ NativeCloseReturn
  BY <1>0, <1>9
     DEF Supervisor, SupervisorClose, SupervisorRelease, SupervisorDone, NativeCloseReturn
<1>10. CASE UNCHANGED vars
  BY <1>0, <1>10 DEF vars
<1> QED
  BY <1>4, <1>5, <1>6, <1>7, <1>8, <1>9, <1>10 DEF Next, Finished

------------------------------------------------------------------------------
(* The inductive invariants. *)

\* Retirement starts the supervisor, the lease is held until it releases it, and it
\* goes past its wait only with an empty wait group, which counts the pump and every
\* goroutine of a Write until they are gone.
LifeInv ==
    /\ retiring <=> sup # "none"
    /\ lease <=> sup \notin {"released", "done"}
    /\ sup \notin {"none", "waiting"} => workers = {}
    /\ pump # "gone" => Pump \in workers
    /\ \A w \in Writers : wpc[w] \notin {"none", "gone"} => w \in workers
    /\ \A c \in Closers :
          pc[c] = "returned" /\ err[c] \in {"none", "io"} => sup = "done"

\* The goroutine of the Write has not published its result.
Live(w) == wpc[w] \in {"start", "native", "answered"}

\* The Write holds writeBusy.
Engaged(w) == pc[w] \in {"select", "result", "clear"}

\* At most one Write is engaged and at most one goroutine is live; a goroutine that
\* outlives its call belongs to a retiring connection.
WriteInv ==
    /\ \A w \in Writers : Engaged(w) => writeBusy
    /\ \A v, w \in Writers : Engaged(v) /\ Engaged(w) => v = w
    /\ \A v, w \in Writers : Live(v) /\ Live(w) => v = w
    /\ \A w \in Writers : pc[w] = "start" => wpc[w] = "none"
    /\ \A w \in Writers : Live(w) /\ ~retiring => pc[w] \in {"select", "result"}
    /\ \A w \in Writers : Engaged(w) => wpc[w] # "none"
    /\ \A w \in Writers : pending[w].completed <=> wpc[w] \in {"exiting", "gone"}
    /\ \A w \in Writers : pc[w] = "result" => pending[w].completed \/ ctx[w]

\* The published result agrees with the device's answer, and so does the result of
\* the call from the moment that it is decided.
EvidenceOf(w) ==
    /\ wpc[w] \in {"none", "start", "native"} => raw[w].outcome = "none"
    /\ wpc[w] = "answered" => raw[w].outcome # "none"
    /\ wpc[w] \in {"native", "answered"} => pending[w].submitted
    /\ pending[w].completed =>
          /\ pending[w].outcome = "NotSubmitted" =>
                raw[w].outcome \in {"none", "NotSubmitted"}
          /\ pending[w].outcome = "Completed" => raw[w].outcome = "Completed"
          /\ pending[w].outcome = "Unknown" =>
                raw[w].outcome \in {"Unknown", "OutOfRange"}
    /\ pc[w] \in {"clear", "returned"} =>
          /\ outcome[w] = "NotSubmitted" =>
                /\ wpc[w] \notin {"native", "answered"}
                /\ raw[w].outcome \in {"none", "NotSubmitted"}
          /\ outcome[w] = "Completed" => raw[w].outcome = "Completed"
          /\ outcome[w] = "Unknown" =>
                err[w] = "ctx" \/ raw[w].outcome \in {"Unknown", "OutOfRange"}

EvidenceInv == \A w \in Writers : EvidenceOf(w)

\* One Read at a time, and a token for it when it is parked beside queued input.
ReadInv ==
    /\ \A r \in Readers : Reading(r) => readBusy
    /\ \A q, r \in Readers : Reading(q) /\ Reading(r) => q = r
    /\ \A r \in Readers : pc[r] = "select" /\ count > 0 => ready

\* Whoever may still retire the connection has its cause on record.
CauseInv ==
    /\ retiring /\ reason = "none" => "close" \in causes
    /\ retiring /\ reason = "ctx" => "cancel" \in causes
    /\ retiring /\ reason = "device" => "device" \in causes
    /\ \A c \in Readers \cup Writers : Admitted(c) /\ ctx[c] => "cancel" \in causes
    /\ \A r \in Readers : wake[r] = "ctx" => ctx[r]
    /\ pump \in {"failed", "misfit"} => "device" \in causes
    /\ \A w \in Writers : wpc[w] = "answered" /\ Failed(raw[w]) => "device" \in causes

\* A Close that waited for the cleanup has its result.
CloseInv ==
    \A c \in Closers : pc[c] = "returned" /\ err[c] \in {"none", "io"} =>
        (err[c] = "io" <=> closeErr)

SafetyInv ==
    LifeInv /\ WriteInv /\ EvidenceInv /\ ReadInv /\ CauseInv /\ CountInv /\ CloseInv

\* newConnection establishes the strengthened invariant.
LEMMA InitSafety == Init => SafetyInv
<1> SUFFICES ASSUME Init PROVE SafetyInv
  OBVIOUS
<1>1. LifeInv
  BY DEF Init, LifeInv
<1>2. WriteInv
  BY DEF Init, WriteInv, Live, Engaged, Fresh
<1>3. EvidenceInv
  BY DEF Init, EvidenceInv, EvidenceOf, NoAnswer, Fresh
<1>4. ReadInv
  BY DEF Init, ReadInv, Reading
<1>5. CauseInv
  BY DEF Init, CauseInv, Admitted
<1>6. CountInv
  BY SMT DEF Init, CountInv, InHand
<1>7. CloseInv
  BY DEF Init, CloseInv
<1> QED
  BY <1>1, <1>2, <1>3, <1>4, <1>5, <1>6, <1>7 DEF SafetyInv

------------------------------------------------------------------------------
(* Every action keeps the invariants. *)

\* A Write joins the wait group only before retirement, and the supervisor goes on only
\* with an empty wait group, so LifeInv is kept.
LEMMA LifeStep ==
    ControlOK /\ WritesOK /\ LifeInv /\ [Next]_vars => LifeInv'
<1> SUFFICES ASSUME ControlOK, WritesOK, LifeInv PROVE [Next]_vars => LifeInv'
  OBVIOUS
<1>1. ASSUME NEW r \in Readers, ReadAction(r) PROVE LifeInv'
  <2>1. \A c \in Closers : pc'[c] = pc[c] /\ err'[c] = err[c]
    BY <1>1, ReadFrame DEF Others
  <2> QED
    BY <1>1, <2>1, ReadFrame DEF LifeInv, Retires
<1>2. ASSUME NEW w \in Writers, WriteAction(w) PROVE LifeInv'
  <2>1. \A c \in Closers : pc'[c] = pc[c] /\ err'[c] = err[c]
    BY <1>2, WriteFrame DEF Others
  <2>2. UNCHANGED <<pump, lease>> /\ (UNCHANGED retireVars \/ Retires)
    BY <1>2, WriteFrame
  <2>3. \A v \in Writers : v # w => wpc'[v] = wpc[v]
    BY <1>2, WriteFrame DEF OtherWrites
  <2>4. CASE WriteAdmit(w)
    <3>1. ~retiring /\ workers' = workers \cup {w} /\ UNCHANGED retireVars
      BY <2>4 DEF WriteAdmit, WriteAdmissible
    <3> QED
      BY <2>1, <2>2, <2>3, <3>1 DEF LifeInv
  <2>5. CASE WorkerDone(w)
    <3>1. wpc'[w] = "gone" /\ workers' = workers \ {w} /\ UNCHANGED retireVars
      BY <2>5 DEF WorkerDone, ControlOK
    <3> QED
      BY <2>1, <2>2, <2>3, <3>1 DEF LifeInv
  <2>6. CASE ~WriteAdmit(w) /\ ~WorkerDone(w)
    <3>1. workers' = workers
      BY <1>2, <2>6 DEF WriteAction, WriteRefuse, WriteStep, WriteWake, WriteReturn,
         WriteClear, WorkerStep, WorkerRefuse, WorkerSubmit, WorkerComplete, NativeWriteReturn
    <3>2. wpc' = wpc \/ wpc[w] \in {"start", "native", "answered"}
      BY <1>2, <2>6 DEF WriteAction, WriteRefuse, WriteStep, WriteWake, WriteReturn,
         WriteClear, WorkerStep, WorkerRefuse, WorkerSubmit, WorkerComplete, NativeWriteReturn
    <3> QED
      BY <2>1, <2>2, <2>3, <3>1, <3>2, SMT DEF LifeInv, Retires
  <2> QED
    BY <2>4, <2>5, <2>6
<1>3. ASSUME NEW c \in Closers, CloseAction(c) PROVE LifeInv'
  <2>1. pc'[c] = "returned" /\ err'[c] \in {"none", "io"} => sup = "done" /\ sup' = "done"
    <3>1. CASE CloseCall(c)
      BY <3>1 DEF CloseCall, Return, RetireLocked, CleanupDone, ControlOK, LifeInv
    <3>2. CASE CloseStep(c)
      BY <3>2 DEF CloseStep, CloseWake, CloseReturn, Return, ControlOK
    <3> QED
      BY <1>3, <3>1, <3>2 DEF CloseAction
  <2>2. \A d \in Closers : d # c => pc'[d] = pc[d] /\ err'[d] = err[d]
    BY <1>3, CloseFrame DEF Others
  <2> QED
    BY <1>3, <2>1, <2>2, CloseFrame DEF LifeInv, Retires
<1>4. ASSUME NEW c \in Calls, Expire(c) PROVE LifeInv'
  BY <1>4 DEF Expire, LifeInv
<1>5. CASE PumpStep
  <2>1. UNCHANGED <<writeVars, callVars, lease>>
    BY <1>5 DEF PumpStep, PumpCheck, PumpDrop, PumpFail, PumpEnqueue, PumpDone
  <2>2. CASE PumpDone
    <3>1. pump' = "gone" /\ workers' = workers \ {Pump} /\ UNCHANGED <<retiring, sup>>
      BY <2>2 DEF PumpDone, retireVars
    <3>2. wpc' = wpc /\ pc' = pc /\ err' = err /\ lease' = lease
      BY <2>1 DEF writeVars, callVars
    <3>3. /\ sup' \notin {"none", "waiting"} => workers' = {}
          /\ retiring' <=> sup' # "none"
          /\ lease' <=> sup' \notin {"released", "done"}
      BY <3>1, <3>2 DEF LifeInv
    <3>4. \A w \in Writers : wpc'[w] \notin {"none", "gone"} => w \in workers'
      BY <3>1, <3>2, ConnectionAssumption DEF LifeInv
    <3>5. \A c \in Closers : pc'[c] = "returned" /\ err'[c] \in {"none", "io"} => sup' = "done"
      BY <3>1, <3>2 DEF LifeInv
    <3> QED
      BY <3>1, <3>3, <3>4, <3>5 DEF LifeInv
  <2>3. CASE PumpFail
    <3>1. pump # "gone" /\ workers' = workers
      BY <2>3 DEF PumpFail
    <3>2. \/ UNCHANGED <<retiring, sup>>
          \/ ~retiring /\ retiring' /\ sup' = "waiting"
      BY <2>3 DEF PumpFail, RetireLocked
    <3> QED
      BY <2>1, <3>1, <3>2 DEF LifeInv
  <2>4. CASE PumpCheck \/ PumpDrop \/ PumpEnqueue
    BY <2>1, <2>4 DEF PumpCheck, PumpDrop, PumpEnqueue, LifeInv
  <2> QED
    BY <1>5, <2>2, <2>3, <2>4 DEF PumpStep
<1>6. CASE NativeReadReturn
  BY <1>6 DEF NativeReadReturn, LifeInv
<1>7. CASE Supervisor \/ NativeCloseReturn
  <2>1. UNCHANGED <<writeVars, callVars, retiring, pump, workers>>
    BY <1>7 DEF Supervisor, SupervisorClose, SupervisorRelease, SupervisorDone,
       NativeCloseReturn
  <2> QED
    BY <1>7, <2>1 DEF Supervisor, SupervisorClose, WorkersDone, SupervisorRelease,
       SupervisorDone, NativeCloseReturn, LifeInv
<1>8. CASE UNCHANGED vars
  BY <1>8 DEF vars, LifeInv
<1> QED
  BY <1>1, <1>2, <1>3, <1>4, <1>5, <1>6, <1>7, <1>8
     DEF Next, Finished, ReadAction, WriteAction, CloseAction

\* Steps of others keep WriteInv.
LEMMA WriteInvFrame ==
    ASSUME WriteInv, UNCHANGED writeVars, retiring => retiring',
           \A w \in Writers : pc'[w] = pc[w] /\ (ctx[w] => ctx'[w])
    PROVE  WriteInv'
BY DEF WriteInv, Live, Engaged

\* What WriteInv says of one Write by itself.
Sane(w) ==
    /\ Engaged(w) => writeBusy
    /\ pc[w] = "start" => wpc[w] = "none"
    /\ Live(w) /\ ~retiring => pc[w] \in {"select", "result"}
    /\ Engaged(w) => wpc[w] # "none"
    /\ pending[w].completed <=> wpc[w] \in {"exiting", "gone"}
    /\ pc[w] = "result" => pending[w].completed \/ ctx[w]

\* WriteInv, one Write at a time.
LEMMA WriteInvSplit ==
    WriteInv <=> /\ \A w \in Writers : Sane(w)
                 /\ \A v, w \in Writers : Engaged(v) /\ Engaged(w) => v = w
                 /\ \A v, w \in Writers : Live(v) /\ Live(w) => v = w
BY DEF WriteInv, Sane

\* A step of one Write keeps WriteInv if it leaves that Write sane, and alone in what
\* it newly enters.
LEMMA OwnWrite ==
    ASSUME WriteInv, NEW w \in Writers,
           \A v \in Writers : v # w => /\ pc'[v] = pc[v]
                                      /\ wpc'[v] = wpc[v]
                                      /\ pending'[v] = pending[v],
           ctx' = ctx, retiring => retiring',
           Sane(w)',
           \A v \in Writers : v # w /\ Engaged(v) => writeBusy' /\ ~Engaged(w)',
           \A v \in Writers : v # w /\ Live(v) => ~Live(w)'
    PROVE  WriteInv'
<1>1. ASSUME NEW v \in Writers, v # w
      PROVE  /\ Engaged(v)' <=> Engaged(v)
             /\ Live(v)' <=> Live(v)
  BY <1>1 DEF Engaged, Live
<1>2. ASSUME NEW v \in Writers, v # w PROVE Sane(v)'
  <2>1. Sane(v)
    BY WriteInvSplit
  <2>2. Engaged(v)' => writeBusy'
    BY <1>1, <1>2
  <2>3. /\ pc'[v] = pc[v] /\ wpc'[v] = wpc[v] /\ pending'[v] = pending[v]
        /\ ctx'[v] = ctx[v]
    BY <1>2
  <2> QED
    BY <1>1, <1>2, <2>1, <2>2, <2>3 DEF Sane
<1>3. \A v \in Writers : Sane(v)'
  BY <1>2
<1>4. ASSUME NEW u \in Writers, NEW v \in Writers, Engaged(u)', Engaged(v)' PROVE u = v
  <2>1. Engaged(u) /\ Engaged(v) => u = v
    BY WriteInvSplit
  <2> QED
    BY <1>1, <1>4, <2>1
<1>5. ASSUME NEW u \in Writers, NEW v \in Writers, Live(u)', Live(v)' PROVE u = v
  <2>1. Live(u) /\ Live(v) => u = v
    BY WriteInvSplit
  <2> QED
    BY <1>1, <1>5, <2>1
<1> QED
  BY <1>3, <1>4, <1>5 DEF WriteInv, Sane

\* A caller that leaves a live goroutine behind retires the connection, so that no
\* second one is started beside it: WriteInv is kept.
LEMMA WriteStepInv ==
    ControlOK /\ WritesOK /\ WriteInv /\ [Next]_vars => WriteInv'
<1> SUFFICES ASSUME ControlOK, WritesOK, WriteInv PROVE [Next]_vars => WriteInv'
  OBVIOUS
<1>1. ASSUME NEW r \in Readers, ReadAction(r) PROVE WriteInv'
  <2>1. \A w \in Writers : pc'[w] = pc[w]
    BY <1>1, ReadFrame DEF Others
  <2> QED
    BY <1>1, <2>1, ReadFrame, WriteInvFrame DEF Retires
<1>2. ASSUME NEW w \in Writers, WriteAction(w) PROVE WriteInv'
  <2>1. /\ \A v \in Writers : v # w => /\ pc'[v] = pc[v]
                                      /\ wpc'[v] = wpc[v]
                                      /\ pending'[v] = pending[v]
        /\ ctx' = ctx /\ (retiring => retiring')
    BY <1>2, WriteFrame DEF Others, OtherWrites, Retires
  <2>a. /\ Sane(w)
        /\ \A v \in Writers : v # w => ~(Engaged(v) /\ Engaged(w)) /\ ~(Live(v) /\ Live(w))
        /\ \A v \in Writers : Engaged(v) => writeBusy
        /\ \A v \in Writers : Live(v) /\ ~retiring => Engaged(v)
    BY WriteInvSplit DEF Sane, Engaged
  <2>b. ASSUME UNCHANGED writeBusy, Sane(w)', Engaged(w)' => Engaged(w), Live(w)' => Live(w)
        PROVE  WriteInv'
    <3>1. \A v \in Writers : v # w /\ Engaged(v) => writeBusy' /\ ~Engaged(w)'
      BY <2>a, <2>b
    <3>2. \A v \in Writers : v # w /\ Live(v) => ~Live(w)'
      BY <2>a, <2>b
    <3> QED
      BY <2>1, <2>b, <3>1, <3>2, OwnWrite
  <2>2. CASE WriteRefuse(w)
    <3>1. pc[w] = "start" /\ pc'[w] = "returned" /\ UNCHANGED <<writeBusy, wpc, pending>>
      BY <2>2 DEF WriteRefuse, Return, ControlOK, WritesOK
    <3>2. Sane(w)' /\ (Engaged(w)' => Engaged(w)) /\ (Live(w)' => Live(w))
      BY <2>1, <2>a, <3>1 DEF Sane, Engaged, Live
    <3> QED
      BY <2>b, <3>1, <3>2
  <2>3. CASE WriteAdmit(w)
    <3>1. /\ pc[w] = "start" /\ pc'[w] = "select" /\ ~retiring
          /\ ~writeBusy /\ writeBusy' /\ wpc'[w] = "start" /\ UNCHANGED pending
      BY <2>3 DEF WriteAdmit, WriteAdmissible, ControlOK, WritesOK
    <3>2. Sane(w)'
      BY <2>1, <2>a, <3>1 DEF Sane, Engaged, Live
    <3>3. \A v \in Writers : ~Engaged(v) /\ ~Live(v)
      BY <2>a, <3>1
    <3> QED
      BY <2>1, <3>2, <3>3, OwnWrite
  <2>4. CASE WriteWake(w)
    <3>1. /\ pc[w] = "select" /\ pc'[w] = "result" /\ (pending[w].completed \/ ctx[w])
          /\ UNCHANGED <<writeBusy, wpc, pending>>
      BY <2>4 DEF WriteWake, WriteWoken, writeVars, ControlOK, WritesOK
    <3>2. Sane(w)' /\ (Engaged(w)' => Engaged(w)) /\ (Live(w)' => Live(w))
      BY <2>1, <2>a, <3>1 DEF Sane, Engaged, Live
    <3> QED
      BY <2>b, <3>1, <3>2
  <2>5. CASE WriteReturn(w)
    <3>1. /\ pc[w] = "result" /\ pc'[w] = "clear" /\ (ctx[w] => retiring')
          /\ UNCHANGED <<writeBusy, wpc, pending>>
      BY <2>5 DEF WriteReturn, Leave, RetireIfExpired, RetireLocked, ControlOK, WritesOK
    <3>2. Sane(w)' /\ (Engaged(w)' => Engaged(w)) /\ (Live(w)' => Live(w))
      BY <2>1, <2>a, <3>1 DEF Sane, Engaged, Live
    <3> QED
      BY <2>b, <3>1, <3>2
  <2>6. CASE WriteClear(w)
    <3>1. pc[w] = "clear" /\ pc'[w] = "returned" /\ UNCHANGED <<wpc, pending>>
      BY <2>6 DEF WriteClear, ControlOK
    <3>2. Sane(w)' /\ Engaged(w) /\ ~Engaged(w)' /\ (Live(w)' => Live(w))
      BY <2>1, <2>a, <3>1 DEF Sane, Engaged, Live
    <3>3. /\ \A v \in Writers : v # w => ~Engaged(v)
          /\ \A v \in Writers : v # w /\ Live(v) => ~Live(w)'
      BY <2>a, <3>2
    <3> QED
      BY <2>1, <3>2, <3>3, OwnWrite
  <2>7. CASE WorkerRefuse(w) \/ WorkerComplete(w)
    <3>1. wpc[w] \in {"start", "answered"} /\ UNCHANGED <<writeBusy, pc>>
      BY <2>7 DEF WorkerRefuse, WorkerComplete, callVars
    <3>2. wpc'[w] = "exiting"
      BY <2>7 DEF WorkerRefuse, WorkerComplete, ControlOK
    <3>3. pending'[w].completed
      <4>1. \E o, f : pending' = [pending EXCEPT ![w].completed = TRUE, ![w].outcome = o,
                                                 ![w].failed = f]
        BY <2>7 DEF WorkerRefuse, WorkerComplete
      <4> QED
        BY <4>1, SMT DEF WritesOK
    <3>4. Sane(w)' /\ (Engaged(w)' => Engaged(w)) /\ (Live(w)' => Live(w))
      BY <2>1, <2>a, <3>1, <3>2, <3>3 DEF Sane, Engaged, Live
    <3> QED
      BY <2>b, <3>1, <3>4
  <2>8. CASE WorkerSubmit(w)
    <3>1. /\ wpc[w] = "start" /\ wpc'[w] = "native"
          /\ pending'[w].completed = pending[w].completed /\ UNCHANGED <<writeBusy, pc>>
      BY <2>8, SMT DEF WorkerSubmit, callVars, ControlOK, WritesOK
    <3>2. Sane(w)' /\ (Engaged(w)' => Engaged(w)) /\ (Live(w)' => Live(w))
      BY <2>1, <2>a, <3>1 DEF Sane, Engaged, Live
    <3> QED
      BY <2>b, <3>1, <3>2
  <2>9. CASE WorkerDone(w) \/ NativeWriteReturn(w)
    <3>1. /\ \/ wpc[w] = "exiting" /\ wpc'[w] = "gone"
             \/ wpc[w] = "native" /\ wpc'[w] = "answered"
          /\ UNCHANGED <<writeBusy, pc, pending>>
      BY <2>9 DEF WorkerDone, NativeWriteReturn, callVars, ControlOK, WritesOK
    <3>2. Sane(w)' /\ (Engaged(w)' => Engaged(w)) /\ (Live(w)' => Live(w))
      BY <2>1, <2>a, <3>1 DEF Sane, Engaged, Live
    <3> QED
      BY <2>b, <3>1, <3>2
  <2> QED
    BY <1>2, <2>2, <2>3, <2>4, <2>5, <2>6, <2>7, <2>8, <2>9
       DEF WriteAction, WriteStep, WorkerStep
<1>3. ASSUME NEW c \in Closers, CloseAction(c) PROVE WriteInv'
  <2>1. \A w \in Writers : pc'[w] = pc[w]
    BY <1>3, CloseFrame DEF Others
  <2> QED
    BY <1>3, <2>1, CloseFrame, WriteInvFrame DEF Retires
<1>4. ASSUME NEW c \in Calls, Expire(c) PROVE WriteInv'
  BY <1>4, WriteInvFrame DEF Expire, ControlOK
<1>5. CASE PumpStep \/ NativeReadReturn \/ Supervisor \/ NativeCloseReturn
  BY <1>5, OwnFrame, WriteInvFrame
<1>6. CASE UNCHANGED vars
  BY <1>6, WriteInvFrame DEF vars
<1> QED
  BY <1>1, <1>2, <1>3, <1>4, <1>5, <1>6
     DEF Next, Finished, ReadAction, WriteAction, CloseAction

\* Steps of others keep EvidenceInv.
LEMMA EvidenceFrame ==
    ASSUME EvidenceInv, UNCHANGED <<wpc, pending, outcome, raw>>,
           \A w \in Writers : pc'[w] = pc[w] /\ err'[w] = err[w]
    PROVE  EvidenceInv'
BY SMTT(20) DEF EvidenceInv, EvidenceOf

\* What is published and returned about a Write agrees with the answer of the device
\* after every action.
LEMMA EvidenceStep ==
    ControlOK /\ WritesOK /\ WriteInv /\ EvidenceInv /\ [Next]_vars => EvidenceInv'
<1> SUFFICES ASSUME ControlOK, WritesOK, WriteInv, EvidenceInv
             PROVE  [Next]_vars => EvidenceInv'
  OBVIOUS
<1>1. ASSUME NEW r \in Readers, ReadAction(r) PROVE EvidenceInv'
  <2>1. \A w \in Writers : pc'[w] = pc[w] /\ err'[w] = err[w]
    BY <1>1, ReadFrame DEF Others
  <2> QED
    BY <1>1, <2>1, ReadFrame, EvidenceFrame
<1>2. ASSUME NEW w \in Writers, WriteAction(w) PROVE EvidenceInv'
  <2>1. ASSUME NEW v \in Writers, v # w PROVE EvidenceOf(v)'
    <3>1. /\ pc'[v] = pc[v] /\ err'[v] = err[v] /\ wpc'[v] = wpc[v]
          /\ pending'[v] = pending[v] /\ outcome'[v] = outcome[v] /\ raw'[v] = raw[v]
      BY <1>2, <2>1, WriteFrame DEF Others, OtherWrites
    <3> QED
      BY <3>1, SMT DEF EvidenceInv, EvidenceOf
  <2>2. EvidenceOf(w)'
    <3>0. EvidenceOf(w)
      BY DEF EvidenceInv
    <3>1. CASE WriteRefuse(w)
      <4>1. /\ pc[w] = "start" /\ pc'[w] = "returned" /\ outcome'[w] = "NotSubmitted"
            /\ UNCHANGED <<wpc, pending, raw>>
        BY <3>1, SMTT(20) DEF WriteRefuse, Return, ControlOK, WritesOK
      <4>2. wpc[w] = "none"
        BY <4>1 DEF WriteInv
      <4> QED
        BY <3>0, <4>1, <4>2 DEF EvidenceOf
    <3>2. CASE WriteAdmit(w)
      <4>1. /\ pc[w] = "start" /\ pc'[w] = "select" /\ wpc'[w] = "start"
            /\ UNCHANGED <<pending, raw>>
        BY <3>2 DEF WriteAdmit, ControlOK
      <4>2. wpc[w] = "none"
        BY <4>1 DEF WriteInv
      <4> QED
        BY <3>0, <4>1, <4>2 DEF EvidenceOf
    <3>3. CASE WriteWake(w)
      <4>1. pc'[w] = "result" /\ UNCHANGED <<wpc, pending, raw>>
        BY <3>3 DEF WriteWake, ControlOK
      <4> QED
        BY <3>0, <4>1 DEF EvidenceOf
    <3>4. CASE WriteReturn(w)
      <4>1. pc[w] = "result" /\ UNCHANGED <<wpc, pending, raw>>
        BY <3>4 DEF WriteReturn
      <4>2. \/ pending[w].completed /\ outcome'[w] = pending[w].outcome
            \/ /\ ~pending[w].completed /\ err'[w] = "ctx"
               /\ outcome'[w] = IF pending[w].submitted THEN "Unknown" ELSE "NotSubmitted"
            \/ ~pending[w].completed /\ ~ctx[w]
        BY <3>4 DEF WriteReturn, Leave, CancelledOutcome, ControlOK, WritesOK
      <4>3. /\ pending[w].completed <=> wpc[w] \in {"exiting", "gone"}
            /\ pending[w].completed \/ ctx[w]
            /\ wpc[w] # "none"
        BY <4>1 DEF WriteInv, Engaged
      <4>4. wpc[w] \in {"start", "native", "answered", "exiting", "gone"}
        BY <4>3 DEF ControlOK
      <4>5. CASE pending[w].completed /\ outcome'[w] = pending[w].outcome
        BY <3>0, <4>1, <4>3, <4>5 DEF EvidenceOf
      <4>6. CASE /\ ~pending[w].completed /\ err'[w] = "ctx"
                 /\ outcome'[w] = IF pending[w].submitted THEN "Unknown" ELSE "NotSubmitted"
        <5>1. wpc[w] \in {"start", "native", "answered"}
          BY <4>3, <4>4, <4>6
        <5>2. outcome'[w] = "NotSubmitted" => wpc[w] = "start" /\ raw[w].outcome = "none"
          BY <3>0, <4>6, <5>1 DEF EvidenceOf
        <5> QED
          BY <3>0, <4>1, <4>6, <5>1, <5>2 DEF EvidenceOf
      <4> QED
        BY <4>2, <4>3, <4>5, <4>6
    <3>5. CASE WriteClear(w)
      <4>1. /\ pc[w] = "clear" /\ pc'[w] = "returned"
            /\ UNCHANGED <<wpc, pending, outcome, raw, err>>
        BY <3>5 DEF WriteClear, ControlOK
      <4> QED
        BY <3>0, <4>1 DEF EvidenceOf
    <3>6. CASE WorkerRefuse(w)
      <4>1. /\ wpc[w] = "start" /\ wpc'[w] = "exiting" /\ pending'[w].completed
            /\ pending'[w].outcome = "NotSubmitted"
            /\ UNCHANGED <<pc, err, outcome, raw>>
        BY <3>6, SMTT(20) DEF WorkerRefuse, ControlOK, WritesOK
      <4> QED
        BY <3>0, <4>1 DEF EvidenceOf
    <3>7. CASE WorkerSubmit(w)
      <4>1. /\ wpc[w] = "start" /\ wpc'[w] = "native" /\ pending'[w].submitted
            /\ pending'[w].completed = pending[w].completed
            /\ ~retiring /\ UNCHANGED <<pc, err, outcome, raw>>
        BY <3>7, SMT DEF WorkerSubmit, MaySubmit, ControlOK, WritesOK
      <4>2. ~pending[w].completed /\ pc[w] \in {"select", "result"}
        BY <4>1 DEF WriteInv, Live
      <4> QED
        BY <3>0, <4>1, <4>2 DEF EvidenceOf
    <3>8. CASE NativeWriteReturn(w)
      <4>1. /\ wpc[w] = "native" /\ wpc'[w] = "answered"
            /\ UNCHANGED <<pc, err, outcome, pending>>
        BY <3>8 DEF NativeWriteReturn, ControlOK
      <4>2. raw'[w].outcome \in Outcomes \cup {"OutOfRange"}
        BY <3>8, SMT DEF NativeWriteReturn, WritesOK
      <4>3. raw'[w].outcome # "none"
        BY <4>2 DEF Outcomes
      <4>4. ~pending[w].completed /\ raw[w].outcome = "none"
        BY <3>0, <4>1 DEF WriteInv, EvidenceOf
      <4> QED
        BY <3>0, <4>1, <4>3, <4>4 DEF EvidenceOf
    <3>9. CASE WorkerComplete(w)
      <4>1. /\ wpc[w] = "answered" /\ wpc'[w] = "exiting"
            /\ pending'[w].outcome = Checked(raw[w])
            /\ pending'[w].submitted = pending[w].submitted
            /\ UNCHANGED <<pc, err, outcome, raw>>
        BY <3>9, SMT DEF WorkerComplete, ControlOK, WritesOK
      <4>2. raw[w].outcome # "none"
        BY <3>0, <4>1 DEF EvidenceOf
      <4> QED
        BY <3>0, <4>1, <4>2 DEF EvidenceOf, Checked
    <3>10. CASE WorkerDone(w)
      <4>1. /\ wpc[w] = "exiting" /\ wpc'[w] = "gone"
            /\ UNCHANGED <<pc, err, outcome, pending, raw>>
        BY <3>10 DEF WorkerDone, ControlOK
      <4> QED
        BY <3>0, <4>1 DEF EvidenceOf
    <3> QED
      BY <1>2, <3>1, <3>2, <3>3, <3>4, <3>5, <3>6, <3>7, <3>8, <3>9, <3>10
         DEF WriteAction, WriteStep, WorkerStep
  <2> QED
    BY <2>1, <2>2 DEF EvidenceInv
<1>3. ASSUME NEW c \in Closers, CloseAction(c) PROVE EvidenceInv'
  <2>1. \A w \in Writers : pc'[w] = pc[w] /\ err'[w] = err[w]
    BY <1>3, CloseFrame DEF Others
  <2> QED
    BY <1>3, <2>1, CloseFrame, EvidenceFrame
<1>4. ASSUME NEW c \in Calls, Expire(c) PROVE EvidenceInv'
  BY <1>4, EvidenceFrame, SMTT(20) DEF Expire
<1>5. CASE PumpStep \/ NativeReadReturn \/ Supervisor \/ NativeCloseReturn
  BY <1>5, OwnFrame, EvidenceFrame
<1>6. CASE UNCHANGED vars
  BY <1>6, EvidenceFrame DEF vars
<1> QED
  BY <1>1, <1>2, <1>3, <1>4, <1>5, <1>6
     DEF Next, Finished, ReadAction, WriteAction, CloseAction

\* Steps of others keep ReadInv: they put no report beside a parked Read without a token.
LEMMA ReadInvFrame ==
    ASSUME ReadInv, UNCHANGED readBusy, \A r \in Readers : pc'[r] = pc[r],
           ready' \/ (UNCHANGED ready /\ (count' = count \/ count' = 0))
    PROVE  ReadInv'
<1>1. count' = 0 => ~(count' > 0)
  BY SMT
<1> QED
  BY <1>1, SMT DEF ReadInv, Reading

\* The only parked Read is the one that may consume the token, and it looks at the ring
\* again before it parks, so ReadInv is kept.
LEMMA ReadStepInv ==
    ControlOK /\ WritesOK /\ RingOK /\ ReadInv /\ [Next]_vars => ReadInv'
<1> SUFFICES ASSUME ControlOK, WritesOK, RingOK, ReadInv PROVE [Next]_vars => ReadInv'
  OBVIOUS
<1>1. ASSUME NEW r \in Readers, ReadAction(r) PROVE ReadInv'
  <2>1. \A q \in Readers : q # r => pc'[q] = pc[q]
    BY <1>1, ReadFrame DEF Others
  <2>2. CASE ReadRefuse(r) \/ ReadClear(r)
    <3>1. /\ pc'[r] = "returned" /\ UNCHANGED <<count, ready>>
          /\ readBusy' = readBusy \/ pc[r] = "clear"
      BY <2>2 DEF ReadRefuse, Return, ReadClear, ControlOK
    <3> QED
      BY <2>1, <3>1, SMT DEF ReadInv, Reading
  <2>3. CASE ReadAdmit(r)
    <3>1. ~readBusy /\ readBusy' /\ pc'[r] = "loop" /\ UNCHANGED <<count, ready>>
      BY <2>3 DEF ReadAdmit, ReadAdmissible, ControlOK
    <3> QED
      BY <2>1, <3>1 DEF ReadInv, Reading
  <2>4. CASE ReadEnd(r) \/ ReadTake(r) \/ ReadWake(r)
    <3>1. pc[r] \in {"loop", "select"} /\ pc'[r] \in {"loop", "clear"} /\ UNCHANGED readBusy
      BY <2>4 DEF ReadEnd, ReadTake, ReadWake, Leave, ControlOK
    <3> QED
      BY <2>1, <3>1, SMTT(20) DEF ReadInv, Reading
  <2>5. CASE ReadIdle(r)
    <3>1. pc[r] = "loop" /\ UNCHANGED readBusy /\ count' = 0
      BY <2>5 DEF ReadIdle, RetireLocked
    <3>2. pc'[r] \in {"select", "clear"}
      BY <2>5 DEF ReadIdle, Leave, ControlOK
    <3>3. ~(count' > 0)
      BY <3>1, SMT
    <3> QED
      BY <2>1, <3>1, <3>2, <3>3 DEF ReadInv, Reading
  <2> QED
    BY <1>1, <2>2, <2>3, <2>4, <2>5 DEF ReadAction, ReadStep
<1>2. ASSUME NEW w \in Writers, WriteAction(w) PROVE ReadInv'
  <2>1. \A r \in Readers : pc'[r] = pc[r]
    BY <1>2, WriteFrame DEF Others
  <2> QED
    BY <1>2, <2>1, WriteFrame, ReadInvFrame DEF Retires
<1>3. ASSUME NEW c \in Closers, CloseAction(c) PROVE ReadInv'
  <2>1. \A r \in Readers : pc'[r] = pc[r]
    BY <1>3, CloseFrame DEF Others
  <2> QED
    BY <1>3, <2>1, CloseFrame, ReadInvFrame DEF Retires
<1>4. ASSUME NEW c \in Calls, Expire(c) PROVE ReadInv'
  BY <1>4, ReadInvFrame DEF Expire
<1>5. CASE PumpStep \/ NativeReadReturn \/ Supervisor \/ NativeCloseReturn
  <2>1. ready' \/ (UNCHANGED ready /\ (count' = count \/ count' = 0))
    BY <1>5 DEF PumpStep, PumpCheck, PumpDrop, PumpFail, PumpEnqueue, PumpDone,
       NativeReadReturn, Supervisor, SupervisorClose, SupervisorRelease, SupervisorDone,
       NativeCloseReturn, RetireLocked, SignalReady
  <2> QED
    BY <1>5, <2>1, OwnFrame, ReadInvFrame
<1>6. CASE UNCHANGED vars
  BY <1>6, ReadInvFrame DEF vars
<1> QED
  BY <1>1, <1>2, <1>3, <1>4, <1>5, <1>6
     DEF Next, Finished, ReadAction, WriteAction, CloseAction

\* The reason of a retirement is one of its causes.
Reasoned ==
    /\ retiring /\ reason = "none" => "close" \in causes
    /\ retiring /\ reason = "ctx" => "cancel" \in causes
    /\ retiring /\ reason = "device" => "device" \in causes

\* An action that retires with a cause on record, or not at all, keeps Reasoned.
LEMMA ReasonedStep ==
    ASSUME Reasoned, NEW why, RetireLocked(why), causes \subseteq causes',
           why = "none" => "close" \in causes',
           why = "ctx" => "cancel" \in causes',
           why = "device" => "device" \in causes'
    PROVE  Reasoned'
BY DEF Reasoned, RetireLocked

\* Whoever retires the connection has its cause on record after every action.
LEMMA CauseStep ==
    ControlOK /\ WritesOK /\ WriteInv /\ CauseInv /\ [Next]_vars => CauseInv'
<1> SUFFICES ASSUME ControlOK, WritesOK, WriteInv, CauseInv PROVE [Next]_vars => CauseInv'
  OBVIOUS
<1>0. ASSUME UNCHANGED <<retiring, reason>>, causes \subseteq causes' PROVE Reasoned'
  BY <1>0 DEF CauseInv, Reasoned
<1>r. Reasoned
  BY DEF CauseInv, Reasoned
<1>1. ASSUME NEW r \in Readers, ReadAction(r) PROVE CauseInv'
  <2>1. /\ UNCHANGED <<pump, wpc, raw, ctx, causes>>
        /\ \A c \in Readers \cup Writers : c # r => pc'[c] = pc[c]
    BY <1>1, ReadFrame DEF Others
  <2>2. Reasoned'
    <3>1. CASE ReadEnd(r) \/ ReadIdle(r)
      <4>1. ctx[r] => "cancel" \in causes
        BY <3>1 DEF ReadEnd, ReadIdle, CauseInv, Admitted
      <4>2. wake[r] \in {"none", "ctx", "timeout"} /\ (wake[r] = "ctx" => ctx[r])
        BY DEF CauseInv, ControlOK
      <4>3. UNCHANGED <<retiring, reason>> \/ (RetireLocked("ctx") /\ ctx[r])
        BY <3>1, <4>2 DEF ReadEnd, ReadIdle, WakeRetires
      <4> QED
        BY <1>0, <1>r, <2>1, <4>1, <4>3, ReasonedStep
    <3>2. CASE ~(ReadEnd(r) \/ ReadIdle(r))
      BY <1>0, <1>1, <2>1, <3>2 DEF ReadAction, ReadRefuse, ReadAdmit, ReadStep,
         ReadTake, ReadWake, ReadClear
    <3> QED
      BY <3>1, <3>2
  <2>3. Admitted(r)' => Admitted(r) \/ ~ctx[r]
    BY <1>1 DEF ReadAction, ReadRefuse, ReadAdmit, ReadAdmissible, ReadStep, ReadEnd,
       ReadTake, ReadIdle, ReadWake, ReadClear, Return, Leave, Admitted, ControlOK
  <2>4. \A q \in Readers : wake'[q] = "ctx" => ctx[q]
    <3>1. UNCHANGED wake \/ \E e : wake' = [wake EXCEPT ![r] = e] /\ (e = "ctx" => ctx[r])
      BY <1>1 DEF ReadAction, ReadRefuse, ReadAdmit, ReadStep, ReadEnd,
         ReadTake, ReadIdle, ReadWake, ReadClear
    <3> QED
      BY <3>1 DEF CauseInv, ControlOK
  <2> QED
    BY <2>1, <2>2, <2>3, <2>4 DEF CauseInv, Reasoned, Admitted
<1>2. ASSUME NEW w \in Writers, WriteAction(w) PROVE CauseInv'
  <2>1. /\ UNCHANGED <<pump, wake, ctx>>
        /\ \A c \in Readers \cup Writers : c # w => pc'[c] = pc[c]
        /\ \A v \in Writers : v # w => wpc'[v] = wpc[v] /\ raw'[v] = raw[v]
    BY <1>2, WriteFrame, ZenonT(30) DEF Others, OtherWrites
  <2>2. causes \subseteq causes'
    BY <1>2 DEF WriteAction, WriteRefuse, WriteAdmit, WriteStep, WriteWake, WriteReturn,
       WriteClear, WorkerStep, WorkerRefuse, WorkerSubmit, WorkerComplete, WorkerDone,
       NativeWriteReturn
  <2>3. Reasoned'
    <3>1. CASE WriteReturn(w) \/ WorkerRefuse(w)
      <4>1. \/ UNCHANGED <<retiring, reason>>
            \/ RetireLocked("ctx") /\ ctx[w] /\ ~retiring
        BY <3>1 DEF WriteReturn, WorkerRefuse, RetireIfExpired, RetireLocked
      <4>2. ~retiring => pc[w] \in {"select", "result"}
        BY <3>1 DEF WriteReturn, WorkerRefuse, WriteInv, Live
      <4>3. ctx[w] /\ ~retiring => "cancel" \in causes
        BY <4>2 DEF CauseInv, Admitted
      <4> QED
        BY <1>0, <1>r, <2>2, <4>1, <4>3, ReasonedStep
    <3>2. CASE WorkerComplete(w)
      <4>1. UNCHANGED <<retiring, reason>> \/ (RetireLocked("device") /\ Failed(raw[w]))
        BY <3>2 DEF WorkerComplete
      <4>2. Failed(raw[w]) => "device" \in causes
        BY <3>2 DEF WorkerComplete, CauseInv
      <4> QED
        BY <1>0, <1>r, <2>2, <4>1, <4>2, ReasonedStep
    <3>3. CASE ~(WriteReturn(w) \/ WorkerRefuse(w) \/ WorkerComplete(w))
      BY <1>0, <1>2, <2>2, <3>3 DEF WriteAction, WriteRefuse, WriteAdmit, WriteStep,
         WriteWake, WriteClear, WorkerStep, WorkerSubmit, WorkerDone, NativeWriteReturn
    <3> QED
      BY <3>1, <3>2, <3>3
  <2>4. Admitted(w)' => Admitted(w) \/ ~ctx[w]
    <3>1. CASE UNCHANGED pc
      BY <3>1 DEF Admitted
    <3>2. CASE WriteRefuse(w) \/ WriteAdmit(w) \/ WriteStep(w)
      BY <3>2 DEF WriteRefuse, WriteAdmit, WriteAdmissible, WriteStep, WriteWake,
         WriteReturn, WriteClear, Return, Leave, Admitted, ControlOK
    <3> QED
      BY <1>2, <3>1, <3>2 DEF WriteAction, WorkerStep, WorkerRefuse, WorkerSubmit,
         WorkerComplete, WorkerDone, NativeWriteReturn
  <2>5. wpc'[w] = "answered" /\ Failed(raw[w])' => "device" \in causes'
    <3>1. CASE NativeWriteReturn(w)
      <4>1. PICK o \in Outcomes \cup {"OutOfRange"}, f \in BOOLEAN :
               /\ raw' = [raw EXCEPT ![w] = [outcome |-> o, failed |-> f]]
               /\ causes' = IF f \/ o # "Completed" THEN causes \cup {"device"} ELSE causes
        BY <3>1 DEF NativeWriteReturn
      <4>2. raw'[w] = [outcome |-> o, failed |-> f]
        BY <4>1 DEF WritesOK
      <4>3. Failed(raw[w])' => f \/ o # "Completed"
        BY <4>2, SMT DEF Failed, Checked, Outcomes
      <4> QED
        BY <4>1, <4>3
    <3>2. CASE ~NativeWriteReturn(w)
      <4>1. UNCHANGED raw
        BY <1>2, <3>2, ZenonT(30) DEF WriteAction, WriteRefuse, WriteAdmit, WriteStep, WriteWake,
           WriteReturn, WriteClear, WorkerStep, WorkerRefuse, WorkerSubmit, WorkerComplete,
           WorkerDone
      <4>2. wpc'[w] = "answered" => wpc[w] = "answered"
        BY <1>2, <3>2 DEF WriteAction, WriteRefuse, WriteAdmit, WriteStep, WriteWake,
           WriteReturn, WriteClear, WorkerStep, WorkerRefuse, WorkerSubmit, WorkerComplete,
           WorkerDone, ControlOK
      <4> QED
        BY <2>2, <4>1, <4>2 DEF CauseInv, Failed, Checked
    <3> QED
      BY <3>1, <3>2
  <2>6. \A v \in Writers : wpc'[v] = "answered" /\ Failed(raw[v])' => "device" \in causes'
    <3> SUFFICES ASSUME NEW v \in Writers, v # w, wpc'[v] = "answered", Failed(raw[v])'
                 PROVE  "device" \in causes'
      BY <2>5
    <3> QED
      BY <2>1, <2>2 DEF CauseInv, Failed, Checked
  <2> QED
    BY <2>1, <2>2, <2>3, <2>4, <2>6 DEF CauseInv, Reasoned, Admitted
<1>3. ASSUME NEW c \in Closers, CloseAction(c) PROVE CauseInv'
  <2>1. /\ UNCHANGED <<pump, wake, ctx, wpc, raw>> /\ causes \subseteq causes'
        /\ \A d \in Readers \cup Writers : pc'[d] = pc[d]
    BY <1>3, CloseFrame DEF Others
  <2>2. CASE CloseCall(c)
    <3>1. RetireLocked("none") /\ "close" \in causes'
      BY <2>2 DEF CloseCall
    <3>2. Reasoned'
      BY <1>r, <2>1, <3>1, ReasonedStep
    <3> QED
      BY <2>1, <3>2 DEF CauseInv, Reasoned, Admitted, Failed, Checked
  <2>3. CASE CloseStep(c)
    <3>1. Reasoned'
      BY <1>0, <2>1, <2>3 DEF CloseStep, CloseWake, CloseReturn
    <3> QED
      BY <2>1, <3>1 DEF CauseInv, Reasoned, Admitted, Failed, Checked
  <2> QED
    BY <1>3, <2>2, <2>3 DEF CloseAction
<1>4. ASSUME NEW c \in Calls, Expire(c) PROVE CauseInv'
  <2>1. UNCHANGED <<retiring, reason, pc, wake, pump, wpc, raw>> /\ causes \subseteq causes'
    BY <1>4 DEF Expire
  <2>2. \A d \in Readers \cup Writers : Admitted(d) /\ ctx'[d] => "cancel" \in causes'
    BY <1>4, <2>1 DEF Expire, CauseInv, Admitted, ControlOK
  <2>3. \A r \in Readers : ctx[r] => ctx'[r]
    BY <1>4 DEF Expire, ControlOK
  <2> QED
    BY <2>1, <2>2, <2>3 DEF CauseInv, Admitted, Failed, Checked
<1>5. CASE PumpStep \/ NativeReadReturn
  <2>1. UNCHANGED <<wake, ctx, wpc, raw, pc>> /\ causes \subseteq causes'
    BY <1>5, OwnFrame
  <2>2. pump' \in {"failed", "misfit"} => "device" \in causes'
    BY <1>5 DEF PumpStep, PumpCheck, PumpDrop, PumpFail, PumpEnqueue, PumpDone,
       NativeReadReturn
  <2>3. Reasoned'
    <3>1. CASE PumpFail
      <4>1. \/ RetireLocked("device") /\ pump \in {"failed", "misfit"}
            \/ RetireLocked("overflow")
        BY <3>1 DEF PumpFail
      <4> QED
        BY <1>r, <2>1, <4>1, ReasonedStep DEF CauseInv
    <3>2. CASE ~PumpFail
      BY <1>0, <1>5, <2>1, <3>2
         DEF PumpStep, PumpCheck, PumpDrop, PumpEnqueue, PumpDone, NativeReadReturn
    <3> QED
      BY <3>1, <3>2
  <2> QED
    BY <2>1, <2>2, <2>3 DEF CauseInv, Reasoned, Admitted, Failed, Checked
<1>6. CASE Supervisor \/ NativeCloseReturn
  <2>1. UNCHANGED <<retiring, reason, pump, wake, ctx, wpc, raw, pc, causes>>
    BY <1>6 DEF Supervisor, SupervisorClose, SupervisorRelease, SupervisorDone,
       NativeCloseReturn
  <2> QED
    BY <2>1 DEF CauseInv, Admitted, Failed, Checked
<1>7. CASE UNCHANGED vars
  BY <1>7 DEF vars, CauseInv, Admitted, Failed, Checked
<1> QED
  BY <1>1, <1>2, <1>3, <1>4, <1>5, <1>6, <1>7
     DEF Next, Finished, ReadAction, WriteAction, CloseAction

\* device.Close returns before any Close has its result, and the error it returned does
\* not change afterwards, so CloseInv is kept.
LEMMA CloseInvStep ==
    ControlOK /\ WritesOK /\ LifeInv /\ CloseInv /\ [Next]_vars => CloseInv'
<1> SUFFICES ASSUME ControlOK, WritesOK, LifeInv, CloseInv PROVE [Next]_vars => CloseInv'
  OBVIOUS
<1>1. ASSUME UNCHANGED closeErr, \A c \in Closers : pc'[c] = pc[c] /\ err'[c] = err[c]
      PROVE  CloseInv'
  BY <1>1 DEF CloseInv
<1>2. ASSUME NEW r \in Readers, ReadAction(r) PROVE CloseInv'
  BY <1>1, <1>2, ReadFrame DEF Others
<1>3. ASSUME NEW w \in Writers, WriteAction(w) PROVE CloseInv'
  BY <1>1, <1>3, WriteFrame DEF Others
<1>4. ASSUME NEW c \in Closers, CloseAction(c) PROVE CloseInv'
  <2>1. UNCHANGED closeErr /\ \A d \in Closers : d # c => pc'[d] = pc[d] /\ err'[d] = err[d]
    BY <1>4, CloseFrame DEF Others
  <2>2. pc'[c] = "returned" /\ err'[c] \in {"none", "io"} => (err'[c] = "io" <=> closeErr)
    <3>1. CASE CloseCall(c)
      BY <3>1 DEF CloseCall, Return, ControlOK
    <3>2. CASE CloseStep(c)
      BY <3>2 DEF CloseStep, CloseWake, CloseReturn, Return, ControlOK
    <3> QED
      BY <1>4, <3>1, <3>2 DEF CloseAction
  <2> QED
    BY <2>1, <2>2 DEF CloseInv
<1>5. ASSUME NEW c \in Calls, Expire(c) PROVE CloseInv'
  BY <1>1, <1>5 DEF Expire
<1>6. CASE PumpStep \/ NativeReadReturn \/ Supervisor
  <2>1. UNCHANGED <<closeErr, pc, err>>
    BY <1>6 DEF PumpStep, PumpCheck, PumpDrop, PumpFail, PumpEnqueue, PumpDone,
       NativeReadReturn, Supervisor, SupervisorClose, SupervisorRelease, SupervisorDone
  <2> QED
    BY <1>1, <2>1
<1>7. CASE NativeCloseReturn
  <2>1. sup = "closing" /\ UNCHANGED <<pc, err>>
    BY <1>7 DEF NativeCloseReturn
  <2> QED
    BY <2>1 DEF LifeInv, CloseInv
<1>8. CASE UNCHANGED vars
  BY <1>1, <1>8 DEF vars
<1> QED
  BY <1>2, <1>3, <1>4, <1>5, <1>6, <1>7, <1>8
     DEF Next, Finished, ReadAction, WriteAction, CloseAction

\* The invariants above hold together in every reachable state of the connection.
LEMMA SafetyHolds == Spec => [](TypeOK /\ SafetyInv)
<1>1. TypeOK /\ SafetyInv /\ [Next]_vars => SafetyInv'
  BY LifeStep, WriteStepInv, EvidenceStep, ReadStepInv, CauseStep, CountStep, CloseInvStep
     DEF TypeOK, SafetyInv
<1> QED
  BY TypeCorrect, InitSafety, <1>1, PTL DEF Spec

------------------------------------------------------------------------------
(* The properties of HidConnection. *)

\* While the connection is open, what was delivered followed by what is queued is the
\* device's input in its order, without a loss or a repetition; one Read at a time takes
\* from it, and readBusy is set as long as that Read runs.
THEOREM FifoDeliveryHolds == Spec => []FifoDelivery
<1>1. Init => FifoInv
  BY SMT DEF Init, FifoInv
<1>2. TypeOK /\ SafetyInv /\ FifoInv => FifoDelivery
  <2> SUFFICES ASSUME RingOK, CountInv, FifoInv, ~retiring
               PROVE  delivered \o Queued = [i \in 1..(produced - InHand) |-> i]
    BY DEF TypeOK, SafetyInv, ReadInv, FifoDelivery, InHand
  <2> USE DEF RingOK, Slots
  <2>1. Queued \in Seq(0..MaxReports) /\ Len(Queued) = count
    <3>1. ASSUME NEW i \in 1..count PROVE queue[(head + i - 1) % QueueSize] \in 0..MaxReports
      <4>1. (head + i - 1) % QueueSize \in Slots
        BY ModBound, SMT
      <4> QED
        BY <4>1
    <3> QED
      BY <3>1, SMT DEF Queued
  <2>2. produced - InHand = Len(delivered) + count
    BY SMT DEF CountInv, InHand
  <2>3. \A i \in 1..Len(Queued) : Queued[i] = Len(delivered) + i
    BY <2>1 DEF Queued, FifoInv
  <2>4. \A i \in 1..Len(delivered) : delivered[i] = i
    BY DEF FifoInv
  <2>5. delivered \o Queued = [i \in 1..(Len(delivered) + Len(Queued)) |-> i]
    BY <2>1, <2>3, <2>4, ConcatCounts
  <2> QED
    BY <2>1, <2>2, <2>5
<1>3. TypeOK /\ CountInv /\ FifoInv /\ [Next]_vars => FifoInv'
  BY FifoStep DEF TypeOK
<1>4. SafetyInv => CountInv
  BY DEF SafetyInv
<1> QED
  BY SafetyHolds, <1>1, <1>2, <1>3, <1>4, PTL DEF Spec

\* The device handle is neither closed nor its endpoint given away while the pump or
\* a write goroutine is inside a native call, whatever the callers have done.
THEOREM HandleLifetimeHolds == Spec => []HandleLifetime
<1>1. TypeOK /\ SafetyInv => HandleLifetime
  BY DEF TypeOK, ControlOK, SafetyInv, LifeInv, HandleLifetime, DeviceInUse, InNative
<1> QED
  BY SafetyHolds, <1>1, PTL

\* device.Write is never entered twice at a time, although writeBusy is cleared while
\* the goroutine of a cancelled Write is still inside.
THEOREM OneNativeWriteHolds == Spec => []OneNativeWrite
<1>1. SafetyInv => OneNativeWrite
  BY ZenonT(30) DEF SafetyInv, WriteInv, OneNativeWrite, InNative, Live
<1> QED
  BY SafetyHolds, <1>1, PTL

\* What a Write reported about its submission stays true for ever.
THEOREM WriteEvidenceHolds == Spec => []WriteEvidence
<1>1. SafetyInv => WriteEvidence
  BY DEF SafetyInv, EvidenceInv, EvidenceOf, WriteEvidence
<1> QED
  BY SafetyHolds, <1>1, PTL

\* No wake-up of a parked Read is lost.
THEOREM NoLostWakeupHolds == Spec => []NoLostWakeup
<1>1. SafetyInv => NoLostWakeup
  BY DEF SafetyInv, ReadInv, NoLostWakeup
<1> QED
  BY SafetyHolds, <1>1, PTL

\* A connection retires only for one of its causes, and reports that one.
THEOREM RetiredForCauseHolds == Spec => []RetiredForCause
<1>1. TypeOK /\ SafetyInv => RetiredForCause
  BY DEF TypeOK, ControlOK, SafetyInv, CauseInv, CountInv, RetiredForCause
<1> QED
  BY SafetyHolds, <1>1, PTL

\* A Close that reports the result of the cleanup returns after all of it, and reports the
\* result of device.Close.
THEOREM CloseMeansCleanHolds == Spec => []CloseMeansClean
<1>1. SafetyInv => CloseMeansClean
  BY DEF SafetyInv, LifeInv, CloseInv, CloseMeansClean
<1> QED
  BY SafetyHolds, <1>1, PTL

\* No goroutine joins the wait group of a retiring connection.
THEOREM NoLateWorkerHolds == Spec => NoLateWorker
<1>1. [Next]_vars => [retiring => workers' \subseteq workers]_vars
  <2> SUFFICES ASSUME Next PROVE retiring => workers' \subseteq workers
    BY DEF vars
  <2>1. ASSUME NEW w \in Writers, WriteAdmit(w) PROVE ~retiring
    BY <2>1 DEF WriteAdmit, WriteAdmissible
  <2>2. ASSUME NEW w \in Writers, WriteRefuse(w) \/ WriteStep(w) \/ NativeWriteReturn(w)
        PROVE workers' = workers
    BY <2>2 DEF WriteRefuse, WriteStep, WriteWake, WriteReturn, WriteClear, NativeWriteReturn
  <2>3. ASSUME NEW w \in Writers, WorkerStep(w) PROVE workers' \subseteq workers
    BY <2>3 DEF WorkerStep, WorkerRefuse, WorkerSubmit, WorkerComplete, WorkerDone
  <2>4. ASSUME NEW r \in Readers, ReadRefuse(r) \/ ReadAdmit(r) \/ ReadStep(r)
        PROVE workers' = workers
    BY <2>4 DEF ReadRefuse, ReadAdmit, ReadStep, ReadEnd, ReadTake, ReadIdle, ReadWake,
                ReadClear
  <2>5. ASSUME NEW c \in Closers, CloseCall(c) \/ CloseStep(c) PROVE workers' = workers
    BY <2>5 DEF CloseCall, CloseStep, CloseWake, CloseReturn
  <2>6. ASSUME NEW c \in Calls, Expire(c) PROVE workers' = workers
    BY <2>6 DEF Expire
  <2>7. CASE PumpStep \/ NativeReadReturn
    BY <2>7 DEF PumpStep, PumpCheck, PumpDrop, PumpFail, PumpEnqueue, PumpDone,
                NativeReadReturn
  <2>8. CASE Supervisor \/ NativeCloseReturn \/ Finished
    BY <2>8 DEF Supervisor, SupervisorClose, SupervisorRelease, SupervisorDone,
                NativeCloseReturn, Finished, vars
  <2> QED
    BY <2>1, <2>2, <2>3, <2>4, <2>5, <2>6, <2>7, <2>8 DEF Next
<1> QED
  BY <1>1, PTL DEF Spec, NoLateWorker

------------------------------------------------------------------------------
(* The refinement of HidLifecycle. *)

\* The connection implements the life cycle that HidLifecycle promises: retirement is
\* final, the handle is closed when its last user has left, and only then is the lease
\* given back.
THEOREM LifecycleRefined == Spec => ImplementsLifecycle
<1>1. Init => Lifecycle!Init
  BY DEF Init, Lifecycle!Init, Phase
<1>2. TypeOK /\ SafetyInv /\ [Next]_vars => [Lifecycle!Next]_Lifecycle!vars
  <2> SUFFICES ASSUME ControlOK, LifeInv
               PROVE  [Next]_vars => [Lifecycle!Next]_Lifecycle!vars
    BY DEF TypeOK, SafetyInv
  <2> USE DEF Lifecycle!Next, Lifecycle!vars, ControlOK, LifeInv
  <2>1. ASSUME NEW why, RetireLocked(why), UNCHANGED <<workers, lease>>
        PROVE  [Lifecycle!Next]_Lifecycle!vars
    BY <2>1 DEF RetireLocked, Phase, Lifecycle!Retire
  <2>2. ASSUME UNCHANGED <<sup, workers, lease>>
        PROVE  [Lifecycle!Next]_Lifecycle!vars
    BY <2>2 DEF Phase
  <2>3. ASSUME NEW r \in Readers, ReadRefuse(r) \/ ReadAdmit(r) \/ ReadStep(r)
        PROVE  [Lifecycle!Next]_Lifecycle!vars
    BY <2>1, <2>2, <2>3
       DEF ReadRefuse, ReadAdmit, ReadStep, ReadEnd, ReadTake, ReadIdle, ReadWake, ReadClear
  <2>4. ASSUME NEW w \in Writers, WriteAdmit(w)
        PROVE  [Lifecycle!Next]_Lifecycle!vars
    BY <2>4 DEF WriteAdmit, WriteAdmissible, Phase, Lifecycle!Enter
  <2>5. ASSUME NEW w \in Writers, WriteRefuse(w) \/ WriteStep(w) \/ NativeWriteReturn(w)
        PROVE  [Lifecycle!Next]_Lifecycle!vars
    BY <2>1, <2>2, <2>5
       DEF WriteRefuse, WriteStep, WriteWake, WriteReturn, WriteClear, NativeWriteReturn,
           RetireIfExpired
  <2>6. ASSUME NEW w \in Writers, WorkerDone(w)
        PROVE  [Lifecycle!Next]_Lifecycle!vars
    BY <2>6 DEF WorkerDone, Phase, Lifecycle!Leave
  <2>7. ASSUME NEW w \in Writers, WorkerRefuse(w) \/ WorkerSubmit(w) \/ WorkerComplete(w)
        PROVE  [Lifecycle!Next]_Lifecycle!vars
    BY <2>1, <2>2, <2>7
       DEF WorkerRefuse, WorkerSubmit, WorkerComplete, RetireIfExpired
  <2>8. ASSUME NEW c \in Closers, CloseCall(c) \/ CloseStep(c)
        PROVE  [Lifecycle!Next]_Lifecycle!vars
    BY <2>1, <2>2, <2>8 DEF CloseCall, CloseStep, CloseWake, CloseReturn
  <2>9. ASSUME NEW c \in Calls, Expire(c)
        PROVE  [Lifecycle!Next]_Lifecycle!vars
    BY <2>2, <2>9 DEF Expire
  <2>10. CASE PumpDone
    BY <2>10 DEF PumpDone, Phase, Lifecycle!Leave
  <2>11. CASE PumpCheck \/ PumpDrop \/ PumpFail \/ PumpEnqueue \/ NativeReadReturn
    BY <2>1, <2>2, <2>11
       DEF PumpCheck, PumpDrop, PumpFail, PumpEnqueue, NativeReadReturn
  <2>12. CASE SupervisorClose
    BY <2>12 DEF SupervisorClose, WorkersDone, Phase, Lifecycle!CloseHandle
  <2>13. CASE SupervisorRelease
    BY <2>13 DEF SupervisorRelease, Phase, Lifecycle!Release
  <2>14. CASE SupervisorDone \/ NativeCloseReturn
    BY <2>14 DEF SupervisorDone, NativeCloseReturn, Phase
  <2>15. CASE UNCHANGED vars
    BY <2>2, <2>15 DEF vars
  <2> QED
    BY <2>3, <2>4, <2>5, <2>6, <2>7, <2>8, <2>9, <2>10, <2>11, <2>12, <2>13, <2>14, <2>15
       DEF Next, WorkerStep, PumpStep, Supervisor, Finished
<1> QED
  BY SafetyHolds, <1>1, <1>2, PTL DEF Spec, ImplementsLifecycle, Lifecycle!Spec

==============================================================================
