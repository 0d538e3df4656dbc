---------------------------- MODULE PowerObserver ----------------------------
(***************************************************************************)
(* The macOS power observer of internal/diagnostics/power: an owner thread *)
(* with a system power registration, and the calls New, Arm, Wait,         *)
(* WaitSleep and Close, which the Observer's Go mutex serialises.  A step  *)
(* is what one thread does under the native lock.                          *)
(*                                                                         *)
(* Notifications queue up at the registration and reach the callback only  *)
(* while the owner thread runs its loop.  All registrations of an observer *)
(* share one callback context, so a notification left over from an earlier *)
(* registration would carry the generation of the later one.               *)
(***************************************************************************)
EXTENDS Naturals, Sequences

CONSTANTS
  MAX_POWER_OBSERVERS,
  maxEvents,       \* bound: notifications of the system in a behaviour
  maxArms,         \* bound: generations of an observer
  maxObservers     \* bound: observers created one after the other

VARIABLES
  observer_count,  \* slots taken, of MAX_POWER_OBSERVERS
  created,         \* observers created so far
  events,          \* notifications sent so far
  thread,          \* "none", "starting", "loop", "arming", "ending" or "exited"
  registration,    \* registered or not, its generation, and what waits in it
  snapshot,        \* the native snapshot
  stop,            \* stop and arm_requested, arm_done of the native observer
  arming,          \* "no", "requested" or "done"
  caller,          \* the Go call under way: "none", "new", "idle", "arm" or "close"
  log,             \* the notifications the callback got since the last Arm
  answer           \* what the last Wait returned, with the log it was based on

powerVars == <<observer_count, created, events, thread, registration, snapshot, stop,
               arming, caller, log, answer>>

Messages == {"CanSleep", "WillSleep", "PoweredOn", "WillNotSleep"}

Unregistered == [live |-> FALSE, generation |-> 0, queued |-> << >>]

\* native_code, deregister_code and service_close_code are "is set" here.
Fresh(generation) ==
  [ready |-> FALSE, armed |-> FALSE, generation |-> generation, sequence |-> 0,
   can |-> 0, sleep |-> 0, wake |-> 0, canceled |-> 0, disorder |-> 0, extra |-> 0,
   stale |-> 0, ackErrors |-> 0, sleepAt |-> 0, wakeAt |-> 0, matched |-> FALSE,
   native |-> FALSE, unreleased |-> FALSE, closed |-> FALSE]

NoAnswer == [result |-> "none", sleepOnly |-> FALSE, log |-> << >>, generation |-> 0]

PowerInit ==
  /\ observer_count = 0
  /\ created = 0
  /\ events = 0
  /\ thread = "none"
  /\ registration = Unregistered
  /\ snapshot = Fresh(0)
  /\ stop = FALSE
  /\ arming = "no"
  /\ caller = "none"
  /\ log = << >>
  /\ answer = NoAnswer

-----------------------------------------------------------------------------
(* The reducer: one message, with whether its acknowledgement failed. *)

Bit(b) == IF b THEN 1 ELSE 0

Count(s, message) ==
  CASE message = "CanSleep" ->
         [s EXCEPT !.can = @ + 1,
                   !.extra = @ + Bit(s.can > 0 \/ s.sleep > 0 \/ s.wake > 0)]
    [] message = "WillSleep" ->
         LET first == s.sleep = 0 /\ s.wake = 0 /\ s.canceled = 0 IN
         [s EXCEPT !.sleep = @ + 1,
                   !.sleepAt = IF first THEN s.sequence ELSE @,
                   !.extra = @ + Bit(~first),
                   !.disorder = @ + Bit(~first)]
    [] message = "PoweredOn" ->
         LET first == s.wake = 0 /\ s.sleep = 1 /\ s.sleepAt > 0 /\ s.canceled = 0 IN
         [s EXCEPT !.wake = @ + 1,
                   !.wakeAt = IF first THEN s.sequence ELSE @,
                   !.disorder = @ + Bit(~first),
                   !.extra = @ + Bit(~first /\ s.wake > 0)]
    [] message = "WillNotSleep" -> [s EXCEPT !.canceled = @ + 1]

Matched(s) ==
  /\ s.sleep = 1
  /\ s.wake = 1
  /\ s.sleepAt > 0
  /\ s.wakeAt > s.sleepAt
  /\ s.canceled + s.disorder + s.extra + s.stale + s.ackErrors = 0

diagnostic_power_reduce(s, generation, message, ackFailed) ==
  IF ~s.armed THEN s
  ELSE IF generation # s.generation
  THEN [s EXCEPT !.stale = @ + 1, !.matched = FALSE]
  ELSE LET acked == [s EXCEPT !.sequence = @ + 1,
                              !.ackErrors = @ + Bit(ackFailed),
                              !.native = @ \/ ackFailed]
           counted == Count(acked, message)
       IN  [counted EXCEPT !.matched = Matched(counted)]

-----------------------------------------------------------------------------
(* The system, and the owner thread. *)

Notify ==
  /\ events < maxEvents
  /\ registration.live
  /\ events' = events + 1
  /\ \E message \in Messages :
       registration' = [registration EXCEPT
         !.queued = Append(@, [message |-> message, since |-> snapshot.generation])]
  /\ UNCHANGED <<observer_count, created, thread, snapshot, stop, arming, caller, log,
                 answer>>

\* The first pass of power_main: register, publish, report.
Start ==
  /\ thread = "starting"
  /\ \E registered \in BOOLEAN :
       /\ registration' = [Unregistered EXCEPT !.live = registered]
       /\ snapshot' = [snapshot EXCEPT !.ready = registered, !.native = ~registered]
       /\ thread' = IF registered THEN "loop" ELSE "ending"
  /\ UNCHANGED <<observer_count, created, events, stop, arming, caller, log, answer>>

power_callback ==
  /\ thread = "loop"
  /\ registration.queued # << >>
  /\ \E ackFailed \in BOOLEAN :
       LET event == Head(registration.queued) IN
       /\ ackFailed => event.message \in {"CanSleep", "WillSleep"}
       /\ snapshot' = IF snapshot.armed
            THEN diagnostic_power_reduce(snapshot, registration.generation, event.message,
                                         ackFailed)
            ELSE [snapshot EXCEPT !.ackErrors = @ + Bit(ackFailed),
                                  !.native = @ \/ ackFailed]
       /\ log' = Append(log, [event |-> event, acked |-> ~ackFailed])
  /\ registration' = [registration EXCEPT !.queued = Tail(@)]
  /\ UNCHANGED <<observer_count, created, events, thread, stop, arming, caller, answer>>

\* The loop sees stop or arm_requested between two slices of its run loop.
LoopTurns ==
  /\ thread = "loop"
  /\ \/ stop /\ thread' = "ending"
     \/ ~stop /\ arming = "requested" /\ thread' = "arming"
  /\ UNCHANGED <<observer_count, created, events, registration, snapshot, stop, arming,
                 caller, log, answer>>

unregister_powerKeepsBroken(r) == [r EXCEPT !.live = FALSE]

\* The notifier and its port go, with the notifications that wait in it.
unregister_power(r) == Unregistered

register_power(r, generation) == [r EXCEPT !.live = TRUE, !.generation = generation]

\* An error of an earlier step is kept, and ends the thread.
Rotate ==
  /\ thread = "arming"
  /\ arming' = "done"
  /\ \/ /\ ~snapshot.native
        /\ thread' = "loop"
        /\ registration' =
             register_power(unregister_power(registration), snapshot.generation + 1)
        /\ snapshot' = [Fresh(snapshot.generation + 1) EXCEPT !.ready = TRUE, !.armed = TRUE]
        /\ log' = << >>
     \/ /\ ~snapshot.native
        /\ thread' = "ending"
        /\ registration' = unregister_power(registration)
        /\ \E released \in BOOLEAN :
             snapshot' = [snapshot EXCEPT !.native = TRUE, !.unreleased = ~released]
        /\ UNCHANGED log
     \/ /\ snapshot.native
        /\ thread' = "ending"
        /\ UNCHANGED <<registration, snapshot, log>>
  /\ UNCHANGED <<observer_count, created, events, stop, caller, answer>>

End ==
  /\ thread = "ending"
  /\ thread' = "exited"
  /\ registration' = unregister_power(registration)
  /\ \E released \in BOOLEAN :
       /\ ~released => registration.live
       /\ snapshot' = [snapshot EXCEPT !.armed = FALSE, !.closed = TRUE,
                                       !.native = @ \/ ~released,
                                       !.unreleased = @ \/ ~released]
  /\ UNCHANGED <<observer_count, created, events, stop, arming, caller, log, answer>>

-----------------------------------------------------------------------------
(* The calls. *)

diagnostic_power_new ==
  /\ caller = "none"
  /\ created < maxObservers
  /\ observer_count < MAX_POWER_OBSERVERS
  /\ created' = created + 1
  /\ \/ /\ observer_count' = observer_count + 1
        /\ thread' = "starting"
        /\ caller' = "new"
        /\ snapshot' = Fresh(0)
        /\ stop' = FALSE
        /\ arming' = "no"
        /\ log' = << >>
        /\ answer' = NoAnswer
     \/ UNCHANGED <<observer_count, thread, caller, snapshot, stop, arming, log, answer>>
  /\ UNCHANGED <<events, registration>>

\* New closes an observer that could not register.
NewReturns ==
  /\ caller = "new"
  /\ thread # "starting"
  /\ caller' = IF snapshot.native THEN "close" ELSE "idle"
  /\ stop' = snapshot.native
  /\ UNCHANGED <<observer_count, created, events, thread, registration, snapshot, arming,
                 log, answer>>

diagnostic_power_arm ==
  /\ caller = "idle"
  /\ snapshot.generation < maxArms
  /\ snapshot.ready
  /\ ~snapshot.closed
  /\ ~snapshot.native
  /\ caller' = "arm"
  /\ arming' = "requested"
  /\ UNCHANGED <<observer_count, created, events, thread, registration, snapshot, stop,
                 log, answer>>

ArmReturns ==
  /\ caller = "arm"
  /\ arming = "done" \/ snapshot.closed
  /\ caller' = "idle"
  /\ UNCHANGED <<observer_count, created, events, thread, registration, snapshot, stop,
                 arming, log, answer>>

\* What a slice of 20 ms ends with, on the signal or on its timeout.
diagnostic_power_wait(generation, sleepOnly) ==
  LET s == snapshot
      spoilt == s.native \/ s.disorder + s.extra + s.stale + s.canceled > 0
      seen == IF sleepOnly THEN s.sleep = 1 ELSE s.matched
  IN  IF generation # s.generation THEN "EINVAL"
      ELSE IF s.closed THEN "ECANCELED"
      ELSE IF spoilt THEN "EPROTO"
      ELSE IF seen THEN "ok" ELSE "ETIMEDOUT"

\* Wait or WaitSleep for any generation handed out so far returns; after
\* ETIMEDOUT the Go loop takes another slice.
wait ==
  /\ caller = "idle"
  /\ \E generation \in 1..snapshot.generation, sleepOnly \in BOOLEAN :
       LET code == diagnostic_power_wait(generation, sleepOnly) IN
       /\ code # "ETIMEDOUT"
       /\ answer' = [result |-> code, sleepOnly |-> sleepOnly, log |-> log,
                     generation |-> generation]
  /\ UNCHANGED <<observer_count, created, events, thread, registration, snapshot, stop,
                 arming, caller, log>>

diagnostic_power_close ==
  /\ caller = "idle"
  /\ caller' = "close"
  /\ stop' = TRUE
  /\ UNCHANGED <<observer_count, created, events, thread, registration, snapshot, arming,
                 log, answer>>

\* The thread is joined; a registration that could not be released keeps its slot.
CloseReturns ==
  /\ caller = "close"
  /\ thread = "exited"
  /\ caller' = "none"
  /\ thread' = "none"
  /\ observer_count' = observer_count - Bit(~snapshot.unreleased)
  /\ UNCHANGED <<created, events, registration, snapshot, stop, arming, log, answer>>

\* No observer is left, and none can be created.
PowerFinished ==
  /\ caller = "none"
  /\ created = maxObservers \/ observer_count = MAX_POWER_OBSERVERS
  /\ UNCHANGED powerVars

PowerNext ==
  \/ Notify
  \/ Start
  \/ power_callback
  \/ LoopTurns
  \/ Rotate
  \/ End
  \/ diagnostic_power_new
  \/ NewReturns
  \/ diagnostic_power_arm
  \/ ArmReturns
  \/ wait
  \/ diagnostic_power_close
  \/ CloseReturns
  \/ PowerFinished

PowerSpec == PowerInit /\ [][PowerNext]_powerVars

-----------------------------------------------------------------------------
\* "Wait waits for exactly one post-arm SystemWillSleep -> SystemHasPoweredOn
\* pair" (observer_darwin.go): a Wait that succeeds was told, since the Arm of
\* its generation, of one sleep then one wake and of no cancelled or further
\* cycle, at most one question before them, every acknowledgement made; all of
\* it happened after that Arm, however the notifications of an earlier
\* registration were queued.  A WaitSleep saw the first half of that.
CycleIsReal ==
  answer.result = "ok" =>
    LET told == [i \in DOMAIN answer.log |-> answer.log[i].event.message]
        cycle == IF answer.sleepOnly THEN {<<"WillSleep">>, <<"WillSleep", "PoweredOn">>}
                 ELSE {<<"WillSleep", "PoweredOn">>}
    IN  /\ \E c \in cycle : told \in {c, <<"CanSleep">> \o c}
        /\ \A i \in DOMAIN answer.log :
             answer.log[i].acked /\ answer.log[i].event.since = answer.generation
=============================================================================
