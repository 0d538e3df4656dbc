-------------------------- MODULE DiagnosticsProofs --------------------------
(***************************************************************************)
(* Proofs about the diagnostics: every result of the scenario runner is    *)
(* earned, for any catalog, any selection and any number of cleanups and   *)
(* observations, and a power cycle that the observer reports is real, for  *)
(* any number of observers, generations and notifications.                 *)
(***************************************************************************)
EXTENDS PowerObserver, DiagnosticsRunner, TLAPS

\* Zenon proves the leaves, except for those that cite SMT.
USE Zenon

-----------------------------------------------------------------------------
(* The runner.                                                             *)

Steps == {"select", "run", "next", "callback", "snapshot", "cleanup", "copy", "validate", "done"}

\* A scenario is under way.
Busy == {"callback", "snapshot", "cleanup", "copy", "validate"}

Entries == [ran : BOOLEAN, returned : {"nil", "SKIP", "INCONCLUSIVE", "error"},
            timely : BOOLEAN, registered : Seq(Nat), attempted : Seq(Nat), failed : BOOLEAN,
            approved : Seq(Nat)]

Results == [status : {"PASS", "FAIL", "SKIP", "INCONCLUSIVE"}, failed : BOOLEAN, facts : Nat]

RunnerTyped ==
  /\ step \in Steps
  /\ scenarios \in Seq({scenarios[i] : i \in DOMAIN scenarios})
  /\ ids \in Seq({ids[i] : i \in DOMAIN ids})
  /\ at \in Nat /\ expired \in BOOLEAN
  /\ runCtx \in {"nil", "live", "cancelled"}
  /\ scope \in [cleanup : Seq(Nat), facts : Nat]
  /\ cleanup \in Seq(Nat)
  /\ result \in Results /\ entry \in Entries
  /\ results \in Seq(Results) /\ history \in Seq(Entries)

\* Select has put the requested scenario at every place, unless it has failed.
Picked ==
  \/ step = "select" \/ (step = "done" /\ results = << >>)
  \/ ids # << >> => \A i \in DOMAIN scenarios : i \in DOMAIN ids /\ scenarios[i].id = ids[i]

\* One result for each scenario so far; the one under way is not skipped.
Placed ==
  /\ step \in {"select", "run"} => results = << >> /\ at = 1
  /\ Len(results) = at - 1 /\ Len(history) = at - 1
  /\ at - 1 <= Len(scenarios) \/ (step \in {"select", "done"} /\ results = << >>)
  /\ step \in Busy => at <= Len(scenarios) /\ ~Skipped

\* What has been registered is still to be invoked or was invoked, in reverse order.
Unwinding(todo, e) ==
  /\ Len(e.registered) <= Len(todo) + Len(e.attempted)
  /\ \A k \in DOMAIN e.registered :
       IF k <= Len(todo) THEN todo[k] = e.registered[k]
       ELSE e.attempted[Len(todo) + Len(e.attempted) + 1 - k] = e.registered[k]

\* The status so far is what the callback and the cleanups deserve.
Deserved(r, e) ==
  /\ e.ran = TRUE /\ r.failed = e.failed
  /\ r.status = "PASS" => e.returned = "nil" /\ e.timely = TRUE

UnderWay ==
  /\ step = "callback" => entry = [NoEntry EXCEPT !.ran = TRUE] /\ result = NewResult
  /\ step = "snapshot" =>
       /\ Deserved(result, entry) /\ entry.failed = FALSE /\ entry.attempted = << >>
       /\ Unwinding(scope.cleanup, entry)
  /\ step = "cleanup" => Deserved(result, entry) /\ Unwinding(cleanup, entry)
  /\ step \in {"copy", "validate"} =>
       /\ Deserved(result, entry) /\ Undone(entry)
       /\ entry.failed = TRUE => result.status = "FAIL"

\* What ResultsAreEarned says of one result.
Earned(i, r, e) ==
  /\ i \in DOMAIN scenarios /\ (ids # << >> => scenarios[i].id = ids[i])
  /\ Undone(e)
  /\ e.failed => r.status = "FAIL"
  /\ r.status = "PASS" =>
       /\ e.ran /\ e.returned = "nil" /\ e.timely
       /\ scenarios[i].mode # "disabled" /\ scenarios[i].available
       /\ scenarios[i].validated => e.approved = <<r.facts>>

\* What a PASS of the scenario under way takes.
Passes(r, e) ==
  /\ e.ran = TRUE /\ e.returned = "nil" /\ e.timely = TRUE
  /\ ~Skipped /\ (scenario.validated => e.approved = <<r.facts>>)

RunnerInv == RunnerTyped /\ Picked /\ Placed /\ UnderWay /\ ResultsAreEarned

\* The records a scenario begins with.
LEMMA BlankRecords ==
  /\ NewResult \in Results /\ [NewResult EXCEPT !.status = "SKIP"] \in Results
  /\ NoEntry \in Entries /\ [NoEntry EXCEPT !.ran = TRUE] \in Entries
  /\ NoScope \in [cleanup : Seq(Nat), facts : Nat]
<1>1. NewResult \in Results /\ NoEntry \in Entries /\ NoScope \in [cleanup : Seq(Nat), facts : Nat]
  BY SMT DEF NewResult, Results, NoEntry, Entries, NoScope
<1>2. [NewResult EXCEPT !.status = "SKIP"] \in Results
  BY <1>1 DEF Results
<1>3. [NoEntry EXCEPT !.ran = TRUE] \in Entries
  BY <1>1 DEF Entries
<1> QED
  BY <1>1, <1>2, <1>3

\* Nothing has run yet.
LEMMA RunnerInitInv == RunnerInit => RunnerInv
<1> SUFFICES ASSUME RunnerInit PROVE RunnerInv
  OBVIOUS
<1>1. RunnerTyped
  <2>1. /\ scenarios \in Seq({scenarios[i] : i \in DOMAIN scenarios})
        /\ ids \in Seq({ids[i] : i \in DOMAIN ids})
    BY RunnerAssumption DEF RunnerInit
  <2>2. NewResult \in Results /\ NoEntry \in Entries /\ NoScope \in [cleanup : Seq(Nat), facts : Nat]
    BY BlankRecords
  <2>3. << >> \in Seq(Nat) /\ << >> \in Seq(Results) /\ << >> \in Seq(Entries)
    BY SMT
  <2>4. /\ step = "select" /\ at = 1 /\ expired = FALSE /\ runCtx \in {"nil", "live"}
        /\ scope = NoScope /\ cleanup = << >> /\ result = NewResult /\ results = << >>
        /\ entry = NoEntry /\ history = << >>
    BY DEF RunnerInit
  <2> QED
    BY <2>1, <2>2, <2>3, <2>4 DEF RunnerTyped, Steps
<1>2. Picked /\ UnderWay /\ ResultsAreEarned
  BY SMT DEF RunnerInit, Picked, UnderWay, ResultsAreEarned
<1>3. Placed
  BY SMT DEF RunnerInit, Placed, Busy
<1> QED
  BY <1>1, <1>2, <1>3 DEF RunnerInv

\* A report that does not grow stays earned.
LEMMA StaysEarned ==
  ASSUME ResultsAreEarned, UNCHANGED <<scenarios, ids, results, history>>
  PROVE  ResultsAreEarned'
BY SMT DEF ResultsAreEarned, Undone

\* Select resolves all ids or ends the run.
LEMMA SelectStep == RunnerInv /\ Select => RunnerInv'
<1> SUFFICES ASSUME RunnerInv, Select PROVE RunnerInv'
  OBVIOUS
<1>1. /\ RunnerTyped /\ Placed /\ step = "select" /\ results = << >> /\ at = 1
      /\ Len(results) = at - 1 /\ Len(history) = at - 1
      /\ UNCHANGED <<ids, runCtx, at, expired, scope, cleanup, result, results, entry, history>>
  BY DEF RunnerInv, Select, Placed
<1>2. ResultsAreEarned'
  BY <1>1, SMT DEF ResultsAreEarned
<1>3. UnderWay' /\ Len(scenarios') \in Nat /\ scenarios' \in Seq({scenarios'[i] : i \in DOMAIN scenarios'})
      /\ step' \in {"run", "done"} /\ Picked'
  <2>1. CASE ids = << >>
    BY <1>1, <2>1, SMT DEF Select, UnderWay, RunnerTyped, Picked
  <2>2. CASE /\ ids # << >> /\ step' = "run"
             /\ \A i \in DOMAIN ids : \E j \in DOMAIN scenarios : scenarios[j].id = ids[i]
             /\ scenarios' = [i \in DOMAIN ids |-> Find(ids[i])]
    <3>1. \A i \in DOMAIN ids : Find(ids[i]).id = ids[i]
      BY <2>2 DEF Find
    <3>2. DOMAIN ids = 1 .. Len(ids) /\ Len(ids) \in Nat
      BY <1>1, SMT DEF RunnerTyped
    <3>3. DOMAIN scenarios' = 1 .. Len(ids) /\ Len(scenarios') = Len(ids)
      BY <2>2, <3>2, SMT
    <3>4. scenarios' \in Seq({scenarios'[i] : i \in DOMAIN scenarios'})
      BY <2>2, <3>2, <3>3, SMT
    <3> QED
      BY <1>1, <2>2, <3>1, <3>2, <3>3, <3>4 DEF UnderWay, Picked
  <2>3. CASE step' = "done" /\ scenarios' = scenarios
    BY <1>1, <2>3, SMT DEF UnderWay, RunnerTyped, Picked
  <2> QED
    BY <2>1, <2>2, <2>3 DEF Select, finish
<1>4. RunnerTyped'
  BY <1>1, <1>3 DEF RunnerTyped, Steps
<1>5. Placed'
  BY <1>1, <1>3, SMT DEF Placed, Busy
<1> QED
  BY <1>2, <1>3, <1>4, <1>5 DEF RunnerInv

\* Run refuses what is not well formed.
LEMMA RunStep == RunnerInv /\ Run => RunnerInv'
<1> SUFFICES ASSUME RunnerInv, Run PROVE RunnerInv'
  OBVIOUS
<1>1. /\ step = "run" /\ step' \in {"done", "next"}
      /\ UNCHANGED <<scenarios, ids, runCtx, at, expired, scope, cleanup, result, results, entry, history>>
  BY DEF Run, finish
<1>2. ResultsAreEarned'
  BY <1>1, StaysEarned DEF RunnerInv
<1>3. RunnerTyped'
  BY <1>1 DEF RunnerInv, RunnerTyped, Steps
<1>4. Placed' /\ Picked' /\ UnderWay'
  BY <1>1 DEF RunnerInv, Placed, Picked, UnderWay, Busy
<1> QED
  BY <1>2, <1>3, <1>4 DEF RunnerInv

\* A result at the end of the report is earned if the new entry earns it.
LEMMA EarnsOneMore ==
  ASSUME RunnerTyped, Picked, Placed, ResultsAreEarned, NEW r \in Results, NEW e \in Entries,
         step \notin {"select", "run", "done"}, at <= Len(scenarios), Report(r, e),
         UNCHANGED <<scenarios, ids>>, Undone(e),
         e.failed = TRUE => r.status = "FAIL",
         r.status = "PASS" => Passes(r, e)
  PROVE  /\ ResultsAreEarned' /\ Len(results') = at' - 1 /\ Len(history') = at' - 1
         /\ at' \in Nat /\ at' - 1 <= Len(scenarios) /\ step' = "next"
         /\ results' \in Seq(Results) /\ history' \in Seq(Entries)
<1>1. /\ results \in Seq(Results) /\ history \in Seq(Entries) /\ at \in Nat
      /\ Len(results) = at - 1 /\ Len(history) = at - 1 /\ Len(scenarios) \in Nat
      /\ DOMAIN scenarios = 1 .. Len(scenarios)
  BY SMT DEF RunnerTyped, Placed
<1>2. /\ results' = Append(results, r) /\ history' = Append(history, e)
      /\ at' = at + 1 /\ step' = "next"
  BY DEF Report
<1>3. /\ results' \in Seq(Results) /\ history' \in Seq(Entries)
      /\ Len(results') = at /\ Len(history') = at /\ results'[at] = r /\ history'[at] = e
      /\ DOMAIN results' = 1 .. at /\ DOMAIN results = 1 .. (at - 1)
      /\ \A i \in 1 .. (at - 1) : results'[i] = results[i] /\ history'[i] = history[i]
  BY <1>1, <1>2, SMT
<1>4. at \in DOMAIN scenarios /\ (ids # << >> => scenarios[at].id = ids[at])
  BY <1>1, SMT DEF Picked
<1>5. ResultsAreEarned'
  <2>1. \A i \in DOMAIN results : Earned(i, results[i], history[i])
    BY DEF ResultsAreEarned, Earned
  <2>2. Earned(at, r, e)
    <3>1. e.failed => e.failed = TRUE
      BY DEF Entries
    <3> QED
      BY <1>4, <3>1 DEF Earned, Passes, Skipped, scenario
  <2>3. \A i \in DOMAIN results' : Earned(i, results'[i], history'[i])
    BY <1>1, <1>3, <2>1, <2>2, SMT
  <2> QED
    BY <2>3 DEF ResultsAreEarned, Earned, Undone
<1> QED
  BY <1>1, <1>2, <1>3, <1>5, SMT

\* The next scenario is skipped or begins, or the run is over.
LEMMA NextScenarioStep == RunnerInv /\ nextScenario => RunnerInv'
<1> SUFFICES ASSUME RunnerInv, nextScenario PROVE RunnerInv'
  OBVIOUS
<1>0. /\ RunnerTyped /\ Picked /\ Placed /\ ResultsAreEarned /\ step = "next"
      /\ UNCHANGED <<scenarios, ids, runCtx, cleanup>>
  BY DEF RunnerInv, nextScenario
<1>1. CASE step' = "done" /\ UNCHANGED <<at, expired, scope, helper, result, results, entry, history>>
  <2>1. ResultsAreEarned'
    BY <1>0, <1>1, StaysEarned
  <2>2. RunnerTyped'
    BY <1>0, <1>1 DEF RunnerTyped, Steps
  <2>3. Placed' /\ Picked' /\ UnderWay'
    BY <1>0, <1>1 DEF Placed, Picked, UnderWay, Busy
  <2> QED
    BY <2>1, <2>2, <2>3 DEF RunnerInv
<1>2. CASE /\ at <= Len(scenarios)
           /\ Report([NewResult EXCEPT !.status = "SKIP"], NoEntry)
           /\ UNCHANGED <<expired, scope, helper, result, runErr, entry>>
  <2> DEFINE r == [NewResult EXCEPT !.status = "SKIP"]
  <2>1. r \in Results /\ r.status = "SKIP" /\ NoEntry \in Entries
    BY BlankRecords DEF NewResult
  <2>2. Undone(NoEntry) /\ NoEntry.failed = FALSE
    BY SMT DEF NoEntry, Undone
  <2> HIDE DEF r
  <2>3. Report(r, NoEntry)
    BY <1>2 DEF r
  <2>4. /\ ResultsAreEarned' /\ Len(results') = at' - 1 /\ Len(history') = at' - 1
        /\ at' \in Nat /\ at' - 1 <= Len(scenarios) /\ step' = "next"
        /\ results' \in Seq(Results) /\ history' \in Seq(Entries)
    BY <1>0, <1>2, <2>1, <2>2, <2>3, EarnsOneMore
  <2>5. RunnerTyped'
    BY <1>0, <1>2, <2>4 DEF RunnerTyped, Steps
  <2>6. Placed' /\ Picked' /\ UnderWay'
    BY <1>0, <1>2, <2>4 DEF Placed, Picked, UnderWay, Busy
  <2> QED
    BY <2>4, <2>5, <2>6 DEF RunnerInv
<1>3. CASE /\ at <= Len(scenarios) /\ ~Skipped /\ step' = "callback"
           /\ expired' = FALSE /\ scope' = NoScope
           /\ result' = NewResult /\ entry' = [NoEntry EXCEPT !.ran = TRUE]
           /\ UNCHANGED <<at, results, history>>
  <2>1. ResultsAreEarned'
    BY <1>0, <1>3, StaysEarned
  <2>2. NewResult \in Results /\ entry' \in Entries /\ NoScope \in [cleanup : Seq(Nat), facts : Nat]
    BY <1>3, BlankRecords
  <2>3. RunnerTyped'
    BY <1>0, <1>3, <2>2 DEF RunnerTyped, Steps
  <2>4. Placed' /\ Picked' /\ UnderWay'
    BY <1>0, <1>3 DEF Placed, Picked, UnderWay, Busy, Skipped, scenario
  <2> QED
    BY <2>1, <2>3, <2>4 DEF RunnerInv
<1> QED
  BY <1>1, <1>2, <1>3 DEF nextScenario, finish


\* A cleanup registered later does not disturb those registered before.
LEMMA UnwindingGrows ==
  ASSUME NEW todo \in Seq(Nat), NEW e \in Entries, e.attempted = << >>, Unwinding(todo, e),
         NEW x \in Nat
  PROVE  Unwinding(Append(todo, x), e)
<1>1. /\ Len(e.registered) <= Len(todo) /\ Len(todo) \in Nat /\ e.registered \in Seq(Nat)
      /\ \A k \in DOMAIN e.registered : k <= Len(todo) /\ todo[k] = e.registered[k]
  <2>1. e.registered \in Seq(Nat) /\ Len(e.attempted) = 0
    BY DEF Entries
  <2> QED
    BY <2>1, SMT DEF Unwinding
<1>2. /\ Len(Append(todo, x)) = Len(todo) + 1
      /\ \A k \in 1 .. Len(todo) : Append(todo, x)[k] = todo[k]
  BY SMT
<1>3. Len(e.attempted) = 0
  BY SMT
<1>4. \A k \in DOMAIN e.registered : k <= Len(todo) + 1 /\ Append(todo, x)[k] = e.registered[k]
  BY <1>1, <1>2, SMT
<1> QED
  BY <1>1, <1>2, <1>3, <1>4, SMTT(30) DEF Unwinding

\* The scope grows, at the hands of the callback, a cleanup or a late helper.
LEMMA ScopeStep == RunnerInv /\ (Observe \/ Defer) => RunnerInv'
<1> SUFFICES ASSUME RunnerInv, Observe \/ Defer PROVE RunnerInv'
  OBVIOUS
<1>0. /\ RunnerTyped /\ Picked /\ Placed /\ UnderWay /\ ResultsAreEarned
      /\ UNCHANGED <<scenarios, ids, runCtx, step, at, expired, cleanup, result, results, entry, history>>
  BY DEF RunnerInv, Observe, Defer
<1>1. /\ scope' \in [cleanup : Seq(Nat), facts : Nat]
      /\ scope'.cleanup = scope.cleanup \/ \E x \in Nat : scope'.cleanup = Append(scope.cleanup, x)
  <2>1. scope.cleanup \in Seq(Nat) /\ scope.facts \in Nat /\ scope \in [cleanup : Seq(Nat), facts : Nat]
    BY <1>0 DEF RunnerTyped
  <2>2. CASE Observe
    BY <2>1, <2>2, SMT DEF Observe
  <2>3. CASE Defer
    <3>1. scope' = [scope EXCEPT !.cleanup = Append(scope.cleanup, Len(scope.cleanup) + 1)]
      BY <2>3 DEF Defer
    <3>2. Len(scope.cleanup) + 1 \in Nat
      BY <2>1, SMT
    <3>3. Append(scope.cleanup, Len(scope.cleanup) + 1) \in Seq(Nat)
      BY <2>1, <3>2, SMT
    <3> QED
      BY <2>1, <3>1, <3>2, <3>3
  <2> QED
    BY <2>2, <2>3
<1>2. ResultsAreEarned'
  BY <1>0, StaysEarned
<1>3. RunnerTyped'
  BY <1>0, <1>1 DEF RunnerTyped
<1>4. Placed' /\ Picked'
  BY <1>0 DEF Placed, Picked, Skipped, scenario
<1>5. step = "snapshot" => Unwinding(scope'.cleanup, entry)
  <2>1. scope.cleanup \in Seq(Nat) /\ entry \in Entries
    BY <1>0 DEF RunnerTyped
  <2>2. step = "snapshot" => entry.attempted = << >> /\ Unwinding(scope.cleanup, entry)
    BY <1>0 DEF UnderWay
  <2> QED
    BY <1>1, <2>1, <2>2, UnwindingGrows
<1>6. UnderWay'
  BY <1>0, <1>5 DEF UnderWay, Deserved, Unwinding, Undone
<1> QED
  BY <1>2, <1>3, <1>4, <1>6 DEF RunnerInv

\* Helpers start, contexts end.
LEMMA QuietStep ==
  RunnerInv /\ (StartHelper \/ Timeout \/ Cancel \/ Reported \/ UNCHANGED runnerVars) => RunnerInv'
<1> SUFFICES ASSUME RunnerInv, StartHelper \/ Timeout \/ Cancel \/ Reported \/ UNCHANGED runnerVars
             PROVE  RunnerInv'
  OBVIOUS
<1>0. /\ RunnerTyped /\ Picked /\ Placed /\ UnderWay /\ ResultsAreEarned
      /\ UNCHANGED <<scenarios, ids, step, at, scope, cleanup, result, results, entry, history>>
      /\ expired' = expired \/ expired' = TRUE
      /\ runCtx' = runCtx \/ runCtx' = "cancelled"
  BY DEF RunnerInv, StartHelper, Timeout, Cancel, Reported, runnerVars
<1>1. ResultsAreEarned'
  BY <1>0, StaysEarned
<1>2. RunnerTyped'
  <2>1. expired' \in BOOLEAN
    BY <1>0 DEF RunnerTyped
  <2> QED
    BY <1>0, <2>1 DEF RunnerTyped
<1>3. Placed' /\ Picked'
  BY <1>0 DEF Placed, Picked, Skipped, scenario
<1>4. UnderWay'
  BY <1>0 DEF UnderWay, Deserved, Unwinding, Undone
<1> QED
  BY <1>1, <1>2, <1>3, <1>4 DEF RunnerInv

\* The callback returns: what it has registered is to be undone.
LEMMA CallbackStep == RunnerInv /\ callbackReturns => RunnerInv'
<1> SUFFICES ASSUME RunnerInv, callbackReturns PROVE RunnerInv'
  OBVIOUS
<1>0. /\ RunnerTyped /\ Picked /\ Placed /\ UnderWay /\ ResultsAreEarned
      /\ step = "callback" /\ step' = "snapshot"
      /\ UNCHANGED <<scenarios, ids, runCtx, at, expired, scope, cleanup, results, history>>
  BY DEF RunnerInv, callbackReturns
<1>1. PICK err \in {"nil", "SKIP", "INCONCLUSIVE", "error"} :
         /\ result' = [result EXCEPT !.status = StatusOf(err)]
         /\ entry' = [entry EXCEPT !.returned = err, !.timely = InTime, !.registered = scope.cleanup]
  BY DEF callbackReturns
<1>2. /\ StatusOf(err) \in {"PASS", "FAIL", "SKIP", "INCONCLUSIVE"}
      /\ StatusOf(err) = "PASS" => err = "nil" /\ InTime
  BY DEF StatusOf
<1>3. InTime \in BOOLEAN
  BY DEF InTime
<1>4. /\ result \in Results /\ entry \in Entries
      /\ entry.ran = TRUE /\ entry.failed = FALSE /\ entry.attempted = << >>
      /\ scope.cleanup \in Seq(Nat) /\ result.failed = FALSE
  <2>1. entry = [NoEntry EXCEPT !.ran = TRUE] /\ result = NewResult
    BY <1>0 DEF UnderWay
  <2>2. result \in Results /\ entry \in Entries /\ scope.cleanup \in Seq(Nat)
    BY <1>0 DEF RunnerTyped
  <2>3. entry.ran = TRUE /\ entry.failed = FALSE /\ entry.attempted = << >>
    BY <2>1 DEF NoEntry
  <2>4. result.failed = FALSE
    BY <2>1 DEF NewResult
  <2> QED
    BY <2>2, <2>3, <2>4
<1>5. result' \in Results /\ result'.status = StatusOf(err) /\ result'.failed = FALSE
  BY <1>1, <1>2, <1>4 DEF Results
<1>6. /\ entry' \in Entries /\ entry'.returned = err /\ entry'.timely = InTime
      /\ entry'.registered = scope.cleanup /\ entry'.ran = TRUE /\ entry'.failed = FALSE
      /\ entry'.attempted = << >>
  BY <1>1, <1>3, <1>4 DEF Entries
<1>7. Deserved(result', entry')
  <2>1. InTime => entry'.timely = TRUE
    BY <1>3, <1>6
  <2> QED
    BY <1>2, <1>5, <1>6, <2>1 DEF Deserved
<1>8. Unwinding(scope.cleanup, entry')
  BY <1>4, <1>6, SMT DEF Unwinding
<1>9. UnderWay'
  BY <1>0, <1>6, <1>7, <1>8 DEF UnderWay, Deserved, Unwinding
<1>10. ResultsAreEarned'
  BY <1>0, StaysEarned
<1>11. RunnerTyped'
  BY <1>0, <1>5, <1>6, SMT DEF RunnerTyped, Steps
<1>12. Placed' /\ Picked'
  BY <1>0 DEF Placed, Picked, Skipped, scenario, Busy
<1> QED
  BY <1>9, <1>10, <1>11, <1>12 DEF RunnerInv


\* The list of cleanups is taken once; what is registered later is not invoked.
LEMMA SnapshotStep == RunnerInv /\ snapshotCleanup => RunnerInv'
<1> SUFFICES ASSUME RunnerInv, snapshotCleanup PROVE RunnerInv'
  OBVIOUS
<1>0. /\ RunnerTyped /\ Picked /\ Placed /\ UnderWay /\ ResultsAreEarned
      /\ step = "snapshot" /\ step' = "cleanup" /\ cleanup' = scope.cleanup
      /\ UNCHANGED <<scenarios, ids, runCtx, at, expired, scope, result, results, entry, history>>
  BY DEF RunnerInv, snapshotCleanup
<1>1. ResultsAreEarned'
  BY <1>0, StaysEarned
<1>2. RunnerTyped'
  <2>1. scope.cleanup \in Seq(Nat)
    BY <1>0 DEF RunnerTyped
  <2> QED
    BY <1>0, <2>1 DEF RunnerTyped, Steps
<1>3. Placed' /\ Picked'
  BY <1>0 DEF Placed, Picked, Skipped, scenario, Busy
<1>4. UnderWay'
  BY <1>0 DEF UnderWay, Deserved, Unwinding
<1> QED
  BY <1>1, <1>2, <1>3, <1>4 DEF RunnerInv

\* The last of the cleanups left is invoked, and counts as attempted.
LEMMA UnwindingGoesOn ==
  ASSUME NEW todo \in Seq(Nat), todo # << >>, NEW e \in Entries, NEW f \in Entries,
         Unwinding(todo, e), f.registered = e.registered,
         f.attempted = Append(e.attempted, todo[Len(todo)])
  PROVE  /\ SubSeq(todo, 1, Len(todo) - 1) \in Seq(Nat)
         /\ Unwinding(SubSeq(todo, 1, Len(todo) - 1), f)
<1> DEFINE rest == SubSeq(todo, 1, Len(todo) - 1)
<1>1. PICK n \in Nat, m \in Nat : n = Len(todo) /\ m = Len(e.attempted)
  BY SMT DEF Entries
<1>2. e.registered \in Seq(Nat) /\ e.attempted \in Seq(Nat) /\ n >= 1 /\ todo[n] \in Nat
  BY <1>1, SMT DEF Entries
<1>3. n - 1 \in Nat /\ rest \in Seq(Nat) /\ Len(rest) = n - 1
  BY <1>1, <1>2, SMT
<1>4. \A k \in 1 .. (n - 1) : rest[k] = todo[k]
  BY <1>1, <1>2, SMT
<1>5. /\ Len(f.attempted) = m + 1 /\ f.attempted[m + 1] = todo[n]
      /\ \A k \in 1 .. m : f.attempted[k] = e.attempted[k]
  BY <1>1, <1>2, SMT
<1>6. Len(e.registered) <= n + m
  BY <1>1 DEF Unwinding
<1>7. \A k \in DOMAIN e.registered : k \in Nat /\ k >= 1 /\ k <= n + m
  BY <1>1, <1>2, <1>6, SMTT(30)
<1>8. \A k \in DOMAIN e.registered :
        IF k <= n THEN todo[k] = e.registered[k]
        ELSE e.attempted[n + m + 1 - k] = e.registered[k]
  BY <1>1 DEF Unwinding
<1> HIDE DEF rest
<1>9. ASSUME NEW k \in DOMAIN e.registered
      PROVE  IF k <= n - 1 THEN rest[k] = e.registered[k]
             ELSE f.attempted[n + m + 1 - k] = e.registered[k]
  <2>1. k \in Nat /\ k >= 1 /\ k <= n + m
    BY <1>7
  <2>2. CASE k <= n - 1
    <3>1. k \in 1 .. (n - 1) /\ k <= n
      BY <2>1, <2>2, SMT
    <3> QED
      BY <1>4, <1>8, <2>2, <3>1
  <2>3. CASE k = n
    <3>1. ~(k <= n - 1) /\ n + m + 1 - k = m + 1 /\ k <= n
      BY <2>3, SMT
    <3> QED
      BY <1>5, <1>8, <2>3, <3>1
  <2>4. CASE k > n
    <3>1. n + m + 1 - k \in 1 .. m /\ ~(k <= n) /\ ~(k <= n - 1)
      BY <2>1, <2>4, SMTT(30)
    <3> QED
      BY <1>5, <1>8, <3>1
  <2>5. k <= n - 1 \/ k = n \/ k > n
    BY <2>1, SMT
  <2> QED
    BY <2>2, <2>3, <2>4, <2>5
<1>10. Len(rest) + Len(f.attempted) = n + m
  BY <1>3, <1>5, SMT
<1>11. Unwinding(rest, f)
  BY <1>3, <1>6, <1>9, <1>10 DEF Unwinding
<1> QED
  BY <1>3, <1>11 DEF rest

\* A cleanup is invoked, and fails or not.
LEMMA CleanupStep == RunnerInv /\ invokeCleanup => RunnerInv'
<1> SUFFICES ASSUME RunnerInv, invokeCleanup PROVE RunnerInv'
  OBVIOUS
<1>0. /\ RunnerTyped /\ Picked /\ Placed /\ UnderWay /\ ResultsAreEarned
      /\ step = "cleanup" /\ step' = step /\ cleanup # << >>
      /\ cleanup' = SubSeq(cleanup, 1, Len(cleanup) - 1)
      /\ UNCHANGED <<scenarios, ids, runCtx, at, expired, scope, results, history>>
  BY DEF RunnerInv, invokeCleanup
<1>1. PICK fails \in BOOLEAN :
         /\ result' = [result EXCEPT !.failed = @ \/ fails]
         /\ entry' = [entry EXCEPT !.failed = @ \/ fails,
                                   !.attempted = Append(@, cleanup[Len(cleanup)])]
  BY DEF invokeCleanup
<1>2. /\ result \in Results /\ entry \in Entries /\ cleanup \in Seq(Nat)
      /\ Deserved(result, entry) /\ Unwinding(cleanup, entry)
  BY <1>0 DEF RunnerTyped, UnderWay
<1>3. PICK failed \in BOOLEAN : failed = (result.failed \/ fails) /\ failed = (entry.failed \/ fails)
  BY <1>2 DEF Deserved
<1>4. result' \in Results /\ result'.failed = failed /\ result'.status = result.status
  BY <1>1, <1>2, <1>3 DEF Results
<1>5. entry.attempted \in Seq(Nat) /\ cleanup[Len(cleanup)] \in Nat
  BY <1>0, <1>2, SMT DEF Entries
<1>6. Append(entry.attempted, cleanup[Len(cleanup)]) \in Seq(Nat)
  BY <1>5, SMT
<1>7. /\ entry' \in Entries /\ entry'.failed = failed /\ entry'.registered = entry.registered
      /\ entry'.attempted = Append(entry.attempted, cleanup[Len(cleanup)])
      /\ entry'.ran = entry.ran /\ entry'.returned = entry.returned /\ entry'.timely = entry.timely
  BY <1>1, <1>2, <1>3, <1>6 DEF Entries
<1>8. cleanup' \in Seq(Nat) /\ Unwinding(cleanup', entry')
  BY <1>0, <1>2, <1>7, UnwindingGoesOn
<1>9. Deserved(result', entry')
  BY <1>2, <1>4, <1>7 DEF Deserved
<1>10. UnderWay'
  BY <1>0, <1>8, <1>9 DEF UnderWay, Deserved, Unwinding
<1>11. ResultsAreEarned'
  BY <1>0, StaysEarned
<1>12. RunnerTyped'
  BY <1>0, <1>4, <1>7, <1>8 DEF RunnerTyped
<1>13. Placed' /\ Picked'
  BY <1>0 DEF Placed, Picked, Skipped, scenario, Busy
<1> QED
  BY <1>10, <1>11, <1>12, <1>13 DEF RunnerInv

\* The cleanups are over: a failure or a late end makes the result FAIL.
LEMMA EndCleanupStep == RunnerInv /\ endCleanup => RunnerInv'
<1> SUFFICES ASSUME RunnerInv, endCleanup PROVE RunnerInv'
  OBVIOUS
<1>0. /\ RunnerTyped /\ Picked /\ Placed /\ UnderWay /\ ResultsAreEarned
      /\ step = "cleanup" /\ step' = "copy" /\ cleanup = << >>
      /\ UNCHANGED <<scenarios, ids, runCtx, at, expired, scope, cleanup, results, history>>
  BY DEF RunnerInv, endCleanup
<1>1. PICK late \in BOOLEAN :
         /\ result' = [result EXCEPT !.failed = @ \/ late,
                                     !.status = IF result.failed \/ late THEN "FAIL" ELSE @]
         /\ entry' = [entry EXCEPT !.failed = @ \/ late]
  BY DEF endCleanup
<1>2. /\ result \in Results /\ entry \in Entries
      /\ Deserved(result, entry) /\ Unwinding(cleanup, entry)
  BY <1>0 DEF RunnerTyped, UnderWay
<1>3. PICK failed \in BOOLEAN : failed = (result.failed \/ late) /\ failed = (entry.failed \/ late)
  BY <1>2 DEF Deserved
<1>4. /\ result' \in Results /\ result'.failed = failed
      /\ failed = TRUE => result'.status = "FAIL"
      /\ failed = FALSE => result'.status = result.status
  <2>1. result' = [result EXCEPT !.failed = failed, !.status = IF failed THEN "FAIL" ELSE @]
    BY <1>1, <1>3
  <2> QED
    BY <1>2, <1>3, <2>1 DEF Results
<1>5. /\ entry' \in Entries /\ entry'.failed = failed /\ entry'.registered = entry.registered
      /\ entry'.attempted = entry.attempted
      /\ entry'.ran = entry.ran /\ entry'.returned = entry.returned /\ entry'.timely = entry.timely
  BY <1>1, <1>2, <1>3 DEF Entries
<1>6. Undone(entry')
  <2>1. entry.registered \in Seq(Nat) /\ entry.attempted \in Seq(Nat) /\ Len(cleanup) = 0
    BY <1>0, <1>2 DEF Entries
  <2> QED
    BY <1>2, <1>5, <2>1, SMT DEF Undone, Unwinding
<1>7. Deserved(result', entry')
  BY <1>2, <1>3, <1>4, <1>5 DEF Deserved
<1>8. UnderWay'
  BY <1>0, <1>4, <1>5, <1>6, <1>7 DEF UnderWay, Deserved, Undone
<1>9. ResultsAreEarned'
  BY <1>0, StaysEarned
<1>10. RunnerTyped'
  BY <1>0, <1>4, <1>5 DEF RunnerTyped, Steps
<1>11. Placed' /\ Picked'
  BY <1>0 DEF Placed, Picked, Skipped, scenario, Busy
<1> QED
  BY <1>8, <1>9, <1>10, <1>11 DEF RunnerInv


\* The evidence in the report is that of the scope at this moment.
LEMMA CopyStep == RunnerInv /\ copyEvidence => RunnerInv'
<1> SUFFICES ASSUME RunnerInv, copyEvidence PROVE RunnerInv'
  OBVIOUS
<1>0. /\ RunnerTyped /\ Picked /\ Placed /\ UnderWay /\ ResultsAreEarned
      /\ step = "copy" /\ step' = "validate" /\ result' = [result EXCEPT !.facts = scope.facts]
      /\ UNCHANGED <<scenarios, ids, runCtx, at, expired, scope, cleanup, results, entry, history>>
  BY DEF RunnerInv, copyEvidence
<1>1. result \in Results /\ scope.facts \in Nat
  BY <1>0 DEF RunnerTyped
<1>2. result' \in Results /\ result'.status = result.status /\ result'.failed = result.failed
  BY <1>0, <1>1 DEF Results
<1>3. ResultsAreEarned'
  BY <1>0, StaysEarned
<1>4. RunnerTyped'
  BY <1>0, <1>2 DEF RunnerTyped, Steps
<1>5. Placed' /\ Picked'
  BY <1>0 DEF Placed, Picked, Skipped, scenario, Busy
<1>6. UnderWay'
  BY <1>0, <1>2 DEF UnderWay, Deserved, Undone
<1> QED
  BY <1>3, <1>4, <1>5, <1>6 DEF RunnerInv

\* A PASS with a validator is reported only with the evidence the validator has seen.
LEMMA ValidateStep == RunnerInv /\ validate => RunnerInv'
<1> SUFFICES ASSUME RunnerInv, validate PROVE RunnerInv'
  OBVIOUS
<1>0. /\ RunnerTyped /\ Picked /\ Placed /\ UnderWay /\ ResultsAreEarned /\ step = "validate"
      /\ UNCHANGED <<scenarios, ids, runCtx, expired, scope, cleanup, result, entry>>
  BY DEF RunnerInv, validate
<1>1. /\ result \in Results /\ entry \in Entries /\ Deserved(result, entry) /\ Undone(entry)
      /\ entry.failed = TRUE => result.status = "FAIL"
  BY <1>0 DEF RunnerTyped, UnderWay
<1>2. at <= Len(scenarios) /\ ~Skipped /\ step \notin {"select", "run", "done"}
  BY <1>0 DEF Placed, Busy
<1>3. /\ ResultsAreEarned' /\ Len(results') = at' - 1 /\ Len(history') = at' - 1
      /\ at' \in Nat /\ at' - 1 <= Len(scenarios) /\ step' = "next"
      /\ results' \in Seq(Results) /\ history' \in Seq(Entries)
  <2>1. CASE result.status = "PASS" /\ Report(result, [entry EXCEPT !.approved = <<result.facts>>])
    <3> DEFINE e == [entry EXCEPT !.approved = <<result.facts>>]
    <3>0. <<result.facts>> \in Seq(Nat)
      BY <1>1, SMT DEF Results
    <3>1. /\ e \in Entries
          /\ e.approved = <<result.facts>> /\ e.ran = entry.ran /\ e.failed = entry.failed
          /\ e.returned = entry.returned /\ e.timely = entry.timely
          /\ e.registered = entry.registered /\ e.attempted = entry.attempted
      BY <1>1, <3>0 DEF Entries
    <3>3. Report(result, e)
      BY <2>1
    <3> HIDE DEF e
    <3>2. Undone(e)
      BY <1>1, <3>1 DEF Undone
    <3>4. e.ran = TRUE /\ e.returned = "nil" /\ e.timely = TRUE
      BY <1>1, <2>1, <3>1 DEF Deserved
    <3>5. e.failed = TRUE => result.status = "FAIL"
      BY <1>1, <3>1
    <3>6. Passes(result, e)
      BY <1>2, <3>1, <3>4 DEF Passes
    <3> QED
      BY <1>0, <1>1, <1>2, <3>1, <3>2, <3>3, <3>5, <3>6, EarnsOneMore
  <2>2. CASE Report([result EXCEPT !.status = "FAIL"], entry)
    <3> DEFINE r == [result EXCEPT !.status = "FAIL"]
    <3>1. r \in Results /\ r.status = "FAIL"
      BY <1>1 DEF Results
    <3>2. Report(r, entry)
      BY <2>2
    <3> HIDE DEF r
    <3> QED
      BY <1>0, <1>1, <1>2, <3>1, <3>2, EarnsOneMore
  <2>3. CASE ~(result.status = "PASS" /\ scenario.validated) /\ Report(result, entry)
    <3>1. result.status = "PASS" => Passes(result, entry)
      BY <1>1, <1>2, <2>3 DEF Deserved, Passes
    <3> QED
      BY <1>0, <1>1, <1>2, <2>3, <3>1, EarnsOneMore
  <2> QED
    BY <2>1, <2>2, <2>3 DEF validate
<1>4. RunnerTyped'
  BY <1>0, <1>3 DEF RunnerTyped, Steps
<1>5. Placed' /\ Picked' /\ UnderWay'
  BY <1>0, <1>3 DEF Placed, Picked, UnderWay, Busy
<1> QED
  BY <1>3, <1>4, <1>5 DEF RunnerInv

\* Every step of the runner, and a stuttering one, keeps the invariant.
LEMMA RunnerNextInv == RunnerInv /\ [RunnerNext]_runnerVars => RunnerInv'
<1> SUFFICES ASSUME RunnerInv, [RunnerNext]_runnerVars PROVE RunnerInv'
  OBVIOUS
<1>1. CASE UNCHANGED runnerVars
  <2>1. UNCHANGED <<scenarios, ids, runCtx, step, at, expired, scope, cleanup, result, results,
                    entry, history>>
    BY <1>1 DEF runnerVars
  <2>2. ResultsAreEarned'
    BY <2>1, StaysEarned DEF RunnerInv
  <2>3. RunnerTyped'
    BY <2>1 DEF RunnerInv, RunnerTyped
  <2>4. Picked' /\ Placed'
    BY <2>1 DEF RunnerInv, Picked, Placed, Skipped, scenario, Busy
  <2>5. UnderWay'
    BY <2>1 DEF RunnerInv, UnderWay, Deserved, Unwinding, Undone
  <2> QED
    BY <2>2, <2>3, <2>4, <2>5 DEF RunnerInv
<1>2. CASE RunnerNext
  BY <1>1, <1>2, SelectStep, RunStep, NextScenarioStep, ScopeStep, QuietStep, CallbackStep,
     SnapshotStep, CleanupStep, EndCleanupStep, CopyStep, ValidateStep
  DEF RunnerNext, Reported
<1> QED
  BY <1>1, <1>2

\* The invariant of the runner: the types, that the scenario under way is the one
\* selected and not skipped, that the cleanups registered are those left and those
\* attempted, and that the status so far is deserved.
THEOREM RunnerInvariant == RunnerSpec => []RunnerInv
BY RunnerInitInv, RunnerNextInv, PTL DEF RunnerSpec

\* Every result of Runner.Run is earned: in any catalog, with any selection, however
\* many cleanups and facts there are and whatever helpers do late (Run, runScenario, Scope).
THEOREM ResultsAreEarnedHolds == RunnerSpec => []ResultsAreEarned
<1>1. RunnerInv => ResultsAreEarned
  BY DEF RunnerInv
<1> QED
  BY <1>1, RunnerInvariant, PTL


-----------------------------------------------------------------------------
(* The power observer.                                                     *)

Snapshots ==
  [ready : BOOLEAN, armed : BOOLEAN, generation : Nat, sequence : Nat,
   can : Nat, sleep : Nat, wake : Nat, canceled : Nat, disorder : Nat, extra : Nat,
   stale : Nat, ackErrors : Nat, sleepAt : Nat, wakeAt : Nat, matched : BOOLEAN,
   native : BOOLEAN, unreleased : BOOLEAN, closed : BOOLEAN]

Notifications == [message : Messages, since : Nat]

PowerTyped ==
  /\ snapshot \in Snapshots
  /\ registration \in [live : BOOLEAN, generation : Nat, queued : Seq(Notifications)]
  /\ log \in Seq([event : Notifications, acked : BOOLEAN])
  /\ thread \in {"none", "starting", "loop", "arming", "ending", "exited"}

\* A registration is there only while its thread is, and is rotated with the snapshot.
Registered ==
  /\ thread \in {"none", "starting", "exited"} => registration = Unregistered
  /\ caller = "none" => thread = "none"
  /\ thread = "starting" => snapshot.armed = FALSE /\ log = << >>
  /\ \A i \in DOMAIN registration.queued :
       registration.queued[i].since = snapshot.generation
  /\ snapshot.generation > 0 => snapshot.armed = TRUE \/ snapshot.closed = TRUE

Clean(s) == s.native = FALSE /\ s.disorder + s.extra + s.stale + s.canceled = 0

\* The messages of a clean log, with what the snapshot has counted of them.
Shape(s, told) ==
  \/ told = << >> /\ s.can = 0 /\ s.sleep = 0 /\ s.wake = 0
  \/ told = <<"CanSleep">> /\ s.can = 1 /\ s.sleep = 0 /\ s.wake = 0
  \/ told \in {<<"WillSleep">>, <<"CanSleep", "WillSleep">>} /\ s.sleep = 1 /\ s.wake = 0
  \/ /\ told \in {<<"WillSleep", "PoweredOn">>, <<"CanSleep", "WillSleep", "PoweredOn">>}
     /\ s.sleep = 1 /\ s.wake = 1

Told(l) == [i \in DOMAIN l |-> l[i].event.message]

\* As long as nothing has spoilt the observation, the log is the beginning of a cycle.
Followed(s, l) ==
  s.armed = TRUE /\ Clean(s) =>
    /\ Shape(s, Told(l))
    /\ s.sleep = 1 <=> s.sleepAt > 0
    /\ \A i \in DOMAIN l : l[i].acked = TRUE /\ l[i].event.since = s.generation

PowerInv ==
  /\ PowerTyped /\ Registered /\ Followed(snapshot, log) /\ CycleIsReal
  /\ snapshot.armed = TRUE /\ Clean(snapshot) /\ snapshot.matched = TRUE =>
       snapshot.sleep = 1 /\ snapshot.wake = 1

\* An observer that is not there.
LEMMA PowerInitInv == PowerInit => PowerInv
<1> SUFFICES ASSUME PowerInit PROVE PowerInv
  OBVIOUS
<1>1. snapshot = Fresh(0) /\ snapshot \in Snapshots /\ snapshot.armed = FALSE /\ snapshot.generation = 0
  BY DEF PowerInit, Fresh, Snapshots
<1>2. registration = Unregistered /\ registration.queued = << >>
      /\ registration \in [live : BOOLEAN, generation : Nat, queued : Seq(Notifications)]
  BY SMT DEF PowerInit, Unregistered
<1>3. log = << >> /\ thread = "none" /\ answer.result = "none"
  BY DEF PowerInit, NoAnswer
<1>4. PowerTyped
  BY <1>1, <1>2, <1>3, SMT DEF PowerTyped
<1>5. Registered
  BY <1>1, <1>2, <1>3, SMT DEF Registered
<1>6. Followed(snapshot, log) /\ CycleIsReal
  BY <1>1, <1>3 DEF Followed, CycleIsReal
<1> QED
  BY <1>1, <1>4, <1>5, <1>6 DEF PowerInv

\* Nothing is queued, registered or answered anew: the invariant stays.
LEMMA PowerStutters ==
  ASSUME PowerInv, UNCHANGED <<registration, snapshot, log, answer, thread, caller>>
  PROVE  PowerInv'
<1>1. PowerTyped' /\ Registered'
  BY DEF PowerInv, PowerTyped, Registered
<1>2. Followed(snapshot, log)'
  BY DEF PowerInv, Followed, Clean, Shape, Told
<1>3. CycleIsReal'
  BY DEF PowerInv, CycleIsReal
<1>4. (snapshot.armed = TRUE /\ Clean(snapshot) /\ snapshot.matched = TRUE =>
        snapshot.sleep = 1 /\ snapshot.wake = 1)'
  BY DEF PowerInv, Clean
<1> QED
  BY <1>1, <1>2, <1>3, <1>4 DEF PowerInv

\* The parts of the invariant that hold of an observer that is not armed.
LEMMA Disarmed ==
  ASSUME snapshot.armed = FALSE
  PROVE  /\ Followed(snapshot, log)
         /\ snapshot.armed = TRUE /\ Clean(snapshot) /\ snapshot.matched = TRUE =>
              snapshot.sleep = 1 /\ snapshot.wake = 1
BY DEF Followed

\* One message more.
LEMMA ToldOneMore ==
  ASSUME NEW R, \A y \in R : y.event.message \in Messages, NEW l \in Seq(R), NEW x \in R
  PROVE  Told(Append(l, x)) = Append(Told(l), x.event.message)
<1>1. Len(l) \in Nat /\ DOMAIN l = 1 .. Len(l) /\ DOMAIN Append(l, x) = 1 .. (Len(l) + 1)
  BY SMT
<1>2. \A i \in 1 .. Len(l) : Append(l, x)[i] = l[i]
  BY SMT
<1>3. Append(l, x)[Len(l) + 1] = x
  BY SMT
<1>4. /\ Told(l) \in Seq(Messages) /\ Len(Told(l)) = Len(l)
      /\ \A i \in 1 .. Len(l) : Told(l)[i] = l[i].event.message
  <2>1. \A i \in 1 .. Len(l) : l[i].event.message \in Messages
    BY <1>1, SMT
  <2>2. Told(l) = [i \in 1 .. Len(l) |-> l[i].event.message]
    BY <1>1 DEF Told
  <2>3. Told(l) \in [1 .. Len(l) -> Messages]
    BY <2>1, <2>2
  <2> QED
    BY <1>1, <2>2, <2>3, SMT
<1>5. /\ DOMAIN Told(Append(l, x)) = 1 .. (Len(l) + 1)
      /\ \A i \in 1 .. (Len(l) + 1) : Told(Append(l, x))[i] = Append(l, x)[i].event.message
  BY <1>1 DEF Told
<1>6. x.event.message \in Messages
  OBVIOUS
<1> DEFINE longer == Append(Told(l), x.event.message)
<1>7. /\ DOMAIN longer = 1 .. (Len(l) + 1)
      /\ longer[Len(l) + 1] = x.event.message
      /\ \A i \in 1 .. Len(l) : longer[i] = l[i].event.message
  BY <1>1, <1>4, <1>6, SMT
<1>8. Told(Append(l, x)) = [i \in 1 .. (Len(l) + 1) |-> Append(l, x)[i].event.message]
  BY <1>1 DEF Told
<1>9. longer = [i \in 1 .. (Len(l) + 1) |-> longer[i]]
  BY <1>4, <1>6, <1>7, SMT
<1> HIDE DEF longer
<1>10. \A i \in 1 .. (Len(l) + 1) : longer[i] = Append(l, x)[i].event.message
  BY <1>1, <1>2, <1>3, <1>7, SMT
<1>11. [i \in 1 .. (Len(l) + 1) |-> longer[i]] = [i \in 1 .. (Len(l) + 1) |-> Append(l, x)[i].event.message]
  BY <1>10
<1> QED
  BY <1>8, <1>9, <1>11 DEF longer

\* Sequences with the same elements are equal.
LEMMA SameSequence ==
  ASSUME NEW s \in Seq(Messages), NEW t \in Seq(Messages), Len(s) = Len(t),
         \A i \in 1 .. Len(s) : s[i] = t[i]
  PROVE  s = t
<1>1. s = [i \in 1 .. Len(s) |-> s[i]] /\ t = [i \in 1 .. Len(s) |-> t[i]]
  BY SMT
<1>2. [i \in 1 .. Len(s) |-> s[i]] = [i \in 1 .. Len(s) |-> t[i]]
  OBVIOUS
<1> QED
  BY <1>1, <1>2

\* A sequence is the tuple of its elements.
LEMMA ShortTuples ==
  ASSUME NEW s \in Seq(Messages)
  PROVE  /\ Len(s) = 1 => s = <<s[1]>>
         /\ Len(s) = 2 => s = <<s[1], s[2]>>
         /\ Len(s) = 3 => s = <<s[1], s[2], s[3]>>
<1>1. ASSUME Len(s) = 1 PROVE s = <<s[1]>>
  <2>1. <<s[1]>> \in Seq(Messages) /\ Len(<<s[1]>>) = 1 /\ \A i \in 1 .. 1 : <<s[1]>>[i] = s[i]
    BY <1>1, SMT
  <2> QED
    BY <1>1, <2>1, SameSequence
<1>2. ASSUME Len(s) = 2 PROVE s = <<s[1], s[2]>>
  <2>1. s[1] \in Messages /\ s[2] \in Messages
    BY <1>2, SMT
  <2>2. /\ <<s[1], s[2]>> \in Seq(Messages) /\ Len(<<s[1], s[2]>>) = 2
        /\ <<s[1], s[2]>>[1] = s[1] /\ <<s[1], s[2]>>[2] = s[2]
    BY <2>1, SMT
  <2>3. \A i \in 1 .. 2 : i = 1 \/ i = 2
    BY SMT
  <2>4. \A i \in 1 .. Len(s) : s[i] = <<s[1], s[2]>>[i]
    BY <1>2, <2>2, <2>3
  <2> QED
    BY <1>2, <2>2, <2>4, SameSequence
<1>3. ASSUME Len(s) = 3 PROVE s = <<s[1], s[2], s[3]>>
  <2>1. s[1] \in Messages /\ s[2] \in Messages /\ s[3] \in Messages
    <3>1. 1 \in 1 .. Len(s) /\ 2 \in 1 .. Len(s) /\ 3 \in 1 .. Len(s)
      BY <1>3, SMT
    <3>2. \A i \in 1 .. Len(s) : s[i] \in Messages
      BY SMT
    <3> QED
      BY <3>1, <3>2
  <2>0. <<s[1], s[2], s[3]>> \in Seq(Messages)
    BY <2>1, SMT
  <2>2. /\ Len(<<s[1], s[2], s[3]>>) = 3
        /\ <<s[1], s[2], s[3]>>[1] = s[1] /\ <<s[1], s[2], s[3]>>[2] = s[2]
        /\ <<s[1], s[2], s[3]>>[3] = s[3]
    BY <2>1
  <2>3. \A i \in 1 .. 3 : i = 1 \/ i = 2 \/ i = 3
    BY SMT
  <2>4. \A i \in 1 .. Len(s) : s[i] = <<s[1], s[2], s[3]>>[i]
    BY <1>3, <2>2, <2>3
  <2> QED
    BY <1>3, <2>0, <2>2, <2>4, SameSequence
<1> QED
  BY <1>1, <1>2, <1>3

\* The short sequences of messages.
LEMMA ShortSequences ==
  ASSUME NEW a \in Messages, NEW b \in Messages, NEW c \in Messages
  PROVE  /\ Append(<< >>, a) = <<a>> /\ Append(<<a>>, b) = <<a, b>>
         /\ Append(<<a, b>>, c) = <<a, b, c>>
         /\ <<a>> \o <<b>> = <<a, b>> /\ <<a>> \o <<b, c>> = <<a, b, c>>
<1>0. /\ << >> \in Seq(Messages) /\ <<a>> \in Seq(Messages) /\ <<b>> \in Seq(Messages)
      /\ <<a, b>> \in Seq(Messages) /\ <<b, c>> \in Seq(Messages)
  BY SMT
<1>1. Append(<< >>, a) = <<a>>
  BY SMT
<1>2. Append(<<a>>, b) = <<a, b>>
  <2>1. /\ Append(<<a>>, b) \in Seq(Messages) /\ Len(Append(<<a>>, b)) = 2
        /\ Append(<<a>>, b)[1] = a /\ Append(<<a>>, b)[2] = b
    BY <1>0, SMT
  <2> QED
    BY <2>1, ShortTuples
<1>3. Append(<<a, b>>, c) = <<a, b, c>>
  <2>1. /\ Append(<<a, b>>, c) \in Seq(Messages) /\ Len(Append(<<a, b>>, c)) = 3
        /\ Append(<<a, b>>, c)[1] = a /\ Append(<<a, b>>, c)[2] = b /\ Append(<<a, b>>, c)[3] = c
    BY <1>0, SMT
  <2> QED
    BY <2>1, ShortTuples
<1>4. <<a>> \o <<b>> = <<a, b>>
  <2>1. /\ <<a>> \o <<b>> \in Seq(Messages) /\ Len(<<a>> \o <<b>>) = 2
        /\ (<<a>> \o <<b>>)[1] = a /\ (<<a>> \o <<b>>)[2] = b
    BY <1>0, SMT
  <2> QED
    BY <2>1, ShortTuples
<1>5. <<a>> \o <<b, c>> = <<a, b, c>>
  <2>1. /\ <<a>> \o <<b, c>> \in Seq(Messages) /\ Len(<<a>> \o <<b, c>>) = 3
        /\ (<<a>> \o <<b, c>>)[1] = a /\ (<<a>> \o <<b, c>>)[2] = b /\ (<<a>> \o <<b, c>>)[3] = c
    BY <1>0, SMT
  <2> QED
    BY <2>1, ShortTuples
<1> QED
  BY <1>1, <1>2, <1>3, <1>4, <1>5

\* The fields of a snapshot.
LEMMA SnapshotFields ==
  ASSUME NEW s \in Snapshots
  PROVE  /\ s.armed \in BOOLEAN /\ s.native \in BOOLEAN /\ s.matched \in BOOLEAN
         /\ s.closed \in BOOLEAN /\ s.generation \in Nat /\ s.sequence \in Nat
         /\ s.can \in Nat /\ s.sleep \in Nat /\ s.wake \in Nat /\ s.canceled \in Nat
         /\ s.disorder \in Nat /\ s.extra \in Nat /\ s.stale \in Nat /\ s.ackErrors \in Nat
         /\ s.sleepAt \in Nat /\ s.wakeAt \in Nat
BY DEF Snapshots

\* Unless the new snapshot is spoilt, the old one was not, the acknowledgement was made
\* and the message was the next of the cycle.
Progress(s, m, f, t) ==
  /\ t \in Snapshots /\ t.armed = TRUE /\ t.generation = s.generation /\ t.closed = s.closed
  /\ Clean(t) =>
       /\ Clean(s) /\ f = FALSE
       /\ t.matched = TRUE => t.sleep = 1 /\ t.wake = 1
       /\ \/ /\ m = "CanSleep" /\ s.can = 0 /\ s.sleep = 0 /\ s.wake = 0
             /\ t.can = 1 /\ t.sleep = 0 /\ t.wake = 0 /\ t.sleepAt = s.sleepAt
          \/ /\ m = "WillSleep" /\ s.sleep = 0 /\ s.wake = 0
             /\ t.sleep = 1 /\ t.wake = 0 /\ t.sleepAt > 0
          \/ /\ m = "PoweredOn" /\ s.sleep = 1 /\ s.wake = 0
             /\ t.sleep = 1 /\ t.wake = 1 /\ t.sleepAt = s.sleepAt

\* What the reducer makes of a snapshot that is armed.
LEMMA Reduced ==
  ASSUME NEW s \in Snapshots, s.armed = TRUE, NEW generation \in Nat, NEW m \in Messages,
         NEW f \in BOOLEAN, NEW t, t = diagnostic_power_reduce(s, generation, m, f)
  PROVE  Progress(s, m, f, t)
<1>1. CASE generation # s.generation
  <2>1. t = [s EXCEPT !.stale = @ + 1, !.matched = FALSE]
    BY <1>1 DEF diagnostic_power_reduce
  <2>2. /\ t \in Snapshots /\ t.armed = TRUE /\ t.generation = s.generation /\ t.closed = s.closed
        /\ t.stale = s.stale + 1 /\ s.stale \in Nat
        /\ t.disorder \in Nat /\ t.extra \in Nat /\ t.canceled \in Nat
    <3>1. s.stale \in Nat /\ s.stale + 1 \in Nat
      BY SMT DEF Snapshots
    <3>2. t \in Snapshots
      BY <2>1, <3>1 DEF Snapshots
    <3>3. t.armed = TRUE /\ t.generation = s.generation /\ t.closed = s.closed
      BY <2>1 DEF Snapshots
    <3>4. t.stale = s.stale + 1
      BY <2>1 DEF Snapshots
    <3>5. t.disorder \in Nat /\ t.extra \in Nat /\ t.canceled \in Nat
      BY <3>2 DEF Snapshots
    <3> QED
      BY <3>1, <3>2, <3>3, <3>4, <3>5
  <2>3. ~Clean(t)
    BY <2>2, SMT DEF Clean
  <2> QED
    BY <2>2, <2>3 DEF Progress
<1>2. CASE generation = s.generation
  <2> DEFINE u == [s EXCEPT !.sequence = @ + 1, !.ackErrors = @ + Bit(f), !.native = @ \/ f]
             v == Count(u, m)
  <2>1. t = [v EXCEPT !.matched = Matched(v)]
    BY <1>2 DEF diagnostic_power_reduce
  <2>2. /\ u \in Snapshots /\ u.armed = TRUE /\ u.generation = s.generation /\ u.closed = s.closed
        /\ u.sequence = s.sequence + 1 /\ u.sequence > 0 /\ u.native = (s.native \/ f)
        /\ u.can = s.can /\ u.sleep = s.sleep /\ u.wake = s.wake /\ u.canceled = s.canceled
        /\ u.disorder = s.disorder /\ u.extra = s.extra /\ u.stale = s.stale
        /\ u.sleepAt = s.sleepAt
    <3>1. PICK sequence \in Nat, errors \in Nat, native \in BOOLEAN :
             /\ sequence = s.sequence + 1 /\ errors = s.ackErrors + Bit(f)
             /\ native = (s.native \/ f)
      BY SnapshotFields, SMT DEF Bit
    <3>2. u = [s EXCEPT !.sequence = sequence, !.ackErrors = errors, !.native = native]
      BY <3>1
    <3> HIDE DEF u
    <3>3. u \in Snapshots
      BY <3>2 DEF Snapshots
    <3>4. u.sequence = sequence /\ u.native = native
      BY <3>2 DEF Snapshots
    <3>5. u.armed = TRUE /\ u.generation = s.generation /\ u.closed = s.closed
      BY <3>2 DEF Snapshots
    <3>6. u.can = s.can /\ u.sleep = s.sleep /\ u.wake = s.wake /\ u.canceled = s.canceled
      BY <3>2 DEF Snapshots
    <3>7. /\ u.disorder = s.disorder /\ u.extra = s.extra /\ u.stale = s.stale
          /\ u.sleepAt = s.sleepAt
      BY <3>2 DEF Snapshots
    <3> QED
      BY <3>1, <3>3, <3>4, <3>5, <3>6, <3>7, SnapshotFields, SMT
  <2> HIDE DEF u
  <2>3. /\ v \in Snapshots /\ v.armed = TRUE /\ v.generation = u.generation /\ v.closed = u.closed
        /\ v.native = u.native /\ v.stale = u.stale
        /\ v.disorder >= u.disorder /\ v.extra >= u.extra /\ v.canceled >= u.canceled
        /\ v.disorder = u.disorder /\ v.extra = u.extra /\ v.canceled = u.canceled =>
              \/ /\ m = "CanSleep" /\ u.can = 0 /\ u.sleep = 0 /\ u.wake = 0
                 /\ v.can = 1 /\ v.sleep = 0 /\ v.wake = 0 /\ v.sleepAt = u.sleepAt
              \/ /\ m = "WillSleep" /\ u.sleep = 0 /\ u.wake = 0
                 /\ v.sleep = 1 /\ v.wake = 0 /\ v.sleepAt > 0
              \/ /\ m = "PoweredOn" /\ u.sleep = 1 /\ u.wake = 0
                 /\ v.sleep = 1 /\ v.wake = 1 /\ v.sleepAt = u.sleepAt
    <3>0. /\ u.can \in Nat /\ u.sleep \in Nat /\ u.wake \in Nat /\ u.canceled \in Nat
          /\ u.disorder \in Nat /\ u.extra \in Nat /\ u.sleepAt \in Nat /\ u.wakeAt \in Nat
          /\ u.sequence \in Nat
      BY <2>2, SnapshotFields
    <3>1. CASE m = "CanSleep"
      <4>1. PICK can \in Nat, extra \in Nat :
               /\ can = u.can + 1
               /\ extra = u.extra + Bit(u.can > 0 \/ u.sleep > 0 \/ u.wake > 0)
        BY <3>0, SMT DEF Bit
      <4>2. extra >= u.extra /\ (extra = u.extra => u.can = 0 /\ u.sleep = 0 /\ u.wake = 0)
        BY <3>0, <4>1, SMT DEF Bit
      <4>3. v = [u EXCEPT !.can = can, !.extra = extra]
        BY <3>1, <4>1 DEF Count
      <4> HIDE DEF v
      <4>4. v \in Snapshots
        BY <2>2, <4>3 DEF Snapshots
      <4>5. v.can = can /\ v.extra = extra
        BY <2>2, <4>3 DEF Snapshots
      <4>6. v.armed = TRUE /\ v.generation = u.generation /\ v.closed = u.closed
        BY <2>2, <4>3 DEF Snapshots
      <4>7. v.native = u.native /\ v.stale = u.stale /\ v.sleepAt = u.sleepAt
        BY <2>2, <4>3 DEF Snapshots
      <4>8. v.disorder = u.disorder /\ v.canceled = u.canceled /\ v.sleep = u.sleep /\ v.wake = u.wake
        BY <2>2, <4>3 DEF Snapshots
      <4> QED
        BY <3>0, <3>1, <4>1, <4>2, <4>4, <4>5, <4>6, <4>7, <4>8, SMT
    <3>2. CASE m = "WillSleep"
      <4>1. PICK sleep \in Nat, at0 \in Nat, extra \in Nat, disorder \in Nat :
               /\ sleep = u.sleep + 1
               /\ at0 = (IF u.sleep = 0 /\ u.wake = 0 /\ u.canceled = 0 THEN u.sequence
                         ELSE u.sleepAt)
               /\ extra = u.extra + Bit(~(u.sleep = 0 /\ u.wake = 0 /\ u.canceled = 0))
               /\ disorder = u.disorder + Bit(~(u.sleep = 0 /\ u.wake = 0 /\ u.canceled = 0))
        BY <3>0, SMTT(30) DEF Bit
      <4>2. /\ extra >= u.extra /\ disorder >= u.disorder
            /\ extra = u.extra => u.sleep = 0 /\ u.wake = 0 /\ at0 = u.sequence
        BY <3>0, <4>1, SMT DEF Bit
      <4>3. v = [u EXCEPT !.sleep = sleep, !.sleepAt = at0, !.extra = extra, !.disorder = disorder]
        BY <3>2, <4>1 DEF Count
      <4> HIDE DEF v
      <4>4. v \in Snapshots
        BY <2>2, <4>3 DEF Snapshots
      <4>5. v.sleep = sleep /\ v.sleepAt = at0 /\ v.extra = extra /\ v.disorder = disorder
        BY <2>2, <4>3 DEF Snapshots
      <4>6. v.armed = TRUE /\ v.generation = u.generation /\ v.closed = u.closed
        BY <2>2, <4>3 DEF Snapshots
      <4>7. v.native = u.native /\ v.stale = u.stale /\ v.canceled = u.canceled /\ v.wake = u.wake
        BY <2>2, <4>3 DEF Snapshots
      <4> QED
        BY <2>2, <3>0, <3>2, <4>1, <4>2, <4>4, <4>5, <4>6, <4>7, SMT
    <3>3. CASE m = "PoweredOn"
      <4> DEFINE first == u.wake = 0 /\ u.sleep = 1 /\ u.sleepAt > 0 /\ u.canceled = 0
                 woken == u.wake + 1
                 at0 == IF first THEN u.sequence ELSE u.wakeAt
                 disorder == u.disorder + Bit(~first)
                 extra == u.extra + Bit(~first /\ u.wake > 0)
      <4>1. woken \in Nat /\ woken = u.wake + 1 /\ at0 \in Nat
        BY <3>0, SMT
      <4>9. disorder \in Nat /\ extra \in Nat
        BY <3>0, SMT DEF Bit
      <4>2. /\ extra >= u.extra /\ disorder >= u.disorder
            /\ disorder = u.disorder => u.sleep = 1 /\ u.wake = 0
        BY <3>0, SMT DEF Bit
      <4>3. v = [u EXCEPT !.wake = woken, !.wakeAt = at0, !.disorder = disorder, !.extra = extra]
        BY <3>3 DEF Count
      <4> HIDE DEF v, woken, at0, disorder, extra
      <4>4. v \in Snapshots
        BY <2>2, <4>1, <4>3, <4>9, ZenonT(30) DEF Snapshots
      <4>5. v.wake = woken /\ v.extra = extra /\ v.disorder = disorder
        BY <2>2, <4>3 DEF Snapshots
      <4>6. v.armed = TRUE /\ v.generation = u.generation /\ v.closed = u.closed
        BY <2>2, <4>3 DEF Snapshots
      <4>7. v.native = u.native /\ v.stale = u.stale /\ v.canceled = u.canceled
        BY <2>2, <4>3 DEF Snapshots
      <4>8. v.sleep = u.sleep /\ v.sleepAt = u.sleepAt
        BY <2>2, <4>3 DEF Snapshots
      <4> QED
        BY <2>2, <3>0, <3>3, <4>1, <4>2, <4>4, <4>5, <4>6, <4>7, <4>8, <4>9, SMT
    <3>4. CASE m = "WillNotSleep"
      <4>1. PICK canceled \in Nat : canceled = u.canceled + 1
        BY <3>0, SMT
      <4>2. v = [u EXCEPT !.canceled = canceled]
        BY <3>4, <4>1 DEF Count
      <4> HIDE DEF v
      <4>3. v \in Snapshots
        BY <2>2, <4>2 DEF Snapshots
      <4>4. v.canceled = canceled /\ v.native = u.native /\ v.stale = u.stale
        BY <2>2, <4>2 DEF Snapshots
      <4>5. v.armed = TRUE /\ v.generation = u.generation /\ v.closed = u.closed
        BY <2>2, <4>2 DEF Snapshots
      <4>6. v.disorder = u.disorder /\ v.extra = u.extra
        BY <2>2, <4>2 DEF Snapshots
      <4> QED
        BY <3>0, <4>1, <4>3, <4>4, <4>5, <4>6, SMT
    <3> QED
      BY <3>1, <3>2, <3>3, <3>4 DEF Messages
  <2> HIDE DEF v
  <2>4. Matched(v) \in BOOLEAN /\ (Matched(v) => v.sleep = 1 /\ v.wake = 1)
    BY DEF Matched
  <2>5. /\ t \in Snapshots /\ t.armed = TRUE /\ t.generation = v.generation /\ t.closed = v.closed
        /\ t.native = v.native /\ t.stale = v.stale /\ t.disorder = v.disorder
        /\ t.extra = v.extra /\ t.canceled = v.canceled /\ t.matched = Matched(v)
        /\ t.can = v.can /\ t.sleep = v.sleep /\ t.wake = v.wake /\ t.sleepAt = v.sleepAt
    <3>0. PICK matched \in BOOLEAN : matched = Matched(v) /\ t = [v EXCEPT !.matched = matched]
      BY <2>1, <2>4
    <3>1. t \in Snapshots /\ t.matched = matched
      BY <2>3, <3>0, SMT DEF Snapshots
    <3>2. t.armed = TRUE /\ t.generation = v.generation /\ t.closed = v.closed
      BY <2>3, <3>0 DEF Snapshots
    <3>3. /\ t.native = v.native /\ t.stale = v.stale /\ t.disorder = v.disorder
          /\ t.extra = v.extra
      BY <2>3, <3>0 DEF Snapshots
    <3>4. t.can = v.can /\ t.sleep = v.sleep /\ t.wake = v.wake /\ t.sleepAt = v.sleepAt
      BY <2>3, <3>0 DEF Snapshots
    <3>5. t.canceled = v.canceled
      BY <2>3, <3>0 DEF Snapshots
    <3> QED
      BY <3>0, <3>1, <3>2, <3>3, <3>4, <3>5
  <2>6. /\ s.native \in BOOLEAN /\ s.disorder \in Nat /\ s.extra \in Nat /\ s.stale \in Nat
        /\ s.canceled \in Nat /\ v.disorder \in Nat /\ v.extra \in Nat /\ v.canceled \in Nat
    BY <2>3, SnapshotFields
  <2>7. ASSUME Clean(t)
        PROVE  /\ Clean(s) /\ f = FALSE
               /\ v.disorder = u.disorder /\ v.extra = u.extra /\ v.canceled = u.canceled
    <3>1. t.native = FALSE /\ v.disorder + v.extra + v.stale + v.canceled = 0
      BY <2>5, <2>7 DEF Clean
    <3>0. v.stale \in Nat /\ v.native = FALSE
      BY <2>3, <2>5, <3>1, SnapshotFields
    <3>2. s.native = FALSE /\ f = FALSE
      BY <2>2, <2>3, <2>6, <3>0
    <3>5. \A a, b, c, d \in Nat : a + b + c + d = 0 => a = 0 /\ b = 0 /\ c = 0 /\ d = 0
      BY SMT
    <3>6. v.disorder \in Nat /\ v.extra \in Nat /\ v.stale \in Nat /\ v.canceled \in Nat
      BY <2>6, <3>0
    <3>3. v.disorder = 0 /\ v.extra = 0 /\ v.stale = 0 /\ v.canceled = 0
      BY <3>1, <3>5, <3>6, ZenonT(30)
    <3>4. s.disorder = 0 /\ s.extra = 0 /\ s.stale = 0 /\ s.canceled = 0
      BY <2>2, <2>3, <2>6, <3>3, SMT
    <3> QED
      BY <2>2, <3>2, <3>3, <3>4, SMT DEF Clean
  <2> QED
    BY <2>2, <2>3, <2>4, <2>5, <2>7, ZenonT(30) DEF Progress
<1> QED
  BY <1>1, <1>2


\* What the callback records of a notification.
Deliveries == [event : Notifications, acked : BOOLEAN]

\* The log and the snapshot follow the cycle together.
LEMMA FollowsOn ==
  ASSUME NEW s \in Snapshots, s.armed = TRUE, NEW generation \in Nat,
         NEW e \in Notifications, e.since = s.generation, NEW f \in BOOLEAN,
         NEW l \in Seq(Deliveries), Followed(s, l),
         NEW t, t = diagnostic_power_reduce(s, generation, e.message, f)
  PROVE  Followed(t, Append(l, [event |-> e, acked |-> ~f]))
<1> DEFINE x == [event |-> e, acked |-> ~f]
           m == e.message
<1>0. m \in Messages
  BY DEF Notifications
<1>1. x \in Deliveries /\ x.event = e /\ x.acked = ~f
  BY DEF Deliveries
<1> HIDE DEF x
<1>2. SUFFICES ASSUME Clean(t) PROVE /\ Shape(t, Told(Append(l, x)))
                                     /\ t.sleep = 1 <=> t.sleepAt > 0
                                     /\ \A i \in DOMAIN Append(l, x) :
                                          /\ Append(l, x)[i].acked = TRUE
                                          /\ Append(l, x)[i].event.since = t.generation
  BY DEF Followed, x
<1>3. /\ t.generation = s.generation /\ Clean(s) /\ f = FALSE /\ t \in Snapshots
      /\ \/ /\ m = "CanSleep" /\ s.can = 0 /\ s.sleep = 0 /\ s.wake = 0
            /\ t.can = 1 /\ t.sleep = 0 /\ t.wake = 0 /\ t.sleepAt = s.sleepAt
         \/ /\ m = "WillSleep" /\ s.sleep = 0 /\ s.wake = 0
            /\ t.sleep = 1 /\ t.wake = 0 /\ t.sleepAt > 0
         \/ /\ m = "PoweredOn" /\ s.sleep = 1 /\ s.wake = 0
            /\ t.sleep = 1 /\ t.wake = 1 /\ t.sleepAt = s.sleepAt
  <2>1. Progress(s, m, f, t)
    BY <1>0, Reduced
  <2> QED
    BY <1>2, <2>1 DEF Progress
<1>4. /\ Shape(s, Told(l)) /\ (s.sleep = 1 <=> s.sleepAt > 0)
      /\ \A i \in DOMAIN l : l[i].acked = TRUE /\ l[i].event.since = s.generation
  BY <1>3 DEF Followed
<1>5. Told(Append(l, x)) = Append(Told(l), m)
  <2>1. \A y \in Deliveries : y.event.message \in Messages
    BY DEF Deliveries, Notifications
  <2> QED
    BY <1>1, <2>1, ToldOneMore
<1>6. \A i \in DOMAIN Append(l, x) :
        Append(l, x)[i].acked = TRUE /\ Append(l, x)[i].event.since = t.generation
  <2>1. x.acked = TRUE /\ x.event.since = t.generation
    BY <1>1, <1>3
  <2>2. \A i \in DOMAIN Append(l, x) : Append(l, x)[i] = x \/ (i \in DOMAIN l /\ Append(l, x)[i] = l[i])
    BY SMT
  <2> QED
    BY <1>3, <1>4, <2>1, <2>2
<1>7. t.sleep = 1 <=> t.sleepAt > 0
  BY <1>3, <1>4
<1>8. Shape(t, Append(Told(l), m))
  <2>1. /\ "CanSleep" \in Messages /\ "WillSleep" \in Messages /\ "PoweredOn" \in Messages
    BY DEF Messages
  <2>2. CASE m = "CanSleep"
    <3>0. /\ s.can = 0 /\ s.sleep = 0 /\ s.wake = 0
          /\ t.can = 1 /\ t.sleep = 0 /\ t.wake = 0
      BY <1>3, <2>2
    <3>1. Told(l) = << >> /\ t.can = 1 /\ t.sleep = 0 /\ t.wake = 0
      BY <1>4, <3>0, SMT DEF Shape
    <3> QED
      BY <2>1, <2>2, <3>1, ShortSequences DEF Shape
  <2>3. CASE m = "WillSleep"
    <3>0. s.sleep = 0 /\ s.wake = 0 /\ t.sleep = 1 /\ t.wake = 0
      BY <1>3, <2>3
    <3>1. Told(l) \in {<< >>, <<"CanSleep">>} /\ t.sleep = 1 /\ t.wake = 0
      BY <1>4, <3>0, SMT DEF Shape
    <3>2. /\ Append(<< >>, "WillSleep") = <<"WillSleep">>
          /\ Append(<<"CanSleep">>, "WillSleep") = <<"CanSleep", "WillSleep">>
      BY <2>1, ShortSequences
    <3>3. Append(Told(l), m) \in {<<"WillSleep">>, <<"CanSleep", "WillSleep">>}
      BY <2>3, <3>1, <3>2
    <3> QED
      BY <3>1, <3>3 DEF Shape
  <2>4. CASE m = "PoweredOn"
    <3>0. s.sleep = 1 /\ s.wake = 0 /\ t.sleep = 1 /\ t.wake = 1
      BY <1>3, <2>4
    <3>1. Told(l) \in {<<"WillSleep">>, <<"CanSleep", "WillSleep">>} /\ t.sleep = 1 /\ t.wake = 1
      BY <1>4, <3>0, SMT DEF Shape
    <3>2. /\ Append(<<"WillSleep">>, "PoweredOn") = <<"WillSleep", "PoweredOn">>
          /\ Append(<<"CanSleep", "WillSleep">>, "PoweredOn") = <<"CanSleep", "WillSleep", "PoweredOn">>
      <4>1. \A b, c \in Messages : Append(<<b>>, c) = <<b, c>>
        BY ShortSequences
      <4>2. \A a, b, c \in Messages : Append(<<a, b>>, c) = <<a, b, c>>
        BY ShortSequences
      <4> QED
        BY <2>1, <4>1, <4>2
    <3>3. Append(Told(l), m)
            \in {<<"WillSleep", "PoweredOn">>, <<"CanSleep", "WillSleep", "PoweredOn">>}
      BY <2>4, <3>1, <3>2
    <3> QED
      BY <3>1, <3>3 DEF Shape
  <2> QED
    BY <1>3, <2>2, <2>3, <2>4
<1> QED
  BY <1>5, <1>6, <1>7, <1>8

\* A notification is delivered.
LEMMA CallbackInv == PowerInv /\ power_callback => PowerInv'
<1> SUFFICES ASSUME PowerInv, power_callback PROVE PowerInv'
  OBVIOUS
<1> DEFINE e == Head(registration.queued)
<1>0. /\ PowerTyped /\ Registered /\ Followed(snapshot, log) /\ CycleIsReal
      /\ thread = "loop" /\ registration.queued # << >>
      /\ registration' = [registration EXCEPT !.queued = Tail(registration.queued)]
      /\ UNCHANGED <<thread, caller, answer>>
  BY DEF PowerInv, power_callback
<1>1. PICK f \in BOOLEAN :
         /\ snapshot' = IF snapshot.armed
              THEN diagnostic_power_reduce(snapshot, registration.generation, e.message, f)
              ELSE [snapshot EXCEPT !.ackErrors = @ + Bit(f), !.native = @ \/ f]
         /\ log' = Append(log, [event |-> e, acked |-> ~f])
  BY DEF power_callback
<1>2. /\ snapshot \in Snapshots /\ registration.queued \in Seq(Notifications)
      /\ registration.generation \in Nat /\ log \in Seq(Deliveries)
      /\ registration \in [live : BOOLEAN, generation : Nat, queued : Seq(Notifications)]
  BY <1>0 DEF PowerTyped, Deliveries
<1>3. e \in Notifications /\ e.since = snapshot.generation
  <2>1. 1 \in DOMAIN registration.queued /\ e = registration.queued[1]
    BY <1>0, <1>2, SMT
  <2>2. e \in Notifications
    BY <1>0, <1>2, SMT
  <2> QED
    BY <1>0, <2>1, <2>2 DEF Registered
<1>4. Tail(registration.queued) \in Seq(Notifications)
      /\ \A i \in DOMAIN Tail(registration.queued) :
           Tail(registration.queued)[i].since = snapshot.generation
  <2>1. Tail(registration.queued) \in Seq(Notifications)
    BY <1>0, <1>2, SMT
  <2>2. \A i \in DOMAIN Tail(registration.queued) :
          i + 1 \in DOMAIN registration.queued /\ Tail(registration.queued)[i] = registration.queued[i + 1]
    BY <1>0, <1>2, SMT
  <2> QED
    BY <1>0, <2>1, <2>2 DEF Registered
<1> HIDE DEF e
<1>5. /\ registration'.queued = Tail(registration.queued)
      /\ registration' \in [live : BOOLEAN, generation : Nat, queued : Seq(Notifications)]
  BY <1>0, <1>2, <1>4
<1>6. log' \in Seq(Deliveries)
  <2>1. [event |-> e, acked |-> ~f] \in Deliveries
    BY <1>3 DEF Deliveries
  <2> QED
    BY <1>1, <1>2, <2>1, SMT
<1>7. CycleIsReal'
  BY <1>0 DEF CycleIsReal
<1>8. /\ snapshot' \in Snapshots /\ snapshot'.generation = snapshot.generation
      /\ snapshot'.armed = snapshot.armed /\ snapshot'.closed = snapshot.closed
      /\ Followed(snapshot', log')
      /\ snapshot'.armed = TRUE /\ Clean(snapshot') /\ snapshot'.matched = TRUE =>
           snapshot'.sleep = 1 /\ snapshot'.wake = 1
  <2>1. CASE snapshot.armed = TRUE
    <3>1. snapshot' = diagnostic_power_reduce(snapshot, registration.generation, e.message, f)
      BY <1>1, <2>1
    <3>2. Followed(snapshot', log')
      BY <1>0, <1>1, <1>2, <1>3, <2>1, <3>1, FollowsOn
    <3>3. e.message \in Messages
      BY <1>3 DEF Notifications
    <3>4. /\ snapshot' \in Snapshots /\ snapshot'.armed = TRUE
          /\ snapshot'.generation = snapshot.generation /\ snapshot'.closed = snapshot.closed
          /\ Clean(snapshot') => (snapshot'.matched = TRUE => snapshot'.sleep = 1 /\ snapshot'.wake = 1)
      <4>1. Progress(snapshot, e.message, f, snapshot')
        BY <1>2, <2>1, <3>1, <3>3, Reduced
      <4> QED
        BY <4>1 DEF Progress
    <3> QED
      BY <2>1, <3>2, <3>4
  <2>2. CASE snapshot.armed = FALSE
    <3>1. PICK errors \in Nat, native \in BOOLEAN :
             snapshot' = [snapshot EXCEPT !.ackErrors = errors, !.native = native]
      <4>1. snapshot.ackErrors + Bit(f) \in Nat /\ (snapshot.native \/ f) \in BOOLEAN
        BY <1>2, SnapshotFields, SMT DEF Bit
      <4> QED
        BY <1>1, <2>2, <4>1
    <3>2. snapshot' \in Snapshots
      BY <1>2, <3>1 DEF Snapshots
    <3>3. /\ snapshot'.generation = snapshot.generation
          /\ snapshot'.armed = snapshot.armed /\ snapshot'.closed = snapshot.closed
      BY <1>2, <3>1 DEF Snapshots
    <3> QED
      BY <2>2, <3>2, <3>3 DEF Followed
  <2> QED
    BY <1>2, <2>1, <2>2, SnapshotFields
<1>9. PowerTyped'
  BY <1>0, <1>5, <1>6, <1>8 DEF PowerTyped, Deliveries
<1>10. Registered'
  BY <1>0, <1>4, <1>5, <1>8 DEF Registered
<1> QED
  BY <1>7, <1>8, <1>9, <1>10 DEF PowerInv


\* The system queues a notification at the registration.
LEMMA NotifyInv == PowerInv /\ Notify => PowerInv'
<1> SUFFICES ASSUME PowerInv, Notify PROVE PowerInv'
  OBVIOUS
<1>0. /\ PowerTyped /\ Registered /\ registration.live
      /\ UNCHANGED <<thread, snapshot, caller, log, answer>>
  BY DEF PowerInv, Notify
<1>1. PICK message \in Messages :
         registration' = [registration EXCEPT
           !.queued = Append(@, [message |-> message, since |-> snapshot.generation])]
  BY DEF Notify
<1> DEFINE n == [message |-> message, since |-> snapshot.generation]
           q == registration.queued
<1>2. /\ registration \in [live : BOOLEAN, generation : Nat, queued : Seq(Notifications)]
      /\ q \in Seq(Notifications) /\ snapshot.generation \in Nat
  BY <1>0, SnapshotFields DEF PowerTyped
<1>3. n \in Notifications /\ n.since = snapshot.generation
  BY <1>2 DEF Notifications
<1> HIDE DEF n
<1>4. registration' = [registration EXCEPT !.queued = Append(q, n)]
  BY <1>1 DEF n
<1>5. Append(q, n) \in Seq(Notifications)
      /\ \A i \in DOMAIN Append(q, n) : Append(q, n)[i] = n \/ (i \in DOMAIN q /\ Append(q, n)[i] = q[i])
  BY <1>2, <1>3, SMT
<1>6. /\ registration' \in [live : BOOLEAN, generation : Nat, queued : Seq(Notifications)]
      /\ registration'.queued = Append(q, n)
  BY <1>2, <1>4, <1>5
<1>7. thread \notin {"none", "starting", "exited"}
  <2>1. Unregistered.live = FALSE
    BY DEF Unregistered
  <2> QED
    BY <1>0, <2>1 DEF Registered
<1>8. Registered'
  BY <1>0, <1>3, <1>5, <1>6, <1>7, SMT DEF Registered
<1>9. PowerTyped'
  BY <1>0, <1>6 DEF PowerTyped
<1>10. Followed(snapshot, log)' /\ CycleIsReal'
  BY <1>0 DEF PowerInv, Followed, Clean, Shape, Told, CycleIsReal
<1>11. (snapshot.armed = TRUE /\ Clean(snapshot) /\ snapshot.matched = TRUE =>
         snapshot.sleep = 1 /\ snapshot.wake = 1)'
  BY <1>0 DEF PowerInv, Clean
<1> QED
  BY <1>8, <1>9, <1>10, <1>11 DEF PowerInv

\* A step of the thread or of New after which the observer is not armed.
LEMMA DisarmedInv ==
  ASSUME PowerTyped', Registered', snapshot'.armed = FALSE, CycleIsReal'
  PROVE  PowerInv'
BY DEF PowerInv, Followed

\* An empty registration.
LEMMA EmptyRegistration ==
  /\ Unregistered \in [live : BOOLEAN, generation : Nat, queued : Seq(Notifications)]
  /\ Unregistered.queued = << >> /\ Unregistered.live = FALSE
  /\ \A live \in BOOLEAN, generation \in Nat :
       LET r == [Unregistered EXCEPT !.live = live, !.generation = generation]
       IN  /\ r \in [live : BOOLEAN, generation : Nat, queued : Seq(Notifications)]
           /\ r.queued = << >>
  /\ \A live \in BOOLEAN :
       LET r == [Unregistered EXCEPT !.live = live]
       IN  /\ r \in [live : BOOLEAN, generation : Nat, queued : Seq(Notifications)]
           /\ r.queued = << >>
<1>1. /\ Unregistered \in [live : BOOLEAN, generation : Nat, queued : Seq(Notifications)]
      /\ Unregistered.queued = << >> /\ Unregistered.live = FALSE
  BY SMT DEF Unregistered
<1>2. ASSUME NEW live \in BOOLEAN, NEW generation \in Nat
      PROVE  /\ [Unregistered EXCEPT !.live = live, !.generation = generation]
                  \in [live : BOOLEAN, generation : Nat, queued : Seq(Notifications)]
             /\ [Unregistered EXCEPT !.live = live, !.generation = generation].queued = << >>
  BY <1>1
<1>3. ASSUME NEW live \in BOOLEAN
      PROVE  /\ [Unregistered EXCEPT !.live = live]
                  \in [live : BOOLEAN, generation : Nat, queued : Seq(Notifications)]
             /\ [Unregistered EXCEPT !.live = live].queued = << >>
  BY <1>1
<1> QED
  BY <1>1, <1>2, <1>3

\* A new snapshot.
LEMMA FreshSnapshot ==
  ASSUME NEW generation \in Nat
  PROVE  /\ Fresh(generation) \in Snapshots /\ Fresh(generation).armed = FALSE
         /\ Fresh(generation).generation = generation
BY DEF Fresh, Snapshots

\* The thread starts, with a registration or without.
LEMMA StartInv == PowerInv /\ Start => PowerInv'
<1> SUFFICES ASSUME PowerInv, Start PROVE PowerInv'
  OBVIOUS
<1>0. /\ PowerTyped /\ Registered /\ CycleIsReal /\ thread = "starting"
      /\ UNCHANGED <<caller, log, answer>>
  BY DEF PowerInv, Start
<1>1. PICK registered \in BOOLEAN :
         /\ registration' = [Unregistered EXCEPT !.live = registered]
         /\ snapshot' = [snapshot EXCEPT !.ready = registered, !.native = ~registered]
         /\ thread' = IF registered THEN "loop" ELSE "ending"
  BY DEF Start
<1>2. snapshot \in Snapshots /\ snapshot.armed = FALSE
  BY <1>0 DEF PowerTyped, Registered
<1>3. snapshot' \in Snapshots
  <2>1. PICK native \in BOOLEAN : snapshot' = [snapshot EXCEPT !.ready = registered, !.native = native]
    BY <1>1
  <2> QED
    BY <1>2, <2>1 DEF Snapshots
<1>4. /\ snapshot'.armed = FALSE /\ snapshot'.generation = snapshot.generation
      /\ snapshot'.closed = snapshot.closed
  BY <1>1, <1>2 DEF Snapshots
<1>5. /\ registration' \in [live : BOOLEAN, generation : Nat, queued : Seq(Notifications)]
      /\ registration'.queued = << >>
  BY <1>1, EmptyRegistration
<1>6. thread' \in {"loop", "ending"} /\ caller # "none"
  BY <1>0, <1>1 DEF Registered
<1>7. PowerTyped'
  BY <1>0, <1>3, <1>5, <1>6 DEF PowerTyped
<1>8. Registered'
  BY <1>0, <1>2, <1>4, <1>5, <1>6, SMT DEF Registered
<1>9. CycleIsReal'
  BY <1>0 DEF CycleIsReal
<1> QED
  BY <1>4, <1>7, <1>8, <1>9, DisarmedInv

\* The loop is left.
LEMMA LoopInv == PowerInv /\ LoopTurns => PowerInv'
<1> SUFFICES ASSUME PowerInv, LoopTurns PROVE PowerInv'
  OBVIOUS
<1>0. /\ thread = "loop" /\ thread' \in {"ending", "arming"}
      /\ UNCHANGED <<registration, snapshot, caller, log, answer>>
  BY DEF LoopTurns
<1>1. PowerTyped' /\ Registered'
  BY <1>0 DEF PowerInv, PowerTyped, Registered
<1>2. Followed(snapshot, log)' /\ CycleIsReal'
  BY <1>0 DEF PowerInv, Followed, Clean, Shape, Told, CycleIsReal
<1>3. (snapshot.armed = TRUE /\ Clean(snapshot) /\ snapshot.matched = TRUE =>
        snapshot.sleep = 1 /\ snapshot.wake = 1)'
  BY <1>0 DEF PowerInv, Clean
<1> QED
  BY <1>1, <1>2, <1>3 DEF PowerInv


\* Arm rotates the registration, or fails, or was too late.
LEMMA RotateInv == PowerInv /\ Rotate => PowerInv'
<1> SUFFICES ASSUME PowerInv, Rotate PROVE PowerInv'
  OBVIOUS
<1>0. /\ PowerTyped /\ Registered /\ CycleIsReal /\ thread = "arming"
      /\ snapshot \in Snapshots /\ snapshot.generation \in Nat /\ caller # "none"
      /\ UNCHANGED <<caller, answer>>
  BY SnapshotFields DEF PowerInv, Rotate, PowerTyped, Registered
<1>1. CycleIsReal'
  BY <1>0 DEF CycleIsReal
<1>2. CASE /\ thread' = "loop" /\ log' = << >>
           /\ registration' =
                register_power(unregister_power(registration), snapshot.generation + 1)
           /\ snapshot' = [Fresh(snapshot.generation + 1) EXCEPT !.ready = TRUE, !.armed = TRUE]
  <2>1. PICK g \in Nat : g = snapshot.generation + 1
    BY <1>0, SMT
  <2>2. snapshot' = [Fresh(g) EXCEPT !.ready = TRUE, !.armed = TRUE]
    BY <1>2, <2>1
  <2>3. snapshot' \in Snapshots
    <3>1. Fresh(g) \in Snapshots
      BY FreshSnapshot
    <3> QED
      BY <2>2, <3>1 DEF Snapshots
  <2>4. /\ snapshot'.armed = TRUE /\ snapshot'.generation = g /\ snapshot'.can = 0
        /\ snapshot'.sleep = 0 /\ snapshot'.wake = 0 /\ snapshot'.sleepAt = 0
        /\ snapshot'.matched = FALSE
    BY <2>2 DEF Fresh
  <2>5. registration' = [Unregistered EXCEPT !.live = TRUE, !.generation = g]
    BY <1>2, <2>1 DEF register_power, unregister_power
  <2>6. /\ registration' \in [live : BOOLEAN, generation : Nat, queued : Seq(Notifications)]
        /\ registration'.queued = << >>
    BY <2>5, EmptyRegistration
  <2>7. PowerTyped'
    BY <1>2, <2>3, <2>6, SMT DEF PowerTyped
  <2>8. Registered'
    BY <1>0, <1>2, <2>4, <2>6, SMT DEF Registered
  <2>9. Followed(snapshot', log')
    <3>1. Told(<< >>) = << >>
      BY SMT DEF Told
    <3> QED
      BY <1>2, <2>4, <3>1, SMT DEF Followed, Shape
  <2> QED
    BY <1>1, <2>4, <2>7, <2>8, <2>9 DEF PowerInv
<1>3. CASE /\ thread' = "ending" /\ UNCHANGED log
           /\ registration' = unregister_power(registration)
           /\ \E released \in BOOLEAN :
                snapshot' = [snapshot EXCEPT !.native = TRUE, !.unreleased = ~released]
  <2>1. PICK unreleased \in BOOLEAN :
           snapshot' = [snapshot EXCEPT !.native = TRUE, !.unreleased = unreleased]
    BY <1>3
  <2>2. snapshot' \in Snapshots
    BY <1>0, <2>1 DEF Snapshots
  <2>3. /\ snapshot'.native = TRUE /\ snapshot'.armed = snapshot.armed
        /\ snapshot'.generation = snapshot.generation /\ snapshot'.closed = snapshot.closed
    BY <1>0, <2>1 DEF Snapshots
  <2>4. registration' = Unregistered
    BY <1>3 DEF unregister_power
  <2>5. /\ registration' \in [live : BOOLEAN, generation : Nat, queued : Seq(Notifications)]
        /\ registration'.queued = << >>
    BY <2>4, EmptyRegistration
  <2>6. PowerTyped'
    BY <1>0, <1>3, <2>2, <2>5 DEF PowerTyped
  <2>7. Registered'
    BY <1>0, <1>3, <2>3, <2>4, <2>5, SMT DEF Registered
  <2>8. ~Clean(snapshot)'
    BY <2>3 DEF Clean
  <2> QED
    BY <1>1, <2>6, <2>7, <2>8 DEF PowerInv, Followed
<1>4. CASE thread' = "ending" /\ UNCHANGED <<registration, snapshot, log>>
  <2>1. PowerTyped' /\ Registered'
    BY <1>0, <1>4 DEF PowerTyped, Registered
  <2>2. Followed(snapshot, log)'
    BY <1>4 DEF PowerInv, Followed, Clean, Shape, Told
  <2>3. (snapshot.armed = TRUE /\ Clean(snapshot) /\ snapshot.matched = TRUE =>
          snapshot.sleep = 1 /\ snapshot.wake = 1)'
    BY <1>4 DEF PowerInv, Clean
  <2> QED
    BY <1>1, <2>1, <2>2, <2>3 DEF PowerInv
<1> QED
  BY <1>2, <1>3, <1>4 DEF Rotate

\* The thread ends, and disarms the observer.
LEMMA EndInv == PowerInv /\ End => PowerInv'
<1> SUFFICES ASSUME PowerInv, End PROVE PowerInv'
  OBVIOUS
<1>0. /\ PowerTyped /\ Registered /\ CycleIsReal /\ thread = "ending" /\ thread' = "exited"
      /\ registration' = Unregistered /\ snapshot \in Snapshots /\ caller # "none"
      /\ UNCHANGED <<caller, log, answer>>
  BY DEF PowerInv, End, unregister_power, PowerTyped, Registered
<1>1. PICK native \in BOOLEAN, unreleased \in BOOLEAN :
         snapshot' = [snapshot EXCEPT !.armed = FALSE, !.closed = TRUE,
                                      !.native = native, !.unreleased = unreleased]
  <2>1. PICK released \in BOOLEAN :
           snapshot' = [snapshot EXCEPT !.armed = FALSE, !.closed = TRUE,
                                        !.native = @ \/ ~released,
                                        !.unreleased = @ \/ ~released]
    BY DEF End
  <2>2. (snapshot.native \/ ~released) \in BOOLEAN /\ (snapshot.unreleased \/ ~released) \in BOOLEAN
    OBVIOUS
  <2> QED
    BY <2>1, <2>2
<1>2. snapshot' \in Snapshots
  BY <1>0, <1>1 DEF Snapshots
<1>3. snapshot'.armed = FALSE /\ snapshot'.closed = TRUE /\ snapshot'.generation = snapshot.generation
  BY <1>0, <1>1 DEF Snapshots
<1>7. /\ Unregistered \in [live : BOOLEAN, generation : Nat, queued : Seq(Notifications)]
      /\ Unregistered.queued = << >>
  BY EmptyRegistration
<1>4. PowerTyped'
  BY <1>0, <1>2, <1>7 DEF PowerTyped
<1>5. Registered'
  BY <1>0, <1>3, <1>7, SMT DEF Registered
<1>6. CycleIsReal'
  BY <1>0 DEF CycleIsReal
<1> QED
  BY <1>3, <1>4, <1>5, <1>6, DisarmedInv

\* A new observer begins unarmed and without an answer.
LEMMA NewInv == PowerInv /\ diagnostic_power_new => PowerInv'
<1> SUFFICES ASSUME PowerInv, diagnostic_power_new PROVE PowerInv'
  OBVIOUS
<1>0. caller = "none" /\ UNCHANGED registration
  BY DEF diagnostic_power_new
<1>1. CASE UNCHANGED <<observer_count, thread, caller, snapshot, stop, arming, log, answer>>
  BY <1>0, <1>1, PowerStutters
<1>2. CASE /\ thread' = "starting" /\ caller' = "new" /\ snapshot' = Fresh(0)
           /\ log' = << >> /\ answer' = NoAnswer
  <2>1. registration' = Unregistered
    BY <1>0 DEF PowerInv, Registered
  <2>2. snapshot' \in Snapshots /\ snapshot'.armed = FALSE /\ snapshot'.generation = 0
    BY <1>2, FreshSnapshot
  <2>6. /\ Unregistered \in [live : BOOLEAN, generation : Nat, queued : Seq(Notifications)]
        /\ Unregistered.queued = << >>
    BY EmptyRegistration
  <2>3. PowerTyped'
    BY <1>2, <2>1, <2>2, <2>6, SMT DEF PowerTyped
  <2>4. Registered'
    BY <1>2, <2>1, <2>2, <2>6, SMT DEF Registered
  <2>5. CycleIsReal'
    BY <1>2 DEF CycleIsReal, NoAnswer
  <2> QED
    BY <2>2, <2>3, <2>4, <2>5, DisarmedInv
<1> QED
  BY <1>1, <1>2 DEF diagnostic_power_new


\* The other calls begin or return; a thread that was joined is gone.
LEMMA CallInv ==
  PowerInv /\ (NewReturns \/ diagnostic_power_arm \/ ArmReturns \/ diagnostic_power_close \/ CloseReturns)
    => PowerInv'
<1> SUFFICES ASSUME PowerInv,
                    NewReturns \/ diagnostic_power_arm \/ ArmReturns \/ diagnostic_power_close
                      \/ CloseReturns
             PROVE  PowerInv'
  OBVIOUS
<1>1. /\ UNCHANGED <<registration, snapshot, log, answer>>
      /\ \/ thread' = thread /\ caller' # "none"
         \/ thread = "exited" /\ thread' = "none" /\ caller' = "none"
  <2>1. CASE NewReturns
    BY <2>1 DEF NewReturns
  <2>2. CASE diagnostic_power_arm \/ ArmReturns \/ diagnostic_power_close
    BY <2>2 DEF diagnostic_power_arm, ArmReturns, diagnostic_power_close
  <2>3. CASE CloseReturns
    BY <2>3 DEF CloseReturns
  <2> QED
    BY <2>1, <2>2, <2>3
<1>2. PowerTyped'
  BY <1>1 DEF PowerInv, PowerTyped
<1>3. Registered'
  BY <1>1 DEF PowerInv, Registered
<1>4. Followed(snapshot, log)' /\ CycleIsReal'
  BY <1>1 DEF PowerInv, Followed, Clean, Shape, Told, CycleIsReal
<1>5. (snapshot.armed = TRUE /\ Clean(snapshot) /\ snapshot.matched = TRUE =>
        snapshot.sleep = 1 /\ snapshot.wake = 1)'
  BY <1>1 DEF PowerInv, Clean
<1> QED
  BY <1>2, <1>3, <1>4, <1>5 DEF PowerInv

\* A Wait that succeeds has seen the cycle.
LEMMA WaitInv == PowerInv /\ wait => PowerInv'
<1> SUFFICES ASSUME PowerInv, wait PROVE PowerInv'
  OBVIOUS
<1>0. /\ UNCHANGED <<registration, snapshot, log, thread, caller>> /\ snapshot \in Snapshots
      /\ Followed(snapshot, log) /\ Registered
  BY DEF wait, PowerInv, PowerTyped
<1>1. PICK generation \in 1 .. snapshot.generation, sleepOnly \in BOOLEAN :
         answer' = [result |-> diagnostic_power_wait(generation, sleepOnly),
                    sleepOnly |-> sleepOnly, log |-> log, generation |-> generation]
  BY DEF wait
<1>2. CycleIsReal'
  <2>1. SUFFICES ASSUME diagnostic_power_wait(generation, sleepOnly) = "ok"
                 PROVE  CycleIsReal'
    BY <1>1 DEF CycleIsReal
  <2>2. /\ generation = snapshot.generation /\ snapshot.closed # TRUE /\ snapshot.native # TRUE
        /\ ~(snapshot.disorder + snapshot.extra + snapshot.stale + snapshot.canceled > 0)
        /\ sleepOnly = TRUE => snapshot.sleep = 1
        /\ sleepOnly = FALSE => snapshot.matched
    BY <2>1 DEF diagnostic_power_wait
  <2>3. Clean(snapshot) /\ snapshot.armed = TRUE /\ snapshot.matched \in BOOLEAN
    <3>1. /\ snapshot.native \in BOOLEAN /\ snapshot.closed \in BOOLEAN
          /\ snapshot.armed \in BOOLEAN /\ snapshot.matched \in BOOLEAN
      BY <1>0, SnapshotFields
    <3>2. /\ snapshot.disorder \in Nat /\ snapshot.extra \in Nat /\ snapshot.stale \in Nat
          /\ snapshot.canceled \in Nat /\ snapshot.generation \in Nat
      BY <1>0, SnapshotFields
    <3>3. snapshot.disorder + snapshot.extra + snapshot.stale + snapshot.canceled = 0
      BY <2>2, <3>2, SMT
    <3>4. snapshot.generation > 0
      BY <3>2, SMT
    <3> QED
      BY <1>0, <2>2, <3>1, <3>3, <3>4 DEF Clean, Registered
  <2>4. /\ Shape(snapshot, Told(log))
        /\ \A i \in DOMAIN log : log[i].acked = TRUE /\ log[i].event.since = snapshot.generation
    BY <1>0, <2>3 DEF Followed
  <2>5. snapshot.sleep = 1 /\ (sleepOnly = FALSE => snapshot.wake = 1)
    BY <2>2, <2>3 DEF PowerInv
  <2> DEFINE ends == IF sleepOnly THEN {<<"WillSleep">>, <<"WillSleep", "PoweredOn">>}
                     ELSE {<<"WillSleep", "PoweredOn">>}
  <2>6. \E c \in ends : Told(log) \in {c, <<"CanSleep">> \o c}
    <3>1. /\ "CanSleep" \in Messages /\ "WillSleep" \in Messages /\ "PoweredOn" \in Messages
      BY DEF Messages
    <3>2. /\ <<"CanSleep">> \o <<"WillSleep">> = <<"CanSleep", "WillSleep">>
          /\ <<"CanSleep">> \o <<"WillSleep", "PoweredOn">> = <<"CanSleep", "WillSleep", "PoweredOn">>
      BY <3>1, ShortSequences
    <3>3. \/ Told(log) \in {<<"WillSleep">>, <<"CanSleep", "WillSleep">>} /\ snapshot.wake = 0
          \/ Told(log) \in {<<"WillSleep", "PoweredOn">>, <<"CanSleep", "WillSleep", "PoweredOn">>}
      BY <2>4, <2>5, SMT DEF Shape
    <3>4. CASE Told(log) \in {<<"WillSleep", "PoweredOn">>, <<"CanSleep", "WillSleep", "PoweredOn">>}
      <4>1. <<"WillSleep", "PoweredOn">> \in ends
        OBVIOUS
      <4> QED
        BY <3>2, <3>4, <4>1
    <3>5. CASE Told(log) \in {<<"WillSleep">>, <<"CanSleep", "WillSleep">>} /\ snapshot.wake = 0
      <4>1. sleepOnly = TRUE
        BY <2>5, <3>5, SMT
      <4>2. <<"WillSleep">> \in ends
        BY <4>1
      <4> QED
        BY <3>2, <3>5, <4>2
    <3> QED
      BY <3>3, <3>4, <3>5
  <2>7. answer'.log = log /\ answer'.generation = snapshot.generation /\ answer'.sleepOnly = sleepOnly
    BY <1>1, <2>2
  <2>8. \A i \in DOMAIN log : log[i].acked /\ log[i].event.since = snapshot.generation
    BY <2>4
  <2>9. [i \in DOMAIN log |-> log[i].event.message] = Told(log)
    BY DEF Told
  <2> QED
    BY <2>6, <2>7, <2>8, <2>9 DEF CycleIsReal
<1>3. PowerTyped' /\ Registered'
  BY <1>0 DEF PowerInv, PowerTyped, Registered
<1>4. Followed(snapshot, log)'
  BY <1>0 DEF Followed, Clean, Shape, Told
<1>5. (snapshot.armed = TRUE /\ Clean(snapshot) /\ snapshot.matched = TRUE =>
        snapshot.sleep = 1 /\ snapshot.wake = 1)'
  BY <1>0 DEF PowerInv, Clean
<1> QED
  BY <1>2, <1>3, <1>4, <1>5 DEF PowerInv

\* Every step of the observer, its callers and the system, and a stuttering one.
LEMMA PowerNextInv == PowerInv /\ [PowerNext]_powerVars => PowerInv'
<1> SUFFICES ASSUME PowerInv, [PowerNext]_powerVars PROVE PowerInv'
  OBVIOUS
<1>1. CASE UNCHANGED powerVars
  BY <1>1, PowerStutters DEF powerVars
<1>2. CASE PowerNext
  BY <1>1, <1>2, NotifyInv, StartInv, CallbackInv, LoopInv, RotateInv, EndInv, NewInv, CallInv, WaitInv
  DEF PowerNext, PowerFinished
<1> QED
  BY <1>1, <1>2

\* The invariant of the power observer: what is queued belongs to the generation of the
\* snapshot, and as long as nothing has spoilt the snapshot the log since the last Arm
\* is the beginning of one cycle.
THEOREM PowerInvariant == PowerSpec => []PowerInv
BY PowerInitInv, PowerNextInv, PTL DEF PowerSpec

\* A cycle that Wait reports was one sleep then one wake after the Arm of its
\* generation, for any number of observers, generations and notifications
\* (diagnostic_power_wait, diagnostic_power_reduce and power_main).
THEOREM CycleIsRealHolds == PowerSpec => []CycleIsReal
<1>1. PowerInv => CycleIsReal
  BY DEF PowerInv
<1> QED
  BY <1>1, PowerInvariant, PTL


=============================================================================
