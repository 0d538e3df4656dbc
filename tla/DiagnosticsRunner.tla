-------------------------- MODULE DiagnosticsRunner --------------------------
(***************************************************************************)
(* The scenario runner of internal/diagnostics: Select and Run, with the   *)
(* Scope that scenario callbacks, their cleanups and their helper          *)
(* goroutines use.  Everything under Scope.mu is one step.                 *)
(*                                                                         *)
(* A scenario here is an id, whether its callback and timeout are there,   *)
(* its mode ("deterministic", "enabled", "disabled" or "unknown"), whether *)
(* its requirements are available and whether it has a validator.          *)
(* Evidence is the number of observations recorded so far: each of them    *)
(* changes it.  A cleanup is the number under which it was registered.     *)
(***************************************************************************)
EXTENDS Naturals, Sequences

CONSTANTS
  Catalogs,        \* lists of scenarios
  Selectors,       \* lists of ids asked for
  maxCleanups,     \* bound: cleanups of a scenario
  maxFacts         \* bound: observations of a scenario

ASSUME RunnerAssumption ==
  /\ \A list \in Catalogs : list \in Seq({list[i] : i \in DOMAIN list})
  /\ \A list \in Selectors : list \in Seq({list[i] : i \in DOMAIN list})

VARIABLES
  scenarios,       \* the catalog, and what Select made of it
  ids,             \* the requested ids
  runCtx,          \* the context of Run: "nil", "live" or "cancelled"
  step,            \* where Run is
  at,              \* the scenario it is at
  expired,         \* the scenario's timeout has passed
  scope,           \* what the scenario has recorded
  helper,          \* the callback has started a goroutine that it does not wait for
  cleanup,         \* the cleanups still to be invoked
  result,          \* the Result of the scenario
  results,         \* the Report's
  runErr,          \* what Run returns beside the report: "none", "ctx" or "invalid"
  entry,           \* what happened in the scenario
  history          \* and in those before it

runnerVars == <<scenarios, ids, runCtx, step, at, expired, scope, helper, cleanup, result,
                results, runErr, entry, history>>

NoScope == [cleanup |-> << >>, facts |-> 0]

NewResult == [status |-> "PASS", failed |-> FALSE, facts |-> 0]

NoEntry == [ran |-> FALSE, returned |-> "nil", timely |-> TRUE, registered |-> << >>,
            attempted |-> << >>, failed |-> FALSE, approved |-> << >>]

RunnerInit ==
  /\ scenarios \in Catalogs /\ ids \in Selectors
  /\ runCtx \in {"nil", "live"} /\ step = "select" /\ at = 1 /\ expired = FALSE
  /\ scope = NoScope /\ helper = FALSE /\ cleanup = << >> /\ result = NewResult
  /\ results = << >> /\ runErr = "none" /\ entry = NoEntry /\ history = << >>

scenario == scenarios[at]

\* Run returns.
finish(err) == step' = "done" /\ runErr' = err

-----------------------------------------------------------------------------
(* Before anything runs. *)

Distinct(list) == \A i, j \in DOMAIN list : list[i] = list[j] => i = j

Ids(list) == [i \in DOMAIN list |-> list[i].id]

Find(id) == scenarios[CHOOSE i \in DOMAIN scenarios : scenarios[i].id = id]

\* All requested ids are resolved, or nothing runs.
Select ==
  /\ step = "select"
  /\ IF ids = << >>
     THEN step' = "run" /\ UNCHANGED <<scenarios, runErr>>
     ELSE IF /\ Distinct(Ids(scenarios)) /\ Distinct(ids)
             /\ \A i \in DOMAIN ids : \E j \in DOMAIN scenarios : scenarios[j].id = ids[i]
     THEN /\ scenarios' = [i \in DOMAIN ids |-> Find(ids[i])]
          /\ step' = "run" /\ UNCHANGED runErr
     ELSE finish("invalid") /\ UNCHANGED scenarios
  /\ UNCHANGED <<ids, runCtx, at, expired, scope, helper, cleanup, result, results, entry,
                 history>>

WellFormed ==
  /\ Distinct(Ids(scenarios))
  /\ \A i \in DOMAIN scenarios : scenarios[i].sound /\ scenarios[i].mode # "unknown"

Run ==
  /\ step = "run"
  /\ IF runCtx = "nil" \/ ~WellFormed THEN finish("invalid")
     ELSE step' = "next" /\ UNCHANGED runErr
  /\ UNCHANGED <<scenarios, ids, runCtx, at, expired, scope, helper, cleanup, result, results,
                 entry, history>>

-----------------------------------------------------------------------------
(* runScenario. *)

Skipped == scenario.mode = "disabled" \/ ~scenario.available

Report(r, e) ==
  /\ results' = Append(results, r) /\ history' = Append(history, e)
  /\ at' = at + 1 /\ step' = "next"

nextScenario ==
  /\ step = "next"
  /\ \/ /\ at > Len(scenarios) \/ runCtx = "cancelled"
        /\ finish(IF runCtx = "cancelled" THEN "ctx" ELSE "none")
        /\ UNCHANGED <<at, expired, scope, helper, result, results, entry, history>>
     \/ /\ at <= Len(scenarios) /\ runCtx # "cancelled" /\ Skipped
        /\ Report([NewResult EXCEPT !.status = "SKIP"], NoEntry)
        /\ UNCHANGED <<expired, scope, helper, result, runErr, entry>>
     \/ /\ at <= Len(scenarios) /\ runCtx # "cancelled" /\ ~Skipped
        /\ step' = "callback"
        /\ expired' = FALSE /\ scope' = NoScope /\ helper' = FALSE
        /\ result' = NewResult /\ entry' = [NoEntry EXCEPT !.ran = TRUE]
        /\ UNCHANGED <<at, results, runErr, history>>
  /\ UNCHANGED <<scenarios, ids, runCtx, cleanup>>

\* The callback, a cleanup or a helper uses the scope; a helper may do so long
\* after the callback has returned.  The scope of an earlier scenario is its own.
InScope == step \in {"callback", "cleanup"} \/ (helper /\ step # "done")

Observe ==
  /\ InScope /\ scope.facts < maxFacts
  /\ scope' = [scope EXCEPT !.facts = @ + 1]
  /\ UNCHANGED <<scenarios, ids, runCtx, step, at, expired, helper, cleanup, result, results,
                 runErr, entry, history>>

Defer ==
  /\ InScope /\ Len(scope.cleanup) < maxCleanups
  /\ scope' = [scope EXCEPT !.cleanup = Append(@, Len(@) + 1)]
  /\ UNCHANGED <<scenarios, ids, runCtx, step, at, expired, helper, cleanup, result, results,
                 runErr, entry, history>>

StartHelper ==
  /\ step = "callback" /\ ~helper
  /\ helper' = TRUE
  /\ UNCHANGED <<scenarios, ids, runCtx, step, at, expired, scope, cleanup, result, results,
                 runErr, entry, history>>

Timeout ==
  /\ step = "callback" /\ ~expired
  /\ expired' = TRUE
  /\ UNCHANGED <<scenarios, ids, runCtx, step, at, scope, helper, cleanup, result, results,
                 runErr, entry, history>>

Cancel ==
  /\ runCtx = "live" /\ step # "done"
  /\ runCtx' = "cancelled"
  /\ UNCHANGED <<scenarios, ids, step, at, expired, scope, helper, cleanup, result, results,
                 runErr, entry, history>>

\* bounded.Err() is nil.
InTime == ~expired /\ runCtx # "cancelled"

StatusOf(err) ==
  CASE err = "nil" -> IF InTime THEN "PASS" ELSE "FAIL"
    [] err \in {"SKIP", "INCONCLUSIVE"} -> err
    [] OTHER -> "FAIL"

\* A callback that panics returns an error (invoke).
callbackReturns ==
  /\ step = "callback"
  /\ \E err \in {"nil", "SKIP", "INCONCLUSIVE", "error"} :
       /\ result' = [result EXCEPT !.status = StatusOf(err)]
       /\ entry' = [entry EXCEPT !.returned = err, !.timely = InTime, !.registered = scope.cleanup]
  /\ step' = "snapshot"
  /\ UNCHANGED <<scenarios, ids, runCtx, at, expired, scope, helper, cleanup, results, runErr,
                 history>>

snapshotCleanup ==
  /\ step = "snapshot"
  /\ cleanup' = scope.cleanup
  /\ step' = "cleanup"
  /\ UNCHANGED <<scenarios, ids, runCtx, at, expired, scope, helper, result, results, runErr,
                 entry, history>>

\* The first cleanup that fails ends the loop.
invokeCleanupBroken ==
  /\ step = "cleanup" /\ cleanup # << >>
  /\ \E fails \in BOOLEAN :
       /\ result' = [result EXCEPT !.failed = @ \/ fails]
       /\ entry' = [entry EXCEPT !.failed = @ \/ fails,
                                 !.attempted = Append(@, cleanup[Len(cleanup)])]
       /\ cleanup' = IF fails THEN << >> ELSE SubSeq(cleanup, 1, Len(cleanup) - 1)
  /\ UNCHANGED <<scenarios, ids, runCtx, step, at, expired, scope, helper, results, runErr,
                 history>>

invokeCleanup ==
  /\ step = "cleanup" /\ cleanup # << >>
  /\ \E fails \in BOOLEAN :
       /\ result' = [result EXCEPT !.failed = @ \/ fails]
       /\ entry' = [entry EXCEPT !.failed = @ \/ fails,
                                 !.attempted = Append(@, cleanup[Len(cleanup)])]
  /\ cleanup' = SubSeq(cleanup, 1, Len(cleanup) - 1)
  /\ UNCHANGED <<scenarios, ids, runCtx, step, at, expired, scope, helper, results, runErr,
                 history>>

\* The cleanups have a budget of their own, which may be used up.
endCleanup ==
  /\ step = "cleanup" /\ cleanup = << >>
  /\ \E late \in BOOLEAN :
       /\ result' = [result EXCEPT !.failed = @ \/ late,
                                   !.status = IF result.failed \/ late THEN "FAIL" ELSE @]
       /\ entry' = [entry EXCEPT !.failed = @ \/ late]
  /\ step' = "copy"
  /\ UNCHANGED <<scenarios, ids, runCtx, at, expired, scope, helper, cleanup, results, runErr,
                 history>>

copyEvidence ==
  /\ step = "copy"
  /\ result' = [result EXCEPT !.facts = scope.facts]
  /\ step' = "validate"
  /\ UNCHANGED <<scenarios, ids, runCtx, at, expired, scope, helper, cleanup, results, runErr,
                 entry, history>>

validate ==
  /\ step = "validate"
  /\ \/ /\ result.status = "PASS" /\ scenario.validated
        /\ \/ Report(result, [entry EXCEPT !.approved = <<result.facts>>])
           \/ Report([result EXCEPT !.status = "FAIL"], entry)
     \/ /\ ~(result.status = "PASS" /\ scenario.validated)
        /\ Report(result, entry)
  /\ UNCHANGED <<scenarios, ids, runCtx, expired, scope, helper, cleanup, result, runErr, entry>>

Reported == step = "done" /\ UNCHANGED runnerVars

RunnerNext ==
  \/ Select \/ Run \/ nextScenario \/ Observe \/ Defer \/ StartHelper \/ Timeout \/ Cancel
  \/ callbackReturns \/ snapshotCleanup \/ invokeCleanup \/ endCleanup \/ copyEvidence
  \/ validate \/ Reported

RunnerSpec == RunnerInit /\ [][RunnerNext]_runnerVars

-----------------------------------------------------------------------------
(* Properties. *)

\* Every cleanup that was registered when the callback returned has been attempted,
\* the last one first, whichever of them failed and whatever a helper registered
\* meanwhile.
Undone(e) ==
  /\ Len(e.attempted) >= Len(e.registered)
  /\ \A k \in DOMAIN e.registered : e.attempted[Len(e.attempted) + 1 - k] = e.registered[k]

\* Every result in the report is what happened: a scenario is reported under the id
\* that was asked for and its cleanups were attempted in reverse order; PASS means
\* that the callback succeeded in time, that no cleanup failed and that the
\* validator has accepted the very evidence in the report, although helpers still
\* record; a failed cleanup is FAIL even where the callback said SKIP or
\* INCONCLUSIVE (Run, runScenario and Scope).
ResultsAreEarned ==
  \A i \in DOMAIN results :
    /\ i \in DOMAIN scenarios /\ (ids # << >> => scenarios[i].id = ids[i])
    /\ Undone(history[i])
    /\ history[i].failed => results[i].status = "FAIL"
    /\ results[i].status = "PASS" =>
         /\ history[i].ran /\ history[i].returned = "nil" /\ history[i].timely
         /\ scenarios[i].mode # "disabled" /\ scenarios[i].available
         /\ scenarios[i].validated => history[i].approved = <<results[i].facts>>
=============================================================================
