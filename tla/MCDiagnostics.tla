---------------------------- MODULE MCDiagnostics ----------------------------
(* The diagnostics for TLC: the scenario runner and the power observer, one  *)
(* at a time.                                                                *)
EXTENDS PowerObserver, DiagnosticsRunner

Check(id) == [id |-> id, sound |-> TRUE, mode |-> "deterministic", available |-> TRUE,
              validated |-> FALSE]

MCCatalogs ==
  {<<Check("a"), [Check("b") EXCEPT !.validated = TRUE, !.mode = "enabled"]>>,
   <<[Check("a") EXCEPT !.mode = "disabled"], [Check("b") EXCEPT !.available = FALSE]>>,
   <<Check("a"), Check("a")>>,
   <<[Check("b") EXCEPT !.sound = FALSE]>>,
   <<[Check("b") EXCEPT !.mode = "unknown"]>>}

MCSelectors == {<<>>, <<"b">>, <<"c">>, <<"b", "b">>}

RunnerOff ==
  /\ scenarios = << >> /\ ids = << >> /\ runCtx = "nil" /\ step = "done" /\ at = 1
  /\ expired = FALSE /\ scope = NoScope /\ helper = FALSE /\ cleanup = << >>
  /\ result = NewResult /\ results = << >> /\ runErr = "none" /\ entry = NoEntry
  /\ history = << >>

DiagnosticsInit == PowerInit /\ (RunnerInit \/ RunnerOff)

DiagnosticsNext ==
  \/ RunnerOff /\ PowerNext /\ UNCHANGED runnerVars
  \/ RunnerNext /\ UNCHANGED powerVars

DiagnosticsSpec == DiagnosticsInit /\ [][DiagnosticsNext]_<<powerVars, runnerVars>>
=============================================================================
