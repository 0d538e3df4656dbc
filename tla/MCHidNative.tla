----------------------------- MODULE MCHidNative -----------------------------
(* An instance of HidNative for TLC. *)
EXTENDS HidNative

CONSTANTS o1, o2, n1, n2, e1

TwoOpens     == {o1, o2}
TwoEnums     == {n1, n2}
OneEndpoint  == {e1}

\* The calls that have begun or whose context has expired.
Begun == {c \in Calls : pc[c] # "start" \/ ctx[c]}

\* Any three of the calls.
ThreeCalls == Cardinality(Begun) <= 3

ThreeCallsSpec ==
    Init /\ [][Next /\ ThreeCalls']_vars /\ SchedulerFairness /\ SlotFairness

==============================================================================
