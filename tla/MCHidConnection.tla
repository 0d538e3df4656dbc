--------------------------- MODULE MCHidConnection ---------------------------
(* Instances of HidConnection for TLC. *)
EXTENDS HidConnection, FiniteSets, TLC

CONSTANTS r1, r2, w1, w2, c1

TwoReaders == {r1, r2}
OneReader  == {r1}
TwoWriters == {w1, w2}
OneWriter  == {w1}
OneCloser  == {c1}

\* Calls of one kind are interchangeable.
CallSymmetry == Permutations(Readers) \cup Permutations(Writers)
                \cup Permutations(Closers)

\* The calls that have begun or whose context has expired.
Begun == {c \in Calls : pc[c] # "start" \/ ctx[c]}

\* Two calls of any kinds; beside a Write the device sends no report.
Mixes ==
    /\ Cardinality(Begun) <= 2
    /\ Begun \cap Writers # {} => produced = 0

\* Only Reads or only Writes are made beside the Close.
OneKind == Begun \cap Readers = {} \/ Begun \cap Writers = {}

OneKindSpec == Init /\ [][Next /\ OneKind']_vars /\ SchedulerFairness

==============================================================================
