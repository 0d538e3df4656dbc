----------------------------- MODULE MCUsbSession ----------------------------
(* Instances of UsbSession for TLC. *)
EXTENDS UsbSession, FiniteSets, TLC

CONSTANTS x1, x2, c1

TwoExchanges == {x1, x2}
OneCloser    == {c1}

Begun == {c \in Calls : pc[c] # "start" \/ ctx[c]}

\* Two exchanges with other traffic and a second session; two exchanges and a Close;
\* or one exchange up to its request that repeats its handshake.
Mixes ==
    /\ Begun \cap Closers # {} => noise = 0 /\ sessions = 1
    /\ (\E x \in Exchanges : attempt[x] > 0) =>
          /\ Cardinality(Begun) = 1
          /\ sessions = 1
          /\ \A x \in Exchanges : sent[x] = 0

\* A handshake is repeated only while no other exchange has begun.  Neither the
\* beginning of a call nor the choice of another attempt, which the deadline of
\* the handshake can always take the place of, is a step that fairness demands.
LoneRetry ==
    (\E x \in Exchanges : attempt[x] > 0) => Cardinality(Begun \cap Exchanges) = 1

LoneRetrySpec == Init /\ [][Next /\ LoneRetry']_vars /\ SchedulerFairness

Symmetries == Permutations(Exchanges)

==============================================================================
