------------------------------ MODULE WireBle -------------------------------
(* The framing of pkg/wire/ble: a two-byte length before the data of the    *)
(* first fragment, bare data in the others.  A fragment is its bytes, and   *)
(* "total" is the length that the first two of them say when it is taken    *)
(* for a first one, the largest there is when they are bytes of a payload.  *)
EXTENDS Naturals, Sequences

CONSTANTS mtu,        \* of the connection, more than 2
          maxTotal    \* the largest length the two bytes can say

ASSUME BleAssumption == mtu \in Nat /\ mtu > 2 /\ maxTotal \in Nat

bleMin(m, n) == IF m < n THEN m ELSE n

blePayloadFits(payload) == Len(payload) <= maxTotal

bleFragmentsAfter(n) == (n + mtu - 1) \div mtu

\* The two bytes of a length, which are no bytes of a payload.
bleLength == << <<0>>, <<1>> >>

bleFragment(payload) ==
  LET first == bleMin(Len(payload), mtu - 2)
  IN  <<[total |-> Len(payload), bytes |-> bleLength \o SubSeq(payload, 1, first)]>>
      \o [p \in 1..bleFragmentsAfter(Len(payload) - first) |->
            [total |-> maxTotal,
             bytes |-> SubSeq(payload, first + (p - 1) * mtu + 1,
                              bleMin(Len(payload), first + p * mtu))]]

bleAssembler == [started |-> FALSE, total |-> 0, buffer |-> <<>>, done |-> FALSE, failed |-> FALSE]

\* A fragment longer than the MTU, or too short for the length it begins with.
bleMisfit(a, f) == Len(f.bytes) > mtu \/ (~a.started /\ Len(f.bytes) < 2)

\* Bytes beyond the announced length are dropped.
bleAdd(a, f) ==
  LET total == IF a.started THEN a.total ELSE f.total
      data  == IF a.started THEN f.bytes ELSE SubSeq(f.bytes, 3, Len(f.bytes))
      grown == a.buffer \o SubSeq(data, 1, bleMin(total - Len(a.buffer), Len(data)))
  IN  IF a.done \/ bleMisfit(a, f) THEN [a EXCEPT !.failed = TRUE]
      ELSE [a EXCEPT !.started = TRUE, !.total = total, !.buffer = grown,
                     !.done = Len(grown) >= total]
=============================================================================
