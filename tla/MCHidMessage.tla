----------------------------- MODULE MCHidMessage ----------------------------
(* Instances of HidMessage for TLC. *)
EXTENDS HidMessage

\* The values of the payload's bytes tell the positions apart.
PayloadOf(n) == [i \in 1..n |-> i % Byte]

\* Everything Fragment accepts, at the limits of the length field and beyond one
\* round of sequence numbers.
FittingPayloads == {PayloadOf(n) : n \in {m \in 0..20 : Fits(PayloadOf(m))}}

==============================================================================
