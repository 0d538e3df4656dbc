------------------------------- MODULE WireHid -------------------------------
(***************************************************************************)
(* The CTAPHID framing of pkg/wire/hid: Fragment and the incremental       *)
(* Assembler.  A packet is its channel and the bytes that follow it: the   *)
(* command and a two-byte length, or a sequence number, and then data,     *)
(* padded with zeros to the report size.                                   *)
(***************************************************************************)
EXTENDS Naturals, Sequences

CONSTANTS reportSize,              \* of the HID collection, in bytes
          maxContinuationPackets,  \* 128 in maxPayloadSize
          Byte                     \* the number of values of a byte: 256

ASSUME WireAssumption ==
    /\ reportSize \in Nat /\ reportSize > 7
    /\ maxContinuationPackets \in Nat
    /\ Byte \in Nat /\ Byte > 1

AtMost(m, n) == IF m < n THEN m ELSE n
Zeros(n)     == [i \in 1..n |-> 0]
FirstSize    == reportSize - 7
NextSize     == reportSize - 5

\* maxPayloadSize.
maxPayloadSize == FirstSize + maxContinuationPackets * NextSize

\* The length field of two bytes.
Encodable(n) == n < Byte * Byte

\* Fragment accepts the payload.
Fits(payload) == Len(payload) <= maxPayloadSize /\ Encodable(Len(payload))

Pad(bytes) == bytes \o Zeros(reportSize - 4 - Len(bytes))

Initial(channel, command, payload) ==
    [channel |-> channel,
     body |-> Pad(<<command, (Len(payload) \div Byte) % Byte, Len(payload) % Byte>>
                  \o SubSeq(payload, 1, AtMost(Len(payload), FirstSize)))]

\* The number of continuation packets: what is left, in chunks.
Continuations(n) == IF n <= FirstSize THEN 0 ELSE (n - FirstSize + NextSize - 1) \div NextSize

\* The continuation packet with index k, counted from 0.
Continuation(channel, payload, k) ==
    LET from == FirstSize + k * NextSize
    IN  [channel |-> channel,
         body |-> Pad(<<k % Byte>>
                      \o SubSeq(payload, from + 1, AtMost(Len(payload), from + NextSize)))]

\* Fragment of a payload that fits.
Fragment(channel, command, payload) ==
    <<Initial(channel, command, payload)>>
    \o [i \in 1..Continuations(Len(payload)) |-> Continuation(channel, payload, i - 1)]

------------------------------------------------------------------------------
(* Assembler. *)

NewAssembler(channel, command) ==
    [channel |-> channel, command |-> command, started |-> FALSE, done |-> FALSE,
     failed |-> FALSE, total |-> 0, nextSeq |-> 0, buffer |-> <<>>]

\* The data of a packet from byte i on, cut off at the announced length.
Data(body, i, left) == SubSeq(body, i, i + AtMost(left, reportSize - 3 - i) - 1)

\* One byte more than announced.
CompleteBroken(n, total) == n > total

Complete(n, total) == n >= total

Refuse(a) == [a EXCEPT !.failed = TRUE]

\* The first packet: command, length and data.
AddInitial(a, body) ==
    LET total == body[2] * Byte + body[3]
        data  == Data(body, 4, total)
    IN  IF body[1] # a.command
        THEN Refuse(a)
        ELSE [a EXCEPT !.started = TRUE, !.total = total, !.buffer = data,
                       !.done = Complete(Len(data), total)]

InSequence(a, body) == body[1] = a.nextSeq

\* A further packet: the sequence number is one byte and wraps.
AddContinuation(a, body) ==
    LET buffer == a.buffer \o Data(body, 2, a.total - Len(a.buffer))
    IN  IF ~InSequence(a, body)
        THEN Refuse(a)
        ELSE [a EXCEPT !.nextSeq = (@ + 1) % Byte, !.buffer = buffer,
                       !.done = Complete(Len(buffer), a.total)]

Add(a, packet) ==
    IF a.done \/ Len(packet.body) # reportSize - 4 \/ packet.channel # a.channel
    THEN Refuse(a)
    ELSE IF a.started THEN AddContinuation(a, packet.body) ELSE AddInitial(a, packet.body)

==============================================================================
