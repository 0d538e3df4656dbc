--------------------------- MODULE PacketSession ----------------------------
(***************************************************************************)
(* The sessions that own no connection worker: NFC (pkg/transport/nfc),    *)
(* BLE (pkg/transport/ble) and the injected USB backend                    *)
(* (pkg/transport/usb/backend.go).  Exchange holds the session's mutex     *)
(* over all its packets; Close takes no mutex.  Nothing resynchronizes the *)
(* device after an exchange that failed half way.                          *)
(* The device is external: it executes what it takes for a request and     *)
(* answers it in pieces.                                                   *)
(***************************************************************************)
EXTENDS WireNfc, WireBle, WireHid

CONSTANTS Callers, Nobody,
          Lengths,         \* of requests and of responses
          pieceSize,       \* what the card puts into one response APDU
          channel, cmd,    \* of the injected USB backend
          maxFailures      \* bound on failed packets

ASSUME SessionAssumption ==
  Nobody \notin Callers /\ Lengths \subseteq Nat /\ pieceSize \in Nat \ {0}

VARIABLES kind,       \* "nfc", "ble" or "usb"
          mu,         \* the holder of the session's mutex
          exchange,   \* per caller: its Exchange
          device,     \* what the device has collected, and what it still has to say
          executed,   \* the requests the device has executed
          closed,     \* the connection is closed
          spoiled,    \* an exchange stopped where the next one meets its remains
          failures

sessionVars == <<kind, mu, exchange, device, executed, closed, spoiled, failures>>

Request(c, n) == [i \in 1..n |-> <<c, i>>]

\* A response tells which request it answers.
Response(request, n) == [i \in 1..n |-> <<request, i>>]

codecFragment(payload) ==
  CASE kind = "nfc" -> nfcFragment(payload)
    [] kind = "ble" -> bleFragment(payload)
    [] OTHER        -> Fragment(channel, cmd, payload)

codecAssembler ==
  CASE kind = "nfc" -> nfcAssembler
    [] kind = "ble" -> bleAssembler
    [] OTHER        -> NewAssembler(channel, cmd)

codecAdd(a, packet) ==
  CASE kind = "nfc" -> nfcAdd(a, packet)
    [] kind = "ble" -> bleAdd(a, packet)
    [] OTHER        -> Add(a, packet)

payloadFits(payload) ==
  CASE kind = "nfc" -> TRUE
    [] kind = "ble" -> blePayloadFits(payload)
    [] OTHER        -> Fits(payload)

NoExchange == [pc |-> "idle", request |-> <<>>, packets |-> <<>>,
               assembler |-> <<>>, ok |-> FALSE, answer |-> <<>>]

SessionInit ==
  /\ kind \in {"nfc", "ble", "usb"}
  /\ mu = Nobody
  /\ exchange = [c \in Callers |-> NoExchange]
  /\ device = [inbound |-> <<>>, outbound |-> <<>>]
  /\ executed = {}
  /\ closed = FALSE /\ spoiled = FALSE /\ failures = 0

----------------------------------------------------------------------------
(* The device.                                                             *)

\* The pieces of an NFC response, the last one with 9000.
Pieces(response) ==
  LET n == IF response = <<>> THEN 1 ELSE (Len(response) + pieceSize - 1) \div pieceSize
  IN  [p \in 1..n |-> [data |-> SubSeq(response, (p - 1) * pieceSize + 1,
                                       IF p = n THEN Len(response) ELSE p * pieceSize),
                       sw |-> IF p = n THEN "9000" ELSE "61xx"]]

\* A card collects a chain, executes its last command, and gives its answer up
\* when the next command arrives.  "n" is the length of its response; a card
\* may also refuse any packet with a status word.
CardAfter(packet, n, refuses) ==
  LET request == device.inbound \o packet.data
  IN  IF refuses \/ (packet.ins = "getResponse" /\ device.outbound = <<>>)
      THEN [reply |-> [data |-> <<>>, sw |-> "error"], ran |-> {}, device |-> device]
      ELSE CASE packet.ins = "getResponse" ->
             [reply |-> Head(device.outbound), ran |-> {},
              device |-> [device EXCEPT !.outbound = Tail(@)]]
        [] packet.ins = "command" /\ packet.chained ->
             [reply |-> [data |-> <<>>, sw |-> "9000"], ran |-> {},
              device |-> [inbound |-> request, outbound |-> <<>>]]
        [] OTHER ->
             LET pieces == Pieces(Response(request, n))
             IN  [reply |-> Head(pieces), ran |-> {request},
                  device |-> [inbound |-> <<>>, outbound |-> Tail(pieces)]]

\* A BLE or USB device executes a request once all its packets have arrived.
PeerAfter(packet, n) ==
  LET collected == codecAdd(IF device.inbound = <<>> THEN codecAssembler ELSE device.inbound[1], packet)
  IN  IF collected.failed THEN [ran |-> {}, device |-> [device EXCEPT !.inbound = <<>>]]
      ELSE IF collected.done
      THEN [ran |-> {collected.buffer},
            device |-> [inbound |-> <<>>,
                        outbound |-> device.outbound \o codecFragment(Response(collected.buffer, n))]]
      ELSE [ran |-> {}, device |-> [device EXCEPT !.inbound = <<collected>>]]

----------------------------------------------------------------------------
(* The session.                                                            *)

Enter(c, n) ==
  /\ exchange[c].pc = "idle"
  /\ exchange' = [exchange EXCEPT ![c] = [@ EXCEPT !.pc = "lock", !.request = Request(c, n)]]
  /\ UNCHANGED <<kind, mu, device, executed, closed, spoiled, failures>>

Leave(c, e, ok, answer) ==
  /\ mu' = Nobody
  /\ exchange' = [exchange EXCEPT ![c] = [e EXCEPT !.pc = "done", !.ok = ok, !.answer = answer]]

LockBroken(c) ==
  /\ exchange[c].pc = "lock"
  /\ mu' = c
  /\ exchange' = [exchange EXCEPT ![c] = [@ EXCEPT !.pc = "send", !.assembler = codecAssembler,
                                                   !.packets = codecFragment(exchange[c].request)]]
  /\ UNCHANGED <<kind, device, executed, closed, spoiled, failures>>

\* Exchange takes the mutex and cuts the request into packets.
Lock(c) ==
  /\ exchange[c].pc = "lock" /\ mu = Nobody
  /\ IF payloadFits(exchange[c].request)
     THEN /\ mu' = c
          /\ exchange' = [exchange EXCEPT ![c] =
                            [@ EXCEPT !.pc = "send", !.assembler = codecAssembler,
                                      !.packets = codecFragment(exchange[c].request)]]
     ELSE Leave(c, exchange[c], FALSE, <<>>)
  /\ UNCHANGED <<kind, device, executed, closed, spoiled, failures>>

\* Only the injected USB backend gives the wait for the mutex up.
LockCancelled(c) ==
  /\ kind = "usb" /\ exchange[c].pc = "lock"
  /\ exchange' = [exchange EXCEPT ![c].pc = "done"]
  /\ UNCHANGED <<kind, mu, device, executed, closed, spoiled, failures>>

\* A response packet is added to the assembler; the payload may be complete.
Receive(c, e, packet) ==
  LET a == codecAdd(e.assembler, packet)
      f == [e EXCEPT !.assembler = a, !.pc = "receive"]
  IN  CASE a.failed -> Leave(c, f, FALSE, <<>>)
        [] a.done /\ ~a.failed -> Leave(c, f, TRUE, a.buffer)
        [] OTHER  -> exchange' = [exchange EXCEPT ![c] = f] /\ mu' = mu

\* NFC: one APDU there and back, of the command or a GET RESPONSE.
Transceive(c, n, refuses) ==
  LET e       == exchange[c]
      sending == e.pc = "send"
      packet  == IF sending THEN Head(e.packets) ELSE GetResponsePacket
      after   == CardAfter(packet, n, refuses)
      rest    == IF sending THEN [e EXCEPT !.packets = Tail(@)] ELSE e
  IN  /\ kind = "nfc" /\ ~closed /\ e.pc \in {"send", "receive"}
      /\ device' = after.device /\ executed' = executed \cup after.ran
      /\ IF rest.packets # <<>>
         THEN IF ValidateInterimResponse(after.reply)
              THEN exchange' = [exchange EXCEPT ![c] = rest] /\ mu' = mu
              ELSE Leave(c, rest, FALSE, <<>>)
         ELSE Receive(c, rest, after.reply)
      /\ refuses => failures < maxFailures
      /\ failures' = IF refuses THEN failures + 1 ELSE failures
      /\ spoiled' = (spoiled \/ (refuses /\ sending))
      /\ UNCHANGED <<kind, closed>>

\* BLE and USB: all packets are written, then the response is read.
WritePacket(c, n) ==
  LET e     == exchange[c]
      after == PeerAfter(Head(e.packets), n)
  IN  /\ kind # "nfc" /\ ~closed /\ e.pc = "send" /\ payloadFits(Response(<<>>, n))
      /\ device' = after.device /\ executed' = executed \cup after.ran
      /\ exchange' = [exchange EXCEPT ![c] =
                        [@ EXCEPT !.packets = Tail(e.packets),
                                  !.pc = IF Len(e.packets) = 1 THEN "receive" ELSE "send"]]
      /\ UNCHANGED <<kind, mu, closed, spoiled, failures>>

ReadPacket(c) ==
  /\ kind # "nfc" /\ ~closed /\ exchange[c].pc = "receive" /\ device.outbound # <<>>
  /\ Receive(c, exchange[c], Head(device.outbound))
  /\ device' = [device EXCEPT !.outbound = Tail(@)]
  /\ UNCHANGED <<kind, executed, closed, spoiled, failures>>

\* A packet fails, for the context or the device: Exchange returns and leaves
\* the device as it is.  Only a card that has the whole command forgets it.
PacketFails(c) ==
  LET e == exchange[c]
  IN  /\ e.pc \in {"send", "receive"} /\ (closed \/ failures < maxFailures)
      /\ failures' = IF closed THEN failures ELSE failures + 1
      /\ spoiled' = (spoiled \/ kind # "nfc" \/ e.pc = "send")
      /\ Leave(c, e, FALSE, <<>>)
      /\ UNCHANGED <<kind, device, executed, closed>>

CloseSession == closed' = TRUE /\ UNCHANGED <<kind, mu, exchange, device, executed, spoiled, failures>>

SessionDone == /\ \A c \in Callers : exchange[c].pc = "done"
               /\ UNCHANGED sessionVars

SessionNext ==
  \/ \E c \in Callers, n \in Lengths :
       \/ Enter(c, n) \/ WritePacket(c, n)
       \/ \E refuses \in BOOLEAN : Transceive(c, n, refuses)
  \/ \E c \in Callers : Lock(c) \/ LockCancelled(c) \/ ReadPacket(c) \/ PacketFails(c)
  \/ CloseSession \/ SessionDone

SessionSpec == SessionInit /\ [][SessionNext]_sessionVars

----------------------------------------------------------------------------
(* Properties.                                                             *)

\* However concurrent exchanges and Close interleave, every answer an Exchange
\* returns is the whole response to its own request, and the device executes
\* no request that was not made: until an exchange fails half way on BLE or
\* USB, and on NFC even after one failed while the answer was being fetched,
\* since the next command makes the card drop the rest.
AnswerIsOwn ==
  ~spoiled =>
    /\ executed \subseteq {exchange[c].request : c \in Callers}
    /\ \A c \in Callers : exchange[c].pc = "done" /\ exchange[c].ok =>
         \E n \in Lengths : exchange[c].answer = Response(exchange[c].request, n)
=============================================================================
