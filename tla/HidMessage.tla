----------------------------- MODULE HidMessage ------------------------------
(***************************************************************************)
(* The reading of one CTAPHID response in pkg/transport/usb                *)
(* (readHIDMessage, discardHIDMessage, readHIDError and hidChannelReader)  *)
(* from the packets of a connection that other clients' traffic reaches    *)
(* too.  The authenticator is external: it sends messages on the channel   *)
(* of the exchange one after the other and on another channel at the same  *)
(* time, so their packets interleave.                                      *)
(***************************************************************************)
EXTENDS WireHid

CONSTANTS Own, Other,                       \* channels
          command,                          \* of the request
          hidCommandKeepalive, hidCommandError,
          Payloads,                         \* the payloads that are sent
          MaxKeepalives                     \* bound on keepalives before the answer

ASSUME MessageAssumption ==
    /\ Own # Other
    /\ command # hidCommandKeepalive /\ command # hidCommandError
    /\ hidCommandKeepalive # hidCommandError
    /\ \A p \in Payloads : p \in Seq(Nat) /\ Fits(p)
    /\ MaxKeepalives \in Nat

VARIABLES messages,   \* what the authenticator sends on the own channel
          sent,       \* how many of them it has begun to send
          own, other, \* the packets of the current message still to come on each channel
          mode,       \* where readHIDMessage is
          assembler,
          result      \* what it returns

vars == <<messages, sent, own, other, mode, assembler, result>>

Send(channel, m) == Fragment(channel, m.command, m.payload)

Commands == {command, hidCommandKeepalive, hidCommandError}

\* Keepalives, the answer, and the first message after it.
Scripts ==
    {[i \in 1..(n + 2) |-> IF i <= n THEN [command |-> hidCommandKeepalive, payload |-> k]
                           ELSE IF i = n + 1 THEN [command |-> c, payload |-> p]
                           ELSE [command |-> command, payload |-> <<>>]] :
        n \in 0..MaxKeepalives, k \in Payloads, c \in Commands \ {hidCommandKeepalive},
        p \in Payloads}

Pending == [kind |-> "pending", payload |-> <<>>]

Init ==
    /\ messages \in Scripts
    /\ sent = 0 /\ own = <<>>
    /\ \E c \in Commands, p \in Payloads :
          other = Send(Other, [command |-> c, payload |-> p])
    /\ mode = "first"
    /\ assembler = NewAssembler(Own, command)
    /\ result = Pending

Return(kind, payload) == result' = [kind |-> kind, payload |-> payload] /\ mode' = "done"

\* hidChannelReader.
ForChannel(packet) == packet.channel = Own

\* The answer is returned whole.
Answered(payload) == Return("response", payload)

\* A keepalive is forgotten and the answer awaited.
Discarded(payload) == mode' = "first" /\ UNCHANGED result

\* An error of one byte is the device's, any other is malformed.
DeviceError(payload) ==
    IF Len(payload) = 1 THEN Return("device", payload) ELSE Return("fault", <<>>)

\* The message that was being read in this mode is complete.
MessageRead(reading, payload) ==
    \/ reading = "discard" /\ Discarded(payload)
    \/ reading = "error" /\ DeviceError(payload)
    \/ reading = "body" /\ Answered(payload)

\* A packet is added to the assembler a, which may complete the message.
Assemble(a, packet, reading) ==
    LET b == Add(a, packet)
    IN  /\ assembler' = b
        /\ \/ b.failed /\ Return("fault", <<>>)
           \/ ~b.failed /\ b.done /\ MessageRead(reading, b.buffer)
           \/ ~b.failed /\ ~b.done /\ mode' = reading /\ UNCHANGED result

\* The first packet of a message selects what is read.
First(packet) ==
    \/ /\ packet.body[1] = hidCommandKeepalive
       /\ Assemble(NewAssembler(Own, hidCommandKeepalive), packet, "discard")
    \/ /\ packet.body[1] = hidCommandError
       /\ Assemble(NewAssembler(Own, hidCommandError), packet, "error")
    \/ /\ packet.body[1] \notin {hidCommandKeepalive, hidCommandError}
       /\ Assemble(NewAssembler(Own, command), packet, "body")

\* The reader takes the next packet of the connection.
Take(packet) ==
    \/ ~ForChannel(packet) /\ UNCHANGED <<mode, assembler, result>>
    \/ /\ ForChannel(packet)
       /\ \/ mode = "first" /\ First(packet)
          \/ mode # "first" /\ Assemble(assembler, packet, mode)

\* The authenticator: a message begins when the packets of the last one are through.
SendNext ==
    /\ own = <<>> /\ sent < Len(messages)
    /\ sent' = sent + 1
    /\ own' = Send(Own, messages[sent'])
    /\ UNCHANGED <<messages, other, mode, assembler, result>>

TakeOwn ==
    /\ mode # "done"
    /\ own # <<>>
    /\ Take(Head(own))
    /\ own' = Tail(own)
    /\ UNCHANGED <<messages, sent, other>>

TakeOther ==
    /\ mode # "done"
    /\ other # <<>>
    /\ Take(Head(other))
    /\ other' = Tail(other)
    /\ UNCHANGED <<messages, sent, own>>

\* The context of the exchange expires.
Cancel ==
    /\ mode # "done"
    /\ Return("ctx", <<>>)
    /\ UNCHANGED <<messages, sent, own, other, assembler>>

Finished == mode = "done" /\ UNCHANGED vars

Next == SendNext \/ TakeOwn \/ TakeOther \/ Cancel \/ Finished

Spec == Init /\ [][Next]_vars

------------------------------------------------------------------------------
(* Properties. *)

TypeOK ==
    /\ messages \in Scripts
    /\ mode \in {"first", "discard", "error", "body", "done"}
    /\ result.kind \in {"pending", "response", "device", "fault", "ctx"}
    /\ \A a \in {assembler} : /\ a.channel = Own /\ a.command \in Commands
                              /\ Len(a.buffer) <= a.total
                              /\ a.nextSeq \in 0..(Byte - 1)

\* The first message that is not a keepalive.
Answer == messages[CHOOSE i \in 1..Len(messages) :
                       /\ messages[i].command # hidCommandKeepalive
                       /\ \A j \in 1..(i - 1) : messages[j].command = hidCommandKeepalive]

\* What the exchange should return, by messages instead of packets.
Expected ==
    IF Answer.command = command
    THEN [kind |-> "response", payload |-> Answer.payload]
    ELSE IF Len(Answer.payload) = 1
    THEN [kind |-> "device", payload |-> Answer.payload]
    ELSE [kind |-> "fault", payload |-> <<>>]

\* The reader returns exactly the first answer on its channel, however its packets
\* interleave with another channel's and whatever keepalives come first.  No packet
\* of the message after the answer is consumed: it is still there for whoever reads
\* next.
ReadsItsAnswer ==
    mode = "done" /\ result.kind # "ctx" =>
        /\ result = Expected
        /\ \/ sent = Len(messages) - 1 /\ own = <<>>
           \/ sent = Len(messages) /\ own = Send(Own, messages[sent])

==============================================================================
