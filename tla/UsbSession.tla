------------------------------ MODULE UsbSession ------------------------------
(***************************************************************************)
(* A CTAPHID session of pkg/transport/usb (hidSession) over one opened HID *)
(* connection: the exchange gate, the INIT and PING handshake with its     *)
(* retries, the application exchange, retirement and Close.                *)
(*                                                                         *)
(* A member of Exchanges is one call of Exchange or ExchangeHID, and also  *)
(* names its application request.  A message is one step here; that the    *)
(* packets of a response are filtered and assembled correctly is           *)
(* HidMessage's subject.  The request is written packet by packet, because *)
(* the delivery evidence counts packets.  The connection is pkg/hid's      *)
(* contract: a Write reports an outcome and an error retires it, a Read    *)
(* takes the oldest input, a local wait leaves it open.                    *)
(*                                                                         *)
(* The authenticator is external.  It allocates a new channel for every    *)
(* INIT it answers, answers a command at most once, and may answer late    *)
(* or never.  Other clients' traffic reaches the connection too.           *)
(***************************************************************************)
EXTENDS Naturals, Sequences

CONSTANTS Exchanges,           \* the calls of Exchange
          Closers,             \* the calls of CloseContext
          Packets,             \* the number of packets of an application request
          hidInitBusyRetries,
          MaxNoise,            \* bound on the messages of other traffic
          MaxSessions          \* bound on the sessions opened one after the other

Calls == Exchanges \cup Closers
None  == "none"

ASSUME SessionAssumption ==
    /\ Exchanges \cap Closers = {}
    /\ Exchanges \cap {None, "broadcast", "foreign"} = {}
    /\ Packets \in Nat \ {0}
    /\ hidInitBusyRetries \in Nat
    /\ MaxNoise \in Nat
    /\ MaxSessions \in Nat \ {0}

\* Channels and the tags of messages are pairs: of a call and its attempt, or one
\* of these.
NoChannel == <<"none", 0>>
Broadcast == <<"broadcast", 0>>
Foreign   == <<"foreign", 0>>

VARIABLES
    holder,     \* the exchange whose token is in mu.busy
    closing,    \* session.closing
    conn,       \* the connection is open
    channelID,  \* session.channelID, NoChannel for 0
    candidate,  \* the channel that initializeChannel tries out
    input,      \* the input the connection holds, as messages
    progress,   \* session.progress
    pc, ctx, err,
    attempt,    \* attempt of retryHIDHandshake
    sent,       \* packets of the application request written so far
    evidence,   \* the ExchangeError of a failed exchange
    got,        \* the request whose response the exchange returned
    outbox,     \* the messages the authenticator has yet to send
    limbo,      \* reports whose delivery is unknown
    received,   \* packets of an application request that the authenticator got
    noise,      \* number of messages of other traffic
    sessions    \* number of sessions opened

endVars    == <<holder, closing, conn, channelID, candidate, input>>
callVars   == <<pc, err, evidence, got>>
deviceVars == <<outbox, limbo, received>>
vars == <<endVars, callVars, deviceVars, progress, ctx, attempt, sent, noise, sessions>>

\* The nonce of an INIT is also the name of the channel it allocates.
Nonce(x) == <<x, attempt[x]>>

\* The tag of the response to an application request.
Own(x) == <<x, 0>>

Message(cid, kind, tag) == [cid |-> cid, kind |-> kind, tag |-> tag]
Progress(stage, packets, outcome, ambiguous) ==
    [stage |-> stage, packets |-> packets, outcome |-> outcome, ambiguous |-> ambiguous]
Fresh(stage) == Progress(stage, 0, "NotSubmitted", FALSE)

\* session.progress = nil between exchanges.
NoProgress == Fresh("INIT")

Init ==
    /\ holder = None /\ closing = FALSE /\ conn = TRUE /\ channelID = NoChannel
    /\ candidate = NoChannel /\ input = <<>> /\ progress = NoProgress
    /\ pc = [c \in Calls |-> "start"]
    /\ ctx = [c \in Calls |-> FALSE]
    /\ err = [c \in Calls |-> "none"]
    /\ attempt = [x \in Exchanges |-> 0]
    /\ sent = [x \in Exchanges |-> 0]
    /\ evidence = [x \in Exchanges |-> NoProgress]
    /\ got = [x \in Exchanges |-> NoChannel]
    /\ outbox = {} /\ limbo = {}
    /\ received = [x \in Exchanges |-> <<>>]
    /\ noise = 0 /\ sessions = 1

Goto(c, l) == pc' = [pc EXCEPT ![c] = l] /\ UNCHANGED <<err, evidence, got>>

Return(c, e) ==
    /\ pc' = [pc EXCEPT ![c] = "returned"]
    /\ err' = [err EXCEPT ![c] = e]

------------------------------------------------------------------------------
(* The gate, retirement and the end of an exchange. *)

\* retire: closing is set and the connection closed.
Retire == closing' = TRUE /\ conn' = FALSE /\ input' = <<>>

\* A busy device ends the session.
DefinitiveBroken(e) == e = "device"

\* errors.As(resultErr, &deviceError): the device itself has answered.
Definitive(e) == e \in {"busy", "device"}

\* A lost answer after complete writes is not ambiguous.
AmbiguousBroken(e, p) == p.ambiguous

\* The report of a write that completed without a definitive answer.
Ambiguous(e, p) == p.ambiguous \/ (~Definitive(e) /\ p.packets > 0)

\* The progress of an exchange that fails with e.
Final(e, p) == Progress(p.stage, p.packets, p.outcome, Ambiguous(e, p))

\* The deferred function of exchange and the unlock.  Anything but the device's
\* own error retires the session; rest is the input that is left if it does not.
Fail(x, e, p, rest) ==
    /\ \/ Definitive(e) /\ input' = rest /\ UNCHANGED <<closing, conn>>
       \/ ~Definitive(e) /\ Retire
    /\ evidence' = [evidence EXCEPT ![x] = Final(e, p)]
    /\ Return(x, e)
    /\ holder' = None
    /\ progress' = NoProgress
    /\ candidate' = NoChannel
    /\ UNCHANGED <<channelID, got>>

\* Invalid arguments and an expired context end the call before the gate.
ExchangeCall(x) ==
    /\ pc[x] = "start"
    /\ \/ Return(x, "invalid") /\ UNCHANGED <<evidence, got>>
       \/ ctx[x] /\ Return(x, "ctx") /\ UNCHANGED <<evidence, got>>
       \/ ~ctx[x] /\ Goto(x, "lock")
    /\ UNCHANGED <<endVars, deviceVars, progress, ctx, attempt, sent, noise, sessions>>

CancelLock(x) == ctx[x] /\ UNCHANGED holder

\* lock: the token is free and the context has not expired, or the context ends
\* the wait (also when the token was just taken, and is given back).
ExchangeLock(x) ==
    /\ pc[x] = "lock"
    /\ \/ holder = None /\ ~ctx[x] /\ holder' = x /\ Goto(x, "admit")
       \/ CancelLock(x) /\ Return(x, "ctx") /\ UNCHANGED <<evidence, got>>
    /\ UNCHANGED <<closing, conn, channelID, candidate, input, deviceVars, progress, ctx, attempt,
                   sent, noise, sessions>>

\* hidCallError behind the gate; then the handshake or, on a channel that is
\* already known, the request.
ExchangeAdmit(x) ==
    /\ pc[x] = "admit"
    /\ \/ /\ ctx[x]
          /\ Retire
          /\ holder' = None
          /\ Return(x, "ctx")
          /\ UNCHANGED <<channelID, candidate, progress, evidence, got>>
       \/ /\ ~ctx[x] /\ closing
          /\ holder' = None
          /\ Return(x, "closed")
          /\ UNCHANGED <<closing, conn, channelID, candidate, input, progress, evidence, got>>
       \/ /\ ~ctx[x] /\ ~closing
          /\ \/ channelID = NoChannel /\ progress' = Fresh("INIT") /\ Goto(x, "attempt")
             \/ channelID # NoChannel /\ progress' = Fresh("request") /\ Goto(x, "send")
          /\ UNCHANGED endVars
    /\ UNCHANGED <<deviceVars, ctx, attempt, sent, noise, sessions>>

------------------------------------------------------------------------------
(* The authenticator receives a report: external. *)

Report(kind, x, seq, cid) == [kind |-> kind, of |-> x, seq |-> seq, cid |-> cid]

\* What it may answer, at any later time: nothing, an error or the reply.
Replies(r) ==
    LET answer(k, tag) == Message(r.cid, k, tag)
    IN  CASE r.kind = "init" -> {answer(k, Nonce(r.of)) :
                                    k \in {"init", "badInit", "busy", "device"}}
          [] r.kind = "ping" -> {answer(k, Nonce(r.of)) : k \in {"ping", "busy", "device"}}
          [] r.kind = "app" /\ r.seq = Packets ->
                                {answer(k, Own(r.of)) : k \in {"app", "busy", "device"}}
          [] OTHER -> {}

Gets(r) ==
    /\ \E answers \in {{}} \cup {{m} : m \in Replies(r)} : outbox' = outbox \cup answers
    /\ received' = IF r.kind = "app"
                   THEN [received EXCEPT ![r.of] = Append(@, r.seq)] ELSE received

------------------------------------------------------------------------------
(* One report: writePacket and readPacketWithTimeout. *)

Handshake == {"attempt", "initWrite", "initRead", "pingWrite", "pingRead", "retry"}

\* ctx.Err() of the context in use: the caller's, and during the handshake also
\* its own deadline, which may have passed at any time.
Lapsed(x) == ctx[x] \/ pc[x] \in Handshake

\* An unknown outcome makes the exchange ambiguous.
UnknownWrite(p)   == Progress(p.stage, p.packets, "Unknown", TRUE)
RefusedWrite(p)   == Progress(p.stage, p.packets, "NotSubmitted", p.ambiguous)
CompletedWrite(p) == Progress(p.stage, p.packets + 1, "Completed", p.ambiguous)

\* The report is written and the exchange goes on at l.
Written(x, r, l) ==
    /\ ~ctx[x] /\ ~closing /\ conn
    /\ Gets(r)
    /\ progress' = CompletedWrite(progress)
    /\ Goto(x, l)
    /\ UNCHANGED <<endVars, limbo>>

\* The write fails: before the connection is asked, or with an outcome and an
\* error of the connection (its own failure, the context, or the write timeout).
WriteFails(x, r) ==
    \/ /\ Lapsed(x)
       /\ Fail(x, "ctx", progress, input)
       /\ UNCHANGED deviceVars
    \/ /\ closing
       /\ Fail(x, "closed", progress, input)
       /\ UNCHANGED deviceVars
    \/ /\ ~closing
       /\ Fail(x, "fault", RefusedWrite(progress), input)
       /\ UNCHANGED deviceVars
    \/ /\ ~closing /\ conn
       /\ Fail(x, "fault", UnknownWrite(progress), input)
       /\ limbo' = limbo \cup {r}
       /\ UNCHANGED <<outbox, received>>
    \/ /\ ~closing /\ conn
       /\ Fail(x, "fault", CompletedWrite(progress), input)
       /\ Gets(r)
       /\ UNCHANGED limbo

\* Closing does not reach a read in progress.
ReadRevokedBroken == FALSE

\* hidCallError before the read, or the connection retires under it.
ReadRevoked == closing \/ ~conn

\* The read fails: the context, closing or a retired connection.
ReadFails(x) ==
    \/ Lapsed(x) /\ Fail(x, "ctx", progress, input)
    \/ ReadRevoked /\ Fail(x, "closed", progress, input)

Readable == ~closing /\ conn /\ input # <<>>

\* Input of other channels is not filtered.
SkippableBroken(cid) == Head(input).kind = "keepalive"

\* hidChannelReader drops what is not for the channel, readHIDMessage a keepalive.
Skippable(cid) == Head(input).cid # cid \/ Head(input).kind = "keepalive"

Skip(x) ==
    /\ input' = Tail(input)
    /\ UNCHANGED <<holder, closing, conn, channelID, candidate, progress, callVars>>

\* What readHIDMessage makes of a message that is not the expected response.
ErrorOf(m) == IF m.kind \in {"busy", "device"} THEN m.kind ELSE "fault"

------------------------------------------------------------------------------
(* The handshake: initializeChannel and retryHIDHandshake. *)

\* A new attempt starts with fresh progress.
HandshakeAttempt(x) ==
    /\ pc[x] = "attempt"
    /\ \/ Fail(x, "ctx", progress, input)
       \/ /\ ~ctx[x]
          /\ progress' = Fresh("INIT")
          /\ Goto(x, "initWrite")
          /\ UNCHANGED endVars
    /\ UNCHANGED <<deviceVars, ctx, attempt, sent, noise, sessions>>

InitWrite(x) ==
    /\ pc[x] = "initWrite"
    /\ LET r == Report("init", x, 1, Broadcast)
       IN  WriteFails(x, r) \/ Written(x, r, "initRead")
    /\ UNCHANGED <<ctx, attempt, sent, noise, sessions>>

MayRetry(x) == attempt[x] < hidInitBusyRetries

\* A busy answer and a local wait are retried while attempts are left.
RetryOrFail(x, e, rest) ==
    \/ /\ MayRetry(x)
       /\ Goto(x, "retry")
       /\ input' = rest
       /\ UNCHANGED <<holder, closing, conn, channelID, candidate, progress>>
    \/ ~MayRetry(x) /\ Fail(x, e, progress, rest)

\* The local wait of readInitPacket passes without input.
LocalWait(x) == ~closing /\ conn /\ input = <<>> /\ RetryOrFail(x, "wait", input)

\* A message on the channel that is not the reply.
Rejected(x) ==
    LET e == ErrorOf(Head(input))
    IN  \/ e = "busy" /\ RetryOrFail(x, e, Tail(input))
        \/ e # "busy" /\ Fail(x, e, progress, Tail(input))

InitReply == Head(input).kind \in {"init", "badInit"}

\* Broadcast replies can belong to an earlier attempt or to another client.
OwnNonce(x) == Head(input).tag = Nonce(x)

\* exchangeInit's loop; the allocated channel must be usable.
InitRead(x) ==
    /\ pc[x] = "initRead"
    /\ \/ ReadFails(x)
       \/ LocalWait(x)
       \/ Readable /\ Skippable(Broadcast) /\ Skip(x)
       \/ Readable /\ ~Skippable(Broadcast) /\ InitReply /\ ~OwnNonce(x) /\ Skip(x)
       \/ /\ Readable /\ ~Skippable(Broadcast) /\ OwnNonce(x) /\ Head(input).kind = "init"
          /\ progress' = Fresh("PING")
          /\ input' = Tail(input)
          /\ candidate' = Head(input).tag
          /\ Goto(x, "pingWrite")
          /\ UNCHANGED <<holder, closing, conn, channelID>>
       \/ /\ Readable /\ ~Skippable(Broadcast) /\ Head(input).kind # "init"
          /\ InitReply => OwnNonce(x)
          /\ Rejected(x)
    /\ UNCHANGED <<deviceVars, ctx, attempt, sent, noise, sessions>>

PingWrite(x) ==
    /\ pc[x] = "pingWrite"
    /\ LET r == Report("ping", x, 1, candidate)
       IN  WriteFails(x, r) \/ Written(x, r, "pingRead")
    /\ UNCHANGED <<ctx, attempt, sent, noise, sessions>>

\* The empty echo shows the channel ready: the request follows on it.
PingRead(x) ==
    /\ pc[x] = "pingRead"
    /\ \/ ReadFails(x)
       \/ LocalWait(x)
       \/ Readable /\ Skippable(candidate) /\ Skip(x)
       \/ /\ Readable /\ ~Skippable(candidate) /\ Head(input).kind = "ping"
          /\ channelID' = candidate
          /\ candidate' = NoChannel
          /\ progress' = Fresh("request")
          /\ input' = Tail(input)
          /\ Goto(x, "send")
          /\ UNCHANGED <<holder, closing, conn>>
       \/ /\ Readable /\ ~Skippable(candidate) /\ Head(input).kind # "ping"
          /\ Rejected(x)
    /\ UNCHANGED <<deviceVars, ctx, attempt, sent, noise, sessions>>

\* Only the PING is repeated, on the channel where it went unanswered.
NextAttemptBroken(x) == pc' = [pc EXCEPT ![x] = "pingWrite"] /\ UNCHANGED attempt

\* The whole handshake is repeated, on a channel of its own.
NextAttempt(x) ==
    /\ pc' = [pc EXCEPT ![x] = "attempt"]
    /\ attempt' = [attempt EXCEPT ![x] = @ + 1]

\* The delay before the next attempt.
HandshakeRetry(x) ==
    /\ pc[x] = "retry"
    /\ \/ Fail(x, "ctx", progress, input) /\ UNCHANGED attempt
       \/ NextAttempt(x) /\ UNCHANGED <<endVars, progress, err, evidence, got>>
    /\ UNCHANGED <<deviceVars, ctx, sent, noise, sessions>>

------------------------------------------------------------------------------
(* The application exchange: exchangeHIDMessage. *)

SendPacket(x) ==
    /\ pc[x] = "send"
    /\ LET r == Report("app", x, sent[x] + 1, channelID)
       IN  \/ WriteFails(x, r) /\ UNCHANGED sent
           \/ /\ Written(x, r, IF r.seq = Packets THEN "recv" ELSE "send")
              /\ sent' = [sent EXCEPT ![x] = r.seq]
    /\ UNCHANGED <<ctx, attempt, noise, sessions>>

Responding ==
    Progress("response", progress.packets, progress.outcome, progress.ambiguous)

\* An error of the device, busy included, and a malformed message end the call.
ResponseError(x) ==
    /\ Fail(x, ErrorOf(Head(input)), Responding, Tail(input))
    /\ UNCHANGED sent

\* readHIDMessage on the session's channel, without a local wait.  The stage
\* becomes response when the first report is asked for.
ReceiveResponse(x) ==
    /\ pc[x] = "recv"
    /\ \/ /\ \E p \in {progress, Responding} : ctx[x] /\ Fail(x, "ctx", p, input)
          /\ UNCHANGED sent
       \/ ReadRevoked /\ Fail(x, "closed", Responding, input) /\ UNCHANGED sent
       \/ /\ Readable /\ Skippable(channelID)
          /\ input' = Tail(input)
          /\ progress' = Responding
          /\ UNCHANGED <<holder, closing, conn, channelID, candidate, callVars, sent>>
       \/ /\ Readable /\ ~Skippable(channelID) /\ Head(input).kind = "app"
          /\ got' = [got EXCEPT ![x] = Head(input).tag]
          /\ Return(x, "none")
          /\ input' = Tail(input)
          /\ holder' = None
          /\ progress' = NoProgress
          /\ UNCHANGED <<closing, conn, channelID, candidate, evidence, sent>>
       \/ /\ Readable /\ ~Skippable(channelID) /\ Head(input).kind # "app"
          /\ ResponseError(x)
    /\ UNCHANGED <<deviceVars, ctx, attempt, noise, sessions>>

------------------------------------------------------------------------------
(* Close, contexts, and the world outside. *)

\* CloseContext: closing first, then the connection is closed.
CloseMark(c) ==
    /\ pc[c] = "start"
    /\ closing' = TRUE
    /\ Goto(c, "close")
    /\ UNCHANGED <<holder, conn, channelID, candidate, input, deviceVars, progress, ctx, attempt,
                   sent, noise, sessions>>

CloseConn(c) ==
    /\ pc[c] = "close"
    /\ conn' = FALSE /\ input' = <<>>
    /\ Goto(c, "returned")
    /\ UNCHANGED <<holder, closing, channelID, candidate, deviceVars, progress, ctx, attempt, sent,
                   noise, sessions>>

\* The context of an exchange is cancelled or its deadline passes.
Expire(x) ==
    /\ ~ctx[x]
    /\ pc[x] # "returned"
    /\ ctx' = [ctx EXCEPT ![x] = TRUE]
    /\ UNCHANGED <<endVars, callVars, deviceVars, progress, attempt, sent, noise,
                   sessions>>

\* The connection retires by itself: the device failed or its input overflowed.
ConnFail ==
    /\ conn
    /\ conn' = FALSE /\ input' = <<>>
    /\ UNCHANGED <<holder, closing, channelID, candidate, callVars, deviceVars, progress, ctx,
                   attempt, sent, noise, sessions>>

\* The authenticator sends one of its answers; a closed connection loses it.
DeviceSend ==
    /\ \E m \in outbox : /\ outbox' = outbox \ {m}
                         /\ input' = IF conn THEN Append(input, m) ELSE input
    /\ UNCHANGED <<holder, closing, conn, channelID, candidate, callVars, limbo, received, progress,
                   ctx, attempt, sent, noise, sessions>>

\* A report of unknown outcome reaches the authenticator after all.
LateDelivery ==
    /\ \E r \in limbo : limbo' = limbo \ {r} /\ Gets(r)
    /\ UNCHANGED <<endVars, callVars, progress, ctx, attempt, sent, noise, sessions>>

\* The channels on which the host may expect something.
Channels == {Broadcast, channelID, candidate}

\* A reply for another client, a keepalive, or a message that makes no sense.
OtherTraffic ==
    /\ conn
    /\ noise < MaxNoise
    /\ noise' = noise + 1
    /\ \E m \in {Message(Foreign, "app", Foreign), Message(Broadcast, "init", Foreign)}
                \cup {Message(c, k, NoChannel) : c \in Channels, k \in {"keepalive", "junk"}} :
          input' = Append(input, m)
    /\ UNCHANGED <<holder, closing, conn, channelID, candidate, callVars, deviceVars, progress, ctx,
                   attempt, sent, sessions>>

\* The same authenticator is opened again when the old session is closed and its
\* calls have returned.
Reopen ==
    /\ sessions < MaxSessions
    /\ ~conn
    /\ \A c \in Calls : pc[c] \in {"start", "returned"}
    /\ sessions' = sessions + 1
    /\ closing' = FALSE /\ conn' = TRUE /\ channelID' = NoChannel /\ input' = <<>>
    /\ UNCHANGED <<holder, candidate, callVars, deviceVars, progress, ctx, attempt, sent, noise>>

\* Every call that began has returned.
Finished == (\A c \in Calls : pc[c] \in {"start", "returned"}) /\ UNCHANGED vars

ExchangeStep(x) ==
    \/ ExchangeLock(x) \/ ExchangeAdmit(x)
    \/ HandshakeAttempt(x) \/ InitWrite(x) \/ InitRead(x) \/ PingWrite(x) \/ PingRead(x)
    \/ HandshakeRetry(x)
    \/ SendPacket(x) \/ ReceiveResponse(x)

Next ==
    \/ \E x \in Exchanges : ExchangeCall(x) \/ ExchangeStep(x) \/ Expire(x)
    \/ \E c \in Closers : CloseMark(c) \/ CloseConn(c)
    \/ ConnFail \/ DeviceSend \/ LateDelivery \/ OtherTraffic \/ Reopen
    \/ Finished

Spec == Init /\ [][Next]_vars

\* The scheduler runs the callers, and the timers of local waits and delays fire.
\* Nothing is assumed of the authenticator.
SchedulerFairness ==
    /\ \A x \in Exchanges : WF_vars(ExchangeStep(x))
    /\ \A c \in Closers : WF_vars(CloseConn(c))

FairSpec == Spec /\ SchedulerFairness

------------------------------------------------------------------------------
(* Properties. *)

Stages == {"INIT", "PING", "request", "response"}
Errors == {"none", "invalid", "ctx", "closed", "fault", "wait", "busy", "device"}
Evidence == [stage : Stages, packets : 0..Packets,
             outcome : {"NotSubmitted", "Unknown", "Completed"}, ambiguous : BOOLEAN]

TypeOK ==
    /\ holder \in Exchanges \cup {None}
    /\ closing \in BOOLEAN /\ conn \in BOOLEAN
    /\ channelID \in {NoChannel} \cup (Exchanges \X (0..hidInitBusyRetries))
    /\ candidate \in {NoChannel} \cup (Exchanges \X (0..hidInitBusyRetries))
    /\ progress \in Evidence
    /\ pc \in [Calls -> Handshake \cup {"start", "lock", "admit", "send", "recv", "close",
                                        "returned"}]
    /\ ctx \in [Calls -> BOOLEAN]
    /\ err \in [Calls -> Errors]
    /\ attempt \in [Exchanges -> 0..hidInitBusyRetries]
    /\ sent \in [Exchanges -> 0..Packets]
    /\ evidence \in [Exchanges -> Evidence]
    /\ got \in [Exchanges -> (Exchanges \X {0}) \cup {NoChannel, Foreign}]
    /\ noise \in 0..MaxNoise
    /\ sessions \in 1..MaxSessions

\* An exchange that succeeds returns the response to its own request, although
\* requests were cancelled with their response under way, other clients use the
\* authenticator, and sessions were closed and opened (exchange, retire and the
\* channel filter).
ResponseIsOwn == \A x \in Exchanges : got[x] \in {NoChannel, Own(x)}

\* The request may yet reach, or has reached, the authenticator.
Reached(x) == received[x] # <<>> \/ \E r \in limbo : r.kind = "app" /\ r.of = x

\* The authenticator gets the packets of a request in their order and each at most
\* once: only the handshake is retried, never the request.  A failed exchange
\* carries the truth about delivery: without a definitive answer Ambiguous is set
\* in the request's stages exactly if part of the request may have reached the
\* authenticator, the stages of the handshake exclude it, and a device error in the
\* request's stages means that the whole request arrived.
EvidenceIsSound ==
    /\ \A x \in Exchanges : \A i \in 1..Len(received[x]) : received[x][i] = i
    /\ \A x \in Exchanges : pc[x] = "returned" /\ err[x] # "none" =>
          LET e == evidence[x]
              requesting == e.stage \in {"request", "response"}
          IN  /\ ~requesting => ~Reached(x)
              /\ requesting /\ ~Definitive(err[x]) => (e.ambiguous <=> Reached(x))
              /\ requesting /\ err[x] \in {"busy", "device"} => Len(received[x]) = Packets
              /\ requesting => e.packets <= Len(received[x])

\* A delayed readiness echo cannot contaminate the application channel: when the
\* session has chosen its channel, no PING reply is left for it anywhere.
NoStaleEcho ==
    channelID # NoChannel =>
        \A m \in outbox \cup {input[i] : i \in 1..Len(input)} :
            ~(m.cid = channelID /\ m.kind = "ping")

\* A session ends only by Close or by the exchange in progress failing without an
\* answer of the device.  Queued calls, refused calls and device errors, busy
\* included, leave it usable.
SessionEndsForCause ==
    [][~closing /\ closing' =>
          \/ \E c \in Closers : pc[c] = "start" /\ pc'[c] = "close"
          \/ \E x \in Exchanges :
                /\ holder = x
                /\ pc'[x] = "returned"
                /\ err'[x] \in {"ctx", "closed", "fault", "wait"}]_vars

\* The handshake ends although the authenticator may never answer, and closing the
\* session ends every exchange, queued or in progress, also one that waits for a
\* response without a deadline.
ExchangesEnd ==
    \A x \in Exchanges : /\ pc[x] \in Handshake ~> pc[x] \notin Handshake
                         /\ (closing /\ pc[x] # "start") ~> pc[x] = "returned"

==============================================================================
