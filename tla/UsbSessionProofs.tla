-------------------------- MODULE UsbSessionProofs ---------------------------
(***************************************************************************)
(* The CTAPHID session for any number of exchanges, Closes, packets,       *)
(* retries and sessions: the gate, the causes of its end, the delivery     *)
(* evidence of its exchanges, and which request an answer is for.  The     *)
(* authenticator may answer late or never, reports of unknown outcome may  *)
(* arrive later, and other traffic comes in between.                       *)
(***************************************************************************)
EXTENDS UsbSession, TLAPS

\* Zenon proves the leaves, except for those that cite SMT.
USE Zenon

\* Behind the gate.
Inside == Handshake \cup {"admit", "send", "recv"}

Labels == Inside \cup {"start", "lock", "close", "returned"}

\* Whoever is behind the gate holds its token: one exchange at a time.
GateInv ==
    /\ pc \in [Calls -> Labels]
    /\ err \in [Calls -> Errors]
    /\ \A x \in Exchanges : pc[x] \in Inside => holder = x

------------------------------------------------------------------------------
LEMMA GateInit == Init => GateInv
BY ZenonT(40) DEF Init, GateInv, Labels, Inside, Handshake, Errors, Calls

\* An exchange behind the gate that fails gives the token back.
LEMMA GateFail ==
    ASSUME GateInv, NEW x \in Exchanges, pc[x] \in Inside, NEW e \in Errors, NEW p, NEW rest,
           Fail(x, e, p, rest)
    PROVE  GateInv'
<1>1. /\ pc' = [pc EXCEPT ![x] = "returned"]
      /\ err' = [err EXCEPT ![x] = e]
      /\ holder' = None
  BY DEF Fail, Return
<1> QED
  BY <1>1 DEF GateInv, Labels, Inside, Handshake, Calls

\* One that goes on keeps it.
LEMMA GateGoto ==
    ASSUME GateInv, NEW x \in Exchanges, holder = x, NEW l \in Labels, UNCHANGED holder,
           Goto(x, l)
    PROVE  GateInv'
BY DEF GateInv, Goto, Labels, Inside, Calls

LEMMA GateWrite ==
    ASSUME GateInv, NEW x \in Exchanges, pc[x] \in Inside, NEW r, WriteFails(x, r)
    PROVE  GateInv'
BY GateFail DEF WriteFails, Errors

LEMMA GateRead ==
    ASSUME GateInv, NEW x \in Exchanges, pc[x] \in Inside, ReadFails(x)
    PROVE  GateInv'
BY GateFail DEF ReadFails, Errors

LEMMA GateRetry ==
    ASSUME GateInv, NEW x \in Exchanges, pc[x] \in Inside, NEW e \in Errors, NEW rest,
           RetryOrFail(x, e, rest)
    PROVE  GateInv'
BY GateFail, GateGoto DEF RetryOrFail, GateInv, Labels, Inside, Handshake

LEMMA GateRejected ==
    ASSUME GateInv, NEW x \in Exchanges, pc[x] \in Inside,
           LocalWait(x) \/ Rejected(x)
    PROVE  GateInv'
<1>1. ErrorOf(Head(input)) \in Errors /\ "wait" \in Errors
  BY DEF ErrorOf, Errors
<1> QED
  BY <1>1, GateRetry, GateFail DEF LocalWait, Rejected

LEMMA GateNext == GateInv /\ [Next]_vars => GateInv'
<1> SUFFICES ASSUME GateInv, [Next]_vars PROVE GateInv'
  OBVIOUS
<1>1. ASSUME UNCHANGED <<pc, err, holder>> PROVE GateInv'
  BY <1>1 DEF GateInv
<1>2. ASSUME NEW x \in Exchanges, ExchangeCall(x) PROVE GateInv'
  <2>1. holder' = holder
    BY <1>2 DEF ExchangeCall, endVars
  <2>2. PICK l \in {"returned", "lock"}, e \in Errors :
          pc' = [pc EXCEPT ![x] = l] /\ (err' = err \/ err' = [err EXCEPT ![x] = e])
    BY <1>2 DEF ExchangeCall, Return, Goto, Errors
  <2> QED
    BY <2>1, <2>2 DEF GateInv, Labels, Inside, Handshake, Calls
<1>3. ASSUME NEW x \in Exchanges, ExchangeLock(x) PROVE GateInv'
  <2>1. CASE holder = None /\ holder' = x /\ Goto(x, "admit")
    BY <2>1, SessionAssumption DEF GateInv, Goto, Labels, Inside, Calls
  <2>2. CASE UNCHANGED holder /\ Return(x, "ctx")
    BY <2>2 DEF GateInv, Return, Labels, Inside, Handshake, Calls, Errors
  <2> QED
    BY <1>3, <2>1, <2>2 DEF ExchangeLock, CancelLock
<1>4. ASSUME NEW x \in Exchanges, ExchangeAdmit(x) PROVE GateInv'
  <2>1. pc[x] \in Inside /\ holder = x
    BY <1>4 DEF ExchangeAdmit, GateInv, Inside
  <2>2. CASE holder' = None /\ (Return(x, "ctx") \/ Return(x, "closed"))
    BY <2>1, <2>2 DEF GateInv, Return, Labels, Inside, Handshake, Calls, Errors
  <2>3. CASE UNCHANGED endVars /\ (Goto(x, "attempt") \/ Goto(x, "send"))
    BY <2>1, <2>3, GateGoto DEF endVars, Labels, Inside, Handshake
  <2> QED
    BY <1>4, <2>2, <2>3 DEF ExchangeAdmit
<1>5. ASSUME NEW x \in Exchanges, HandshakeAttempt(x) PROVE GateInv'
  <2>1. pc[x] \in Inside /\ holder = x
    BY <1>5 DEF HandshakeAttempt, GateInv, Inside, Handshake
  <2> QED
    BY <1>5, <2>1, GateFail, GateGoto
    DEF HandshakeAttempt, endVars, Errors, Labels, Inside, Handshake
<1>6. ASSUME NEW x \in Exchanges, InitWrite(x) \/ PingWrite(x) \/ SendPacket(x)
      PROVE  GateInv'
  <2>1. pc[x] \in Inside /\ holder = x
    BY <1>6 DEF InitWrite, PingWrite, SendPacket, GateInv, Inside, Handshake
  <2>2. \E r : WriteFails(x, r) \/ \E l \in {"initRead", "pingRead", "recv", "send"} : Written(x, r, l)
    BY <1>6 DEF InitWrite, PingWrite, SendPacket
  <2>3. ASSUME NEW r, NEW l \in {"initRead", "pingRead", "recv", "send"}, Written(x, r, l)
        PROVE  GateInv'
    BY <2>1, <2>3, GateGoto DEF Written, endVars, Labels, Inside, Handshake
  <2> QED
    BY <2>1, <2>2, <2>3, GateWrite
<1>7. ASSUME NEW x \in Exchanges, InitRead(x) PROVE GateInv'
  <2>1. pc[x] \in Inside /\ holder = x
    BY <1>7 DEF InitRead, GateInv, Inside, Handshake
  <2>2. CASE Skip(x)
    BY <1>1, <2>2 DEF Skip, callVars
  <2>3. CASE Goto(x, "pingWrite") /\ UNCHANGED holder
    BY <2>1, <2>3, GateGoto DEF Labels, Inside, Handshake
  <2> QED
    BY <1>7, <2>1, <2>2, <2>3, GateRead, GateRejected DEF InitRead
<1>8. ASSUME NEW x \in Exchanges, PingRead(x) PROVE GateInv'
  <2>1. pc[x] \in Inside /\ holder = x
    BY <1>8 DEF PingRead, GateInv, Inside, Handshake
  <2>2. CASE Skip(x)
    BY <1>1, <2>2 DEF Skip, callVars
  <2>3. CASE Goto(x, "send") /\ UNCHANGED holder
    BY <2>1, <2>3, GateGoto DEF Labels, Inside
  <2> QED
    BY <1>8, <2>1, <2>2, <2>3, GateRead, GateRejected DEF PingRead
<1>9. ASSUME NEW x \in Exchanges, HandshakeRetry(x) PROVE GateInv'
  <2>1. pc[x] \in Inside /\ holder = x
    BY <1>9 DEF HandshakeRetry, GateInv, Inside, Handshake
  <2>2. CASE NextAttempt(x) /\ UNCHANGED <<endVars, err>>
    BY <2>1, <2>2 DEF NextAttempt, endVars, GateInv, Labels, Inside, Handshake, Calls
  <2>3. CASE Fail(x, "ctx", progress, input)
    BY <2>1, <2>3, GateFail DEF Errors
  <2> QED
    BY <1>9, <2>2, <2>3 DEF HandshakeRetry
<1>10. ASSUME NEW x \in Exchanges, ReceiveResponse(x) PROVE GateInv'
  <2>1. pc[x] \in Inside /\ holder = x
    BY <1>10 DEF ReceiveResponse, GateInv, Inside
  <2>2. CASE \E e \in Errors : \E p, rest : Fail(x, e, p, rest)
    BY <2>1, <2>2, GateFail
  <2>3. CASE UNCHANGED <<holder, callVars>>
    BY <1>1, <2>3 DEF callVars
  <2>4. CASE holder' = None /\ Return(x, "none")
    BY <2>1, <2>4 DEF GateInv, Return, Labels, Inside, Handshake, Calls, Errors
  <2>5. ErrorOf(Head(input)) \in Errors /\ "ctx" \in Errors /\ "closed" \in Errors
    BY DEF ErrorOf, Errors
  <2> QED
    BY <1>10, <2>2, <2>3, <2>4, <2>5 DEF ReceiveResponse, ResponseError
<1>11. ASSUME NEW c \in Closers, CloseMark(c) \/ CloseConn(c) PROVE GateInv'
  <2>1. PICK l \in {"close", "returned"} : Goto(c, l) /\ UNCHANGED holder
    BY <1>11 DEF CloseMark, CloseConn
  <2>2. c \notin Exchanges
    BY SessionAssumption
  <2> QED
    BY <2>1, <2>2 DEF Goto, GateInv, Labels, Inside, Calls
<1>12. CASE ConnFail \/ DeviceSend \/ LateDelivery \/ OtherTraffic \/ Reopen
  BY <1>1, <1>12, SMT DEF ConnFail, DeviceSend, LateDelivery, OtherTraffic, Reopen, callVars, endVars
<1>13. ASSUME NEW x \in Exchanges, Expire(x) PROVE GateInv'
  BY <1>1, <1>13 DEF Expire, callVars, endVars
<1>14. CASE UNCHANGED vars
  BY <1>1, <1>14 DEF vars, callVars, endVars
<1> QED
  BY <1>2, <1>3, <1>4, <1>5, <1>6, <1>7, <1>8, <1>9, <1>10, <1>11, <1>12, <1>13, <1>14
  DEF Next, ExchangeStep, Finished

------------------------------------------------------------------------------
\* What SessionEndsForCause allows a step to do.
EndsForCause ==
    ~closing /\ closing' =>
          \/ \E c \in Closers : pc[c] = "start" /\ pc'[c] = "close"
          \/ \E x \in Exchanges :
                /\ holder = x
                /\ pc'[x] = "returned"
                /\ err'[x] \in {"ctx", "closed", "fault", "wait"}

LEMMA FailCause ==
    ASSUME GateInv, NEW x \in Exchanges, pc[x] \in Inside, NEW e \in Errors \ {"none", "invalid"},
           NEW p, NEW rest, Fail(x, e, p, rest)
    PROVE  EndsForCause
<1>1. /\ holder = x /\ pc'[x] = "returned" /\ err'[x] = e
      /\ Definitive(e) => closing' = closing
  BY DEF GateInv, Fail, Return, Calls
<1> QED
  BY <1>1 DEF EndsForCause, Definitive, Errors

LEMMA RetryCause ==
    ASSUME GateInv, NEW x \in Exchanges, pc[x] \in Inside, LocalWait(x) \/ Rejected(x)
    PROVE  EndsForCause
<1>1. /\ ErrorOf(Head(input)) \in Errors \ {"none", "invalid"}
      /\ "wait" \in Errors \ {"none", "invalid"}
  BY DEF ErrorOf, Errors
<1>2. CASE UNCHANGED closing
  BY <1>2 DEF EndsForCause
<1> QED
  BY <1>1, <1>2, FailCause DEF LocalWait, Rejected, RetryOrFail

LEMMA CauseStep == GateInv /\ [Next]_vars => EndsForCause
<1> SUFFICES ASSUME GateInv, [Next]_vars PROVE EndsForCause
  OBVIOUS
<1>0. {"ctx", "closed", "fault"} \subseteq Errors \ {"none", "invalid"}
  BY DEF Errors
<1>1. ASSUME UNCHANGED closing PROVE EndsForCause
  BY <1>1 DEF EndsForCause
<1>2. ASSUME NEW x \in Exchanges, ExchangeAdmit(x) PROVE EndsForCause
  <2>1. CASE Retire /\ Return(x, "ctx")
    BY <1>2, <2>1 DEF ExchangeAdmit, EndsForCause, Return, GateInv, Inside, Calls
  <2> QED
    BY <1>1, <1>2, <2>1 DEF ExchangeAdmit, endVars
<1>3. ASSUME NEW x \in Exchanges, pc[x] \in Inside, HandshakeAttempt(x) \/ HandshakeRetry(x)
      PROVE  EndsForCause
  BY <1>0, <1>1, <1>3, FailCause DEF HandshakeAttempt, HandshakeRetry, endVars
<1>4. ASSUME NEW x \in Exchanges, pc[x] \in Inside, InitWrite(x) \/ PingWrite(x) \/ SendPacket(x)
      PROVE  EndsForCause
  <2>1. ASSUME NEW r, WriteFails(x, r) PROVE EndsForCause
    BY <1>0, <1>4, <2>1, FailCause DEF WriteFails
  <2>2. ASSUME NEW r, NEW l, Written(x, r, l) PROVE EndsForCause
    BY <1>1, <2>2 DEF Written, endVars
  <2> QED
    BY <1>4, <2>1, <2>2 DEF InitWrite, PingWrite, SendPacket
<1>5. ASSUME NEW x \in Exchanges, pc[x] \in Inside, InitRead(x) \/ PingRead(x)
      PROVE  EndsForCause
  <2>1. CASE ReadFails(x)
    BY <1>0, <1>5, <2>1, FailCause DEF ReadFails
  <2>2. CASE Skip(x)
    BY <1>1, <2>2 DEF Skip
  <2> QED
    BY <1>1, <1>5, <2>1, <2>2, RetryCause DEF InitRead, PingRead
<1>6. ASSUME NEW x \in Exchanges, pc[x] \in Inside, ReceiveResponse(x) PROVE EndsForCause
  <2>1. ErrorOf(Head(input)) \in Errors \ {"none", "invalid"}
    BY DEF ErrorOf, Errors
  <2>2. CASE \E e \in Errors \ {"none", "invalid"} : \E p, rest : Fail(x, e, p, rest)
    BY <1>6, <2>2, FailCause
  <2> QED
    BY <1>0, <1>1, <1>6, <2>1, <2>2 DEF ReceiveResponse, ResponseError
<1>7. ASSUME NEW c \in Closers, CloseMark(c) PROVE EndsForCause
  BY <1>7 DEF CloseMark, Goto, EndsForCause, GateInv, Calls
<1>8. ASSUME NEW x \in Exchanges, ExchangeCall(x) \/ ExchangeLock(x) \/ Expire(x)
      PROVE  EndsForCause
  BY <1>1, <1>8 DEF ExchangeCall, ExchangeLock, Expire, endVars
<1>9. ASSUME NEW c \in Closers, CloseConn(c) PROVE EndsForCause
  BY <1>1, <1>9 DEF CloseConn
<1>10. CASE Reopen
  BY <1>10 DEF Reopen, EndsForCause
<1>11. CASE ConnFail \/ DeviceSend \/ LateDelivery \/ OtherTraffic
  BY <1>1, <1>11, SMT DEF ConnFail, DeviceSend, LateDelivery, OtherTraffic, endVars
<1>12. CASE UNCHANGED vars
  BY <1>1, <1>12 DEF vars, endVars
<1>13. ASSUME NEW x \in Exchanges, ExchangeStep(x), ~ExchangeLock(x) PROVE pc[x] \in Inside
  BY <1>13 DEF ExchangeStep, ExchangeAdmit, HandshakeAttempt, InitWrite, InitRead, PingWrite,
     PingRead, HandshakeRetry, SendPacket, ReceiveResponse, Inside, Handshake
<1> QED
  BY <1>2, <1>3, <1>4, <1>5, <1>6, <1>7, <1>8, <1>9, <1>10, <1>11, <1>12, <1>13
  DEF Next, ExchangeStep, Finished

\* For any number of calls and sessions: retire runs only in Close or in the
\* exchange that holds the gate, when it fails without an answer of the device.
THEOREM SessionEndsForCauseHolds == Spec => SessionEndsForCause
<1>1. Spec => []GateInv
  BY GateInit, GateNext, PTL DEF Spec
<1>2. GateInv /\ [Next]_vars =>
        [~closing /\ closing' =>
          \/ \E c \in Closers : pc[c] = "start" /\ pc'[c] = "close"
          \/ \E x \in Exchanges :
                /\ holder = x
                /\ pc'[x] = "returned"
                /\ err'[x] \in {"ctx", "closed", "fault", "wait"}]_vars
  BY CauseStep DEF EndsForCause
<1> QED
  BY <1>1, <1>2, PTL DEF Spec, SessionEndsForCause

------------------------------------------------------------------------------
(* The steps, as far as messages and channels are concerned. *)

\* An answer of the authenticator, and not other traffic.
Awaited(m) == m.kind \notin {"keepalive", "junk"}

\* The report that x writes next.
Writing(x, r) ==
    \/ pc[x] = "initWrite" /\ r = Report("init", x, 1, Broadcast)
    \/ pc[x] = "pingWrite" /\ r = Report("ping", x, 1, candidate)
    \/ pc[x] = "send" /\ r = Report("app", x, sent[x] + 1, channelID)

Answered(r) == outbox' = outbox \/ \E m \in Replies(r) : outbox' = outbox \cup {m}

\* In front of the gate, or turned away by a closed session.
Outside(x) ==
    /\ pc[x] \in {"start", "lock", "admit"}
    /\ \E l \in {"lock", "admit", "returned"} : pc' = [pc EXCEPT ![x] = l]
    /\ UNCHANGED <<closing, channelID, candidate, attempt, sent, input, outbox, limbo>>

\* x fails and the session retires.
Retires(x) ==
    /\ pc[x] \in Inside
    /\ pc' = [pc EXCEPT ![x] = "returned"]
    /\ closing' = TRUE /\ input' = <<>>
    /\ candidate' \in {candidate, NoChannel}
    /\ UNCHANGED <<channelID, attempt, sent>>
    /\ \/ UNCHANGED <<outbox, limbo>>
       \/ \E r : Writing(x, r) /\ UNCHANGED outbox /\ limbo' = limbo \cup {r}
       \/ \E r : Writing(x, r) /\ Answered(r) /\ UNCHANGED limbo

\* x returns with an answer of the authenticator.
Quits(x) ==
    /\ pc[x] \in Handshake \cup {"recv"}
    /\ pc' = [pc EXCEPT ![x] = "returned"]
    /\ input # <<>> /\ input' = Tail(input)
    /\ pc[x] = "recv" => Head(input).cid = channelID /\ Awaited(Head(input))
    /\ candidate' \in {candidate, NoChannel}
    /\ UNCHANGED <<closing, channelID, attempt, sent, outbox, limbo>>

\* x goes on without a report.
Goes(x) ==
    /\ pc[x] \in Inside
    /\ input' = input \/ (input # <<>> /\ input' = Tail(input))
    /\ UNCHANGED <<closing, channelID, sent, outbox, limbo>>
    /\ \/ UNCHANGED <<pc, candidate, attempt>>
       \/ /\ \E l \in {"attempt", "send", "initWrite", "retry"} :
                /\ pc' = [pc EXCEPT ![x] = l]
                /\ l = "attempt" => pc[x] = "admit" /\ channelID = NoChannel
                /\ l = "send" => pc[x] = "admit" /\ channelID # NoChannel
                /\ l = "initWrite" => pc[x] = "attempt"
                /\ l = "retry" => pc[x] \in Handshake
          /\ UNCHANGED <<candidate, attempt>>
       \/ /\ pc[x] = "initRead" /\ pc' = [pc EXCEPT ![x] = "pingWrite"]
          /\ candidate' = Nonce(x) /\ UNCHANGED attempt
       \/ /\ pc[x] = "retry" /\ pc' = [pc EXCEPT ![x] = "attempt"]
          /\ attempt' = [attempt EXCEPT ![x] = @ + 1] /\ UNCHANGED candidate

\* x writes a report and goes on.
Writes(x) ==
    /\ ~closing
    /\ \E r : Writing(x, r) /\ Answered(r)
    /\ \/ pc[x] = "initWrite" /\ pc' = [pc EXCEPT ![x] = "initRead"]
       \/ pc[x] = "pingWrite" /\ pc' = [pc EXCEPT ![x] = "pingRead"]
       \/ pc[x] = "send" /\ pc' = [pc EXCEPT ![x] = IF sent[x] + 1 = Packets THEN "recv" ELSE "send"]
    /\ sent' \in {sent, [sent EXCEPT ![x] = sent[x] + 1]}
    /\ UNCHANGED <<closing, channelID, candidate, attempt, input, limbo>>

\* x takes the echo and with it the channel.
Chooses(x) ==
    /\ pc[x] = "pingRead" /\ pc' = [pc EXCEPT ![x] = "send"]
    /\ ~closing
    /\ input # <<>> /\ input' = Tail(input)
    /\ Head(input).cid = candidate /\ Awaited(Head(input))
    /\ channelID' = candidate /\ candidate' = NoChannel
    /\ UNCHANGED <<closing, attempt, sent, outbox, limbo>>

LEMMA FailSummary ==
    ASSUME NEW x \in Exchanges, NEW e, NEW p, NEW rest, Fail(x, e, p, rest), ~Definitive(e)
    PROVE  /\ pc' = [pc EXCEPT ![x] = "returned"] /\ closing' = TRUE /\ input' = <<>>
           /\ candidate' = NoChannel /\ UNCHANGED channelID
BY DEF Fail, Return, Retire

LEMMA AnswerSummary ==
    ASSUME NEW x \in Exchanges, NEW e, NEW p, NEW rest, Fail(x, e, p, rest), Definitive(e)
    PROVE  /\ pc' = [pc EXCEPT ![x] = "returned"] /\ input' = rest
           /\ candidate' = NoChannel /\ UNCHANGED <<closing, channelID>>
BY DEF Fail, Return

LEMMA WriteSummary ==
    ASSUME NEW x \in Exchanges, pc[x] \in Inside, NEW r, Writing(x, r), WriteFails(x, r),
           UNCHANGED <<attempt, sent>>
    PROVE  Retires(x)
<1>1. /\ ~Definitive("ctx") /\ ~Definitive("closed") /\ ~Definitive("fault")
  BY DEF Definitive
<1>2. Gets(r) => Answered(r)
  BY DEF Gets, Answered
<1> QED
  BY <1>1, <1>2, FailSummary DEF WriteFails, Retires, deviceVars

LEMMA ReadSummary ==
    ASSUME NEW x \in Exchanges, pc[x] \in Inside, ReadFails(x), UNCHANGED <<attempt, sent, deviceVars>>
    PROVE  Retires(x)
<1>1. ~Definitive("ctx") /\ ~Definitive("closed")
  BY DEF Definitive
<1> QED
  BY <1>1, FailSummary DEF ReadFails, Retires, deviceVars

LEMMA RetrySummary ==
    ASSUME NEW x \in Exchanges, pc[x] \in Handshake, LocalWait(x) \/ (Rejected(x) /\ Readable),
           UNCHANGED <<attempt, sent, deviceVars>>
    PROVE  Retires(x) \/ Quits(x) \/ Goes(x)
<1>1. ASSUME NEW e, NEW p, NEW rest, Fail(x, e, p, rest), ~Definitive(e)
      PROVE  Retires(x)
  BY <1>1, FailSummary DEF Retires, Inside, deviceVars
<1>2. ASSUME NEW e, NEW p, Readable, Fail(x, e, p, Tail(input)), Definitive(e)
      PROVE  Quits(x)
  BY <1>2, AnswerSummary DEF Quits, Readable, Handshake, deviceVars
<1>3. ASSUME ~closing, Goto(x, "retry"), input' = input \/ (Readable /\ input' = Tail(input)),
             UNCHANGED <<closing, channelID, candidate>>
      PROVE  Goes(x)
  BY <1>3 DEF Goes, Goto, Inside, Handshake, Readable, deviceVars
<1>4. ~Definitive("wait")
  BY DEF Definitive
<1>5. CASE LocalWait(x)
  BY <1>1, <1>3, <1>4, <1>5 DEF LocalWait, RetryOrFail
<1>6. CASE Rejected(x) /\ Readable
  <2>1. ~closing
    BY <1>6 DEF Readable
  <2> QED
    BY <1>1, <1>2, <1>3, <1>6, <2>1 DEF Rejected, RetryOrFail
<1> QED
  BY <1>5, <1>6

\* Every step of an exchange is one of these.
LEMMA StepSummary ==
    ASSUME GateInv, NEW x \in Exchanges, ExchangeCall(x) \/ ExchangeStep(x)
    PROVE  Outside(x) \/ Retires(x) \/ Quits(x) \/ Goes(x) \/ Writes(x) \/ Chooses(x)
<1>1. CASE ExchangeCall(x) \/ ExchangeLock(x)
  BY <1>1 DEF ExchangeCall, ExchangeLock, Return, Goto, Outside, endVars, deviceVars
<1>2. CASE ExchangeAdmit(x)
  <2>1. pc[x] = "admit" /\ UNCHANGED <<outbox, limbo, attempt, sent>>
    BY <1>2 DEF ExchangeAdmit, deviceVars
  <2>2. CASE Retire /\ Return(x, "ctx") /\ UNCHANGED <<channelID, candidate>>
    BY <2>1, <2>2 DEF Retire, Return, Retires, Inside
  <2>3. CASE Return(x, "closed") /\ UNCHANGED <<closing, conn, channelID, candidate, input>>
    BY <2>1, <2>3 DEF Return, Outside
  <2>4. CASE /\ UNCHANGED endVars
             /\ \/ channelID = NoChannel /\ Goto(x, "attempt")
                \/ channelID # NoChannel /\ Goto(x, "send")
    BY <2>1, <2>4 DEF Goto, Goes, Inside, endVars
  <2> QED
    BY <1>2, <2>2, <2>3, <2>4 DEF ExchangeAdmit
<1>3. ~Definitive("ctx") /\ ~Definitive("closed")
  BY DEF Definitive
<1>4. ASSUME pc[x] \in Inside, NEW p, Fail(x, "ctx", p, input) \/ Fail(x, "closed", p, input),
             UNCHANGED <<attempt, sent, deviceVars>>
      PROVE  Retires(x)
  BY <1>3, <1>4, FailSummary DEF Retires, deviceVars
<1>5. CASE HandshakeAttempt(x)
  <2>1. CASE Goto(x, "initWrite") /\ UNCHANGED endVars
    BY <1>5, <2>1 DEF HandshakeAttempt, Goto, Goes, Inside, Handshake, endVars, deviceVars
  <2> QED
    BY <1>4, <1>5, <2>1 DEF HandshakeAttempt, Inside, Handshake
<1>6. CASE HandshakeRetry(x)
  <2>1. CASE NextAttempt(x) /\ UNCHANGED endVars
    BY <1>6, <2>1 DEF HandshakeRetry, NextAttempt, Goes, Inside, Handshake, endVars, deviceVars
  <2>2. CASE Fail(x, "ctx", progress, input) /\ UNCHANGED attempt
    BY <1>4, <1>6, <2>2 DEF HandshakeRetry, Inside, Handshake
  <2> QED
    BY <1>6, <2>1, <2>2 DEF HandshakeRetry
<1>7. ASSUME NEW r, Gets(r) PROVE Answered(r)
  BY <1>7 DEF Gets, Answered
<1>8. CASE InitWrite(x)
  <2> DEFINE r == Report("init", x, 1, Broadcast)
  <2>1. Writing(x, r) /\ UNCHANGED <<attempt, sent>> /\ pc[x] \in Inside
    BY <1>8 DEF InitWrite, Writing, Inside, Handshake
  <2>2. CASE Written(x, r, "initRead")
    BY <1>7, <1>8, <2>1, <2>2 DEF InitWrite, Written, Writes, Goto, endVars
  <2> QED
    BY <1>8, <2>1, <2>2, WriteSummary DEF InitWrite
<1>9. CASE PingWrite(x)
  <2> DEFINE r == Report("ping", x, 1, candidate)
  <2>1. Writing(x, r) /\ UNCHANGED <<attempt, sent>> /\ pc[x] \in Inside
    BY <1>9 DEF PingWrite, Writing, Inside, Handshake
  <2>2. CASE Written(x, r, "pingRead")
    BY <1>7, <1>9, <2>1, <2>2 DEF PingWrite, Written, Writes, Goto, endVars
  <2> QED
    BY <1>9, <2>1, <2>2, WriteSummary DEF PingWrite
<1>10. CASE SendPacket(x)
  <2> DEFINE r == Report("app", x, sent[x] + 1, channelID)
  <2>1. Writing(x, r) /\ UNCHANGED attempt /\ r.seq = sent[x] + 1 /\ pc[x] = "send"
        /\ pc[x] \in Inside
    BY <1>10 DEF SendPacket, Writing, Report, Inside
  <2>2. CASE Written(x, r, IF r.seq = Packets THEN "recv" ELSE "send")
             /\ sent' = [sent EXCEPT ![x] = r.seq]
    <3>1. pc' = [pc EXCEPT ![x] = IF sent[x] + 1 = Packets THEN "recv" ELSE "send"]
      BY <2>1, <2>2 DEF Written, Goto
    <3>2. sent' = [sent EXCEPT ![x] = sent[x] + 1]
      BY <2>1, <2>2
    <3>3. Answered(r) /\ ~closing /\ UNCHANGED <<closing, channelID, candidate, input, limbo>>
      BY <1>7, <2>2 DEF Written, endVars
    <3> QED
      BY <2>1, <3>1, <3>2, <3>3 DEF Writes
  <2>3. CASE WriteFails(x, r) /\ UNCHANGED sent
    BY <2>1, <2>3, WriteSummary
  <2> QED
    BY <1>10, <2>2, <2>3 DEF SendPacket
<1>11. ASSUME Readable, Skip(x) \/ (input' = Tail(input) /\ UNCHANGED <<closing, channelID, candidate, callVars>>),
              pc[x] \in Inside, UNCHANGED <<attempt, sent, deviceVars>>
       PROVE  Goes(x)
  BY <1>11 DEF Readable, Skip, Goes, callVars, deviceVars
<1>12. CASE InitRead(x)
  <2>1. pc[x] = "initRead" /\ pc[x] \in Handshake /\ pc[x] \in Inside
        /\ UNCHANGED <<attempt, sent, deviceVars>>
    BY <1>12 DEF InitRead, Handshake, Inside
  <2>2. CASE Readable /\ OwnNonce(x) /\ input' = Tail(input) /\ candidate' = Head(input).tag
             /\ Goto(x, "pingWrite") /\ UNCHANGED <<holder, closing, conn, channelID>>
    BY <2>1, <2>2 DEF Readable, OwnNonce, Goto, Goes, deviceVars
  <2> QED
    BY <1>11, <1>12, <2>1, <2>2, ReadSummary, RetrySummary DEF InitRead
<1>13. CASE PingRead(x)
  <2>1. pc[x] = "pingRead" /\ pc[x] \in Handshake /\ pc[x] \in Inside
        /\ UNCHANGED <<attempt, sent, deviceVars>>
    BY <1>13 DEF PingRead, Handshake, Inside
  <2>2. CASE Readable /\ ~Skippable(candidate) /\ Head(input).kind = "ping"
             /\ channelID' = candidate /\ candidate' = NoChannel /\ input' = Tail(input)
             /\ Goto(x, "send") /\ UNCHANGED <<holder, closing, conn>>
    BY <2>1, <2>2 DEF Readable, Skippable, Awaited, Goto, Chooses, deviceVars
  <2> QED
    BY <1>11, <1>13, <2>1, <2>2, ReadSummary, RetrySummary DEF PingRead
<1>14. CASE ReceiveResponse(x)
  <2>1. pc[x] = "recv" /\ pc[x] \in Inside /\ UNCHANGED <<attempt, deviceVars>>
    BY <1>14 DEF ReceiveResponse, Inside
  <2>2. UNCHANGED sent
    BY <1>14 DEF ReceiveResponse, ResponseError
  <2>3. CASE Readable /\ ~Skippable(channelID) /\ Head(input).kind = "app" /\ Return(x, "none")
             /\ input' = Tail(input) /\ UNCHANGED <<closing, conn, channelID, candidate>>
    BY <2>1, <2>2, <2>3 DEF Readable, Skippable, Awaited, Return, Quits, deviceVars
  <2>4. CASE Readable /\ ~Skippable(channelID) /\ ResponseError(x)
    <3>1. PICK p : Fail(x, ErrorOf(Head(input)), p, Tail(input))
      BY <2>4 DEF ResponseError
    <3>2. CASE ~Definitive(ErrorOf(Head(input)))
      BY <2>1, <2>2, <3>1, <3>2, FailSummary DEF Retires, deviceVars
    <3>3. CASE Definitive(ErrorOf(Head(input)))
      <4>1. Head(input).cid = channelID /\ Awaited(Head(input))
        BY <2>4, <3>3 DEF Skippable, Awaited, Definitive, ErrorOf
      <4> QED
        BY <2>1, <2>2, <2>4, <3>1, <3>3, <4>1, AnswerSummary DEF Readable, Quits, deviceVars
    <3> QED
      BY <3>2, <3>3
  <2>5. CASE Readable /\ input' = Tail(input) /\ UNCHANGED <<closing, channelID, candidate, callVars>>
    BY <1>11, <2>1, <2>2, <2>5
  <2>6. CASE \E p : Fail(x, "ctx", p, input) \/ Fail(x, "closed", p, input)
    BY <1>4, <2>1, <2>2, <2>6
  <2> QED
    BY <1>14, <2>3, <2>4, <2>5, <2>6 DEF ReceiveResponse
<1> QED
  BY <1>1, <1>2, <1>5, <1>6, <1>8, <1>9, <1>10, <1>12, <1>13, <1>14 DEF ExchangeStep

LEMMA Alone ==
    ASSUME GateInv, NEW x \in Exchanges, NEW y \in Exchanges, pc[x] \in Inside, pc[y] \in Inside
    PROVE  x = y
BY DEF GateInv

------------------------------------------------------------------------------
(* The delivery evidence. *)

\* A report of the request of x whose outcome is unknown is under way.
Pending(x) == \E r \in limbo : r.kind = "app" /\ r.of = x

Requesting(x) == evidence[x].stage \in {"request", "response"}

\* EvidenceIsSound for one exchange.  What a definitive answer settles stays so.
Sound(x) ==
    /\ ~Requesting(x) => received[x] = <<>> /\ ~Pending(x)
    /\ Requesting(x) /\ ~Definitive(err[x]) => (evidence[x].ambiguous <=> Reached(x))
    /\ Requesting(x) /\ Definitive(err[x]) => Len(received[x]) = Packets /\ ~Pending(x)
    /\ Requesting(x) => evidence[x].packets \in Nat /\ evidence[x].packets <= Len(received[x])

\* What the progress of an exchange and the packets that arrived have to do with
\* each other.
EvidenceOf(x) ==
    /\ pc[x] \in {"start", "lock", "admit"} \cup Handshake =>
          sent[x] = 0 /\ received[x] = <<>> /\ ~Pending(x)
    /\ pc[x] \in {"start", "lock", "admit"} => evidence[x].stage = "INIT"
    /\ pc[x] \in Handshake => progress.stage \in {"INIT", "PING"}
    /\ pc[x] \in {"send", "recv"} =>
          /\ progress.stage \in {"request", "response"} /\ ~progress.ambiguous
          /\ progress.packets = sent[x] /\ Len(received[x]) = sent[x] /\ ~Pending(x)
    /\ pc[x] = "recv" => sent[x] = Packets
    /\ pc[x] = "returned" /\ err[x] # "none" => Sound(x)

\* The reports of unknown outcome are those of exchanges.
LimboOK == \A r \in limbo : r.of \in Exchanges /\ r.seq \in Nat

EvidenceInv ==
    /\ sent \in [Exchanges -> Nat] /\ LimboOK
    /\ received \in [Exchanges -> Seq(Nat)]
    /\ DOMAIN evidence = Exchanges
    /\ \A x \in Exchanges : EvidenceOf(x)

\* Only x and what it has sent change.
Only(x) ==
    /\ sent' \in [Exchanges -> Nat] /\ LimboOK'
    /\ received' \in [Exchanges -> Seq(Nat)]
    /\ DOMAIN evidence' = Exchanges
    /\ \A y \in Exchanges \ {x} :
          /\ pc'[y] = pc[y] /\ err'[y] = err[y] /\ evidence'[y] = evidence[y]
          /\ sent'[y] = sent[y] /\ received'[y] = received[y]
          /\ Pending(y)' <=> Pending(y)

LEMMA OnlyFacts ==
    ASSUME GateInv, EvidenceInv, NEW x \in Exchanges, Only(x), pc[x] \in Inside \/ UNCHANGED progress,
           EvidenceOf(x)'
    PROVE  EvidenceInv'
<1>1. ASSUME NEW y \in Exchanges, y # x PROVE EvidenceOf(y)'
  <2>1. /\ pc'[y] = pc[y] /\ err'[y] = err[y] /\ evidence'[y] = evidence[y]
        /\ sent'[y] = sent[y] /\ received'[y] = received[y]
        /\ Pending(y)' <=> Pending(y)
    BY <1>1 DEF Only
  <2>2. (Requesting(y)' <=> Requesting(y)) /\ (Reached(y)' <=> Reached(y))
    BY <2>1 DEF Requesting, Reached, Pending
  <2>3. Sound(y)' <=> Sound(y)
    BY <2>1, <2>2 DEF Sound, Definitive
  <2>4. pc[y] \in Handshake \cup {"send", "recv"} => UNCHANGED progress
    BY <1>1, Alone DEF Inside
  <2>5. EvidenceOf(y)
    BY DEF EvidenceInv
  <2> QED
    BY <2>1, <2>3, <2>4, <2>5 DEF EvidenceOf
<1> QED
  BY <1>1 DEF EvidenceInv, Only

\* What a failing exchange reports.
LEMMA FailEvidence ==
    ASSUME GateInv, EvidenceInv, NEW x \in Exchanges, NEW e, NEW p, NEW rest, Fail(x, e, p, rest)
    PROVE  /\ pc'[x] = "returned" /\ err'[x] = e
           /\ evidence'[x].stage = p.stage /\ evidence'[x].packets = p.packets
           /\ evidence'[x].ambiguous <=> Ambiguous(e, p)
           /\ DOMAIN evidence' = Exchanges
           /\ \A y \in Exchanges \ {x} : pc'[y] = pc[y] /\ err'[y] = err[y] /\ evidence'[y] = evidence[y]
<1>1. /\ pc' = [pc EXCEPT ![x] = "returned"] /\ err' = [err EXCEPT ![x] = e]
      /\ evidence' = [evidence EXCEPT ![x] = Final(e, p)]
  BY DEF Fail, Return
<1>2. /\ x \in DOMAIN pc /\ x \in DOMAIN err /\ Exchanges \subseteq DOMAIN pc
      /\ Exchanges \subseteq DOMAIN err /\ DOMAIN evidence = Exchanges
  BY DEF GateInv, Calls, EvidenceInv
<1>3. evidence'[x] = Final(e, p)
  BY <1>1, <1>2
<1>4. /\ Final(e, p).stage = p.stage /\ Final(e, p).packets = p.packets
      /\ Final(e, p).ambiguous = Ambiguous(e, p)
  BY DEF Final, Progress
<1> QED
  BY <1>1, <1>2, <1>3, <1>4

\* Nothing of a request is written or arrives.
Quiet ==
    /\ UNCHANGED <<received, sent>> /\ LimboOK'
    /\ \A y \in Exchanges : Pending(y)' <=> Pending(y)

LEMMA EarlyFail ==
    ASSUME GateInv, EvidenceInv, NEW x \in Exchanges, pc[x] \in Handshake, Quiet,
           NEW e, NEW p, NEW rest, Fail(x, e, p, rest), p.stage = progress.stage
    PROVE  EvidenceInv'
<1>0. /\ pc'[x] = "returned" /\ evidence'[x].stage = p.stage /\ DOMAIN evidence' = Exchanges
      /\ \A y \in Exchanges \ {x} : pc'[y] = pc[y] /\ err'[y] = err[y] /\ evidence'[y] = evidence[y]
  BY FailEvidence, SMT
<1>1. Only(x)
  BY <1>0 DEF Only, Quiet, EvidenceInv
<1>2. /\ evidence'[x].stage \in {"INIT", "PING"}
      /\ received'[x] = <<>> /\ ~Pending(x)'
  BY <1>0 DEF EvidenceInv, EvidenceOf, Quiet
<1>3. ~Requesting(x)'
  BY <1>2 DEF Requesting
<1>4. EvidenceOf(x)'
  BY <1>0, <1>2, <1>3 DEF EvidenceOf, Sound, Handshake
<1> QED
  BY <1>1, <1>4, OnlyFacts DEF Inside

\* An exchange moves on to l with the progress set for it.
LEMMA EvidenceGoto ==
    ASSUME GateInv, EvidenceInv, NEW x \in Exchanges, pc[x] \in Handshake \cup {"admit"}, Quiet,
           NEW l, pc' = [pc EXCEPT ![x] = l], UNCHANGED <<err, evidence>>,
           \/ l \in Handshake /\ progress'.stage \in {"INIT", "PING"}
           \/ l = "send" /\ progress' = Fresh("request")
    PROVE  EvidenceInv'
<1>1. pc'[x] = l /\ \A y \in Exchanges \ {x} : pc'[y] = pc[y]
  BY DEF GateInv, Calls
<1>2. Only(x)
  BY <1>1 DEF Only, Quiet, EvidenceInv
<1>3. sent'[x] = 0 /\ received'[x] = <<>> /\ ~Pending(x)'
  BY DEF EvidenceInv, EvidenceOf, Quiet
<1>4. EvidenceOf(x)'
  <2>1. CASE l \in Handshake /\ progress'.stage \in {"INIT", "PING"}
    BY <1>1, <1>3, <2>1 DEF EvidenceOf, Handshake
  <2>2. CASE l = "send" /\ progress' = Fresh("request")
    <3>1. progress'.stage = "request" /\ progress'.packets = 0 /\ progress'.ambiguous = FALSE
      BY <2>2 DEF Fresh, Progress
    <3>2. Len(received'[x]) = 0
      BY <1>3
    <3> QED
      BY <1>1, <1>3, <2>2, <3>1, <3>2 DEF EvidenceOf, Handshake
  <2> QED
    BY <2>1, <2>2
<1> QED
  BY <1>2, <1>4, OnlyFacts DEF Inside

\* A call returns before it has progress.
LEMMA EvidenceReturn ==
    ASSUME GateInv, EvidenceInv, NEW x \in Exchanges, pc[x] \in {"start", "lock", "admit"}, Quiet,
           UNCHANGED <<evidence, progress>>,
           NEW l \in {"lock", "admit", "returned"}, pc' = [pc EXCEPT ![x] = l],
           NEW e, err' = err \/ err' = [err EXCEPT ![x] = e]
    PROVE  EvidenceInv'
<1>1. pc'[x] = l /\ \A y \in Exchanges \ {x} : pc'[y] = pc[y] /\ err'[y] = err[y]
  BY DEF GateInv, Calls
<1>2. Only(x)
  BY <1>1 DEF Only, Quiet, EvidenceInv
<1>3. sent'[x] = 0 /\ received'[x] = <<>> /\ ~Pending(x)' /\ evidence'[x].stage = "INIT"
  BY DEF EvidenceInv, EvidenceOf, Quiet
<1>4. ~Requesting(x)'
  BY <1>3 DEF Requesting
<1>5. EvidenceOf(x)'
  BY <1>1, <1>3, <1>4 DEF EvidenceOf, Sound, Handshake
<1> QED
  BY <1>2, <1>5, OnlyFacts

\* The application exchange fails: what it reports must fit what has arrived.
LEMMA LateFail ==
    ASSUME GateInv, EvidenceInv, NEW x \in Exchanges, pc[x] \in {"send", "recv"}, UNCHANGED sent,
           LimboOK', received' \in [Exchanges -> Seq(Nat)],
           \A y \in Exchanges \ {x} : received'[y] = received[y] /\ (Pending(y)' <=> Pending(y)),
           NEW e, NEW p, NEW rest, Fail(x, e, p, rest),
           p.stage \in {"request", "response"}, p.packets \in Nat, p.packets <= Len(received'[x]),
           ~Definitive(e) => (p.ambiguous \/ p.packets > 0 <=> Reached(x)'),
           Definitive(e) => Len(received'[x]) = Packets /\ ~Pending(x)'
    PROVE  EvidenceInv'
<1>0. /\ DOMAIN evidence' = Exchanges
      /\ \A y \in Exchanges \ {x} : pc'[y] = pc[y] /\ err'[y] = err[y] /\ evidence'[y] = evidence[y]
  BY FailEvidence
<1>1. Only(x)
  BY <1>0 DEF Only, EvidenceInv
<1>2. /\ pc'[x] = "returned" /\ err'[x] = e /\ Requesting(x)'
      /\ evidence'[x].packets \in Nat /\ evidence'[x].packets <= Len(received'[x])
      /\ evidence'[x].ambiguous <=> Ambiguous(e, p)
  BY FailEvidence, SMT DEF Requesting
<1>3. ~Definitive(e) => (evidence'[x].ambiguous <=> Reached(x)')
  BY <1>2 DEF Ambiguous
<1>4. EvidenceOf(x)'
  BY <1>2, <1>3 DEF EvidenceOf, Sound, Handshake, Definitive
<1> QED
  BY <1>1, <1>4, OnlyFacts DEF Inside

\* What a write does to the reports under way and to what has arrived.
LEMMA WriteEvidence ==
    ASSUME EvidenceInv, NEW x \in Exchanges, NEW r, Writing(x, r)
    PROVE  /\ UNCHANGED limbo \/ limbo' = limbo \cup {r} => LimboOK'
           /\ UNCHANGED <<received, limbo>> =>
                 received' \in [Exchanges -> Seq(Nat)] /\ \A y \in Exchanges : Pending(y)' <=> Pending(y)
           /\ UNCHANGED received /\ limbo' = limbo \cup {r} =>
                 /\ received' \in [Exchanges -> Seq(Nat)]
                 /\ \A y \in Exchanges : Pending(y)' <=> Pending(y) \/ (pc[x] = "send" /\ y = x)
           /\ Gets(r) /\ UNCHANGED limbo =>
                 /\ received' \in [Exchanges -> Seq(Nat)]
                 /\ \A y \in Exchanges : Pending(y)' <=> Pending(y)
                 /\ \A y \in Exchanges \ {x} : received'[y] = received[y]
                 /\ pc[x] # "send" => UNCHANGED received
                 /\ pc[x] = "send" => Len(received'[x]) = Len(received[x]) + 1
<1>1. /\ r.of = x /\ r.seq \in Nat
      /\ r.kind = "app" <=> pc[x] = "send"
  BY SMT DEF Writing, Report, EvidenceInv
<1>2. received \in [Exchanges -> Seq(Nat)]
  BY DEF EvidenceInv
<1>3. UNCHANGED limbo => \A y \in Exchanges : Pending(y)' <=> Pending(y)
  BY DEF Pending
<1>4. limbo' = limbo \cup {r} =>
        \A y \in Exchanges : Pending(y)' <=> Pending(y) \/ (pc[x] = "send" /\ y = x)
  BY <1>1 DEF Pending
<1>5. ASSUME Gets(r)
      PROVE  /\ pc[x] # "send" => UNCHANGED received
             /\ pc[x] = "send" => received' = [received EXCEPT ![x] = Append(received[x], r.seq)]
  BY <1>1, <1>5 DEF Gets
<1>6. /\ received[x] \in Seq(Nat) /\ Append(received[x], r.seq) \in Seq(Nat)
      /\ Len(Append(received[x], r.seq)) = Len(received[x]) + 1
  BY <1>1, <1>2, SMT
<1>7. ASSUME Gets(r)
      PROVE  /\ received' \in [Exchanges -> Seq(Nat)]
             /\ \A y \in Exchanges \ {x} : received'[y] = received[y]
             /\ pc[x] # "send" => UNCHANGED received
             /\ pc[x] = "send" => Len(received'[x]) = Len(received[x]) + 1
  BY <1>2, <1>5, <1>6, <1>7
<1>8. UNCHANGED limbo \/ limbo' = limbo \cup {r} => LimboOK'
  BY <1>1 DEF EvidenceInv, LimboOK
<1> QED
  BY <1>2, <1>3, <1>4, <1>7, <1>8

LEMMA WriteFailsEvidence ==
    ASSUME GateInv, EvidenceInv, NEW x \in Exchanges, NEW r, Writing(x, r),
           WriteFails(x, r), UNCHANGED sent
    PROVE  EvidenceInv'
<1>1. /\ ~Definitive("ctx") /\ ~Definitive("closed") /\ ~Definitive("fault")
  BY DEF Definitive
<1>2. PICK e, p :
        /\ e \in {"ctx", "closed", "fault"}
        /\ Fail(x, e, p, input) /\ p.stage = progress.stage
        /\ \/ /\ UNCHANGED <<received, limbo>> /\ p.packets = progress.packets
              /\ p.ambiguous <=> progress.ambiguous
           \/ /\ UNCHANGED received /\ limbo' = limbo \cup {r} /\ p.packets = progress.packets
              /\ p.ambiguous
           \/ /\ Gets(r) /\ UNCHANGED limbo /\ p.packets = progress.packets + 1
              /\ p.ambiguous <=> progress.ambiguous
  <2>1. /\ RefusedWrite(progress).stage = progress.stage
        /\ RefusedWrite(progress).packets = progress.packets
        /\ RefusedWrite(progress).ambiguous <=> progress.ambiguous
    BY DEF RefusedWrite, Progress
  <2>2. /\ UnknownWrite(progress).stage = progress.stage
        /\ UnknownWrite(progress).packets = progress.packets
        /\ UnknownWrite(progress).ambiguous
    BY DEF UnknownWrite, Progress
  <2>3. /\ CompletedWrite(progress).stage = progress.stage
        /\ CompletedWrite(progress).packets = progress.packets + 1
        /\ CompletedWrite(progress).ambiguous <=> progress.ambiguous
    BY DEF CompletedWrite, Progress
  <2> QED
    BY <2>1, <2>2, <2>3, SMT DEF WriteFails, deviceVars
<1>3. ~Definitive(e)
  BY <1>1, <1>2
<1>4. CASE pc[x] # "send"
  <2>1. pc[x] \in Handshake
    BY <1>4 DEF Writing, Handshake
  <2>2. Quiet
    BY <1>2, <1>4, WriteEvidence DEF Quiet
  <2> QED
    BY <1>2, <2>1, <2>2, EarlyFail
<1>5. CASE pc[x] = "send"
  <2>1. /\ progress.stage \in {"request", "response"} /\ ~progress.ambiguous
        /\ progress.packets = Len(received[x]) /\ ~Pending(x)
        /\ received[x] \in Seq(Nat)
    BY <1>5 DEF EvidenceInv, EvidenceOf
  <2>2. LimboOK' /\ received' \in [Exchanges -> Seq(Nat)]
    BY <1>2, WriteEvidence
  <2>3. \A y \in Exchanges \ {x} : received'[y] = received[y] /\ (Pending(y)' <=> Pending(y))
    BY <1>2, WriteEvidence
  <2>4. Reached(x)' <=> Len(received'[x]) > 0 \/ Pending(x)'
    BY <2>2, SMT DEF Reached, Pending
  <2>5. p.packets \in Nat /\ p.packets <= Len(received'[x]) /\ (p.ambiguous \/ p.packets > 0 <=> Reached(x)')
    BY <1>2, <1>5, <2>1, <2>2, <2>4, WriteEvidence, SMT
  <2> QED
    BY <1>2, <1>3, <1>5, <2>1, <2>2, <2>3, <2>5, LateFail
<1> QED
  BY <1>4, <1>5

LEMMA WrittenEvidence ==
    ASSUME GateInv, EvidenceInv, NEW x \in Exchanges, NEW r, Writing(x, r), NEW l,
           Written(x, r, l),
           \/ pc[x] # "send" /\ l \in {"initRead", "pingRead"} /\ UNCHANGED sent
           \/ /\ pc[x] = "send" /\ l = IF r.seq = Packets THEN "recv" ELSE "send"
              /\ sent' = [sent EXCEPT ![x] = r.seq]
    PROVE  EvidenceInv'
<1>1. /\ Gets(r) /\ UNCHANGED <<limbo, err, evidence>> /\ pc' = [pc EXCEPT ![x] = l]
      /\ progress' = CompletedWrite(progress)
  BY DEF Written, Goto
<1>2. /\ progress'.stage = progress.stage /\ progress'.packets = progress.packets + 1
      /\ progress'.ambiguous <=> progress.ambiguous
  BY <1>1 DEF CompletedWrite, Progress
<1>3. CASE pc[x] # "send"
  <2>1. pc[x] \in Handshake /\ l \in Handshake /\ Quiet
    BY <1>1, <1>3, WriteEvidence DEF Writing, Handshake, Quiet
  <2>2. progress'.stage \in {"INIT", "PING"}
    BY <1>2, <2>1 DEF EvidenceInv, EvidenceOf
  <2> QED
    BY <1>1, <2>1, <2>2, EvidenceGoto
<1>4. CASE pc[x] = "send"
  <2>1. /\ progress.stage \in {"request", "response"} /\ ~progress.ambiguous
        /\ progress.packets = sent[x] /\ Len(received[x]) = sent[x] /\ ~Pending(x)
    BY <1>4 DEF EvidenceInv, EvidenceOf
  <2>2. r.seq = sent[x] + 1 /\ sent \in [Exchanges -> Nat] /\ sent[x] \in Nat
    BY <1>4, SMT DEF Writing, Report, EvidenceInv
  <2>3. /\ sent' \in [Exchanges -> Nat] /\ sent'[x] = sent[x] + 1
        /\ \A y \in Exchanges \ {x} : sent'[y] = sent[y]
    BY <1>4, <2>2, SMT
  <2>4. /\ pc'[x] \in {"send", "recv"}
        /\ pc'[x] = "recv" => sent'[x] = Packets
        /\ \A y \in Exchanges \ {x} : pc'[y] = pc[y]
    BY <1>1, <1>4, <2>2, <2>3 DEF GateInv, Calls
  <2>5. Only(x)
    BY <1>1, <2>3, <2>4, WriteEvidence DEF Only, EvidenceInv
  <2>6. Len(received'[x]) = Len(received[x]) + 1 /\ ~Pending(x)'
    BY <1>1, <1>4, <2>1, WriteEvidence
  <2>7. EvidenceOf(x)'
    BY <1>2, <2>1, <2>3, <2>4, <2>6 DEF EvidenceOf, Handshake
  <2> QED
    BY <1>4, <2>5, <2>7, OnlyFacts DEF Inside
<1> QED
  BY <1>3, <1>4

LEMMA QuietFacts == EvidenceInv /\ UNCHANGED <<deviceVars, sent>> => Quiet
BY DEF EvidenceInv, LimboOK, Quiet, deviceVars, Pending

\* Skipped input changes nothing.
LEMMA EvidenceSkip ==
    ASSUME EvidenceInv, Quiet, UNCHANGED <<err, evidence, progress>>,
           \A x \in Exchanges : pc'[x] = pc[x]
    PROVE  EvidenceInv'
<1>1. ASSUME NEW y \in Exchanges PROVE EvidenceOf(y)'
  <2>1. pc'[y] = pc[y] /\ (Pending(y)' <=> Pending(y)) /\ UNCHANGED <<received, sent>>
    BY DEF Quiet
  <2>2. (Requesting(y)' <=> Requesting(y)) /\ (Reached(y)' <=> Reached(y))
    BY <2>1 DEF Requesting, Reached, Pending
  <2>3. Sound(y)' <=> Sound(y)
    BY <2>1, <2>2 DEF Sound, Definitive
  <2>4. EvidenceOf(y)
    BY DEF EvidenceInv
  <2> QED
    BY <2>1, <2>3, <2>4 DEF EvidenceOf
<1> QED
  BY <1>1 DEF EvidenceInv, Quiet

LEMMA HandshakeEvidence ==
    ASSUME GateInv, EvidenceInv, NEW x \in Exchanges, pc[x] \in Handshake, Quiet,
           ReadFails(x) \/ LocalWait(x) \/ Rejected(x) \/ Skip(x)
    PROVE  EvidenceInv'
<1>1. ASSUME NEW e, NEW rest, Fail(x, e, progress, rest) PROVE EvidenceInv'
  BY <1>1, EarlyFail
<1>2. ASSUME Goto(x, "retry"), UNCHANGED progress PROVE EvidenceInv'
  <2>1. "retry" \in Handshake /\ progress'.stage \in {"INIT", "PING"}
    BY <1>2 DEF EvidenceInv, EvidenceOf, Handshake
  <2> QED
    BY <1>2, <2>1, EvidenceGoto DEF Goto
<1>3. CASE Skip(x)
  BY <1>3, EvidenceSkip DEF Skip, callVars
<1> QED
  BY <1>1, <1>2, <1>3 DEF ReadFails, LocalWait, Rejected, RetryOrFail

LEMMA ResponseEvidence ==
    ASSUME GateInv, EvidenceInv, NEW x \in Exchanges, ReceiveResponse(x)
    PROVE  EvidenceInv'
<1>1. pc[x] = "recv" /\ Quiet
  BY QuietFacts DEF ReceiveResponse, ResponseError
<1>2. /\ progress.stage \in {"request", "response"} /\ ~progress.ambiguous
      /\ progress.packets = sent[x] /\ Len(received[x]) = sent[x] /\ ~Pending(x)
      /\ sent[x] = Packets /\ received \in [Exchanges -> Seq(Nat)]
  BY <1>1 DEF EvidenceInv, EvidenceOf
<1>3. /\ Responding.stage = "response" /\ Responding.packets = progress.packets
      /\ Responding.ambiguous <=> progress.ambiguous
  BY DEF Responding, Progress
<1>4. ASSUME NEW e, NEW p \in {progress, Responding}, NEW rest, Fail(x, e, p, rest)
      PROVE  EvidenceInv'
  <2>1. /\ UNCHANGED <<sent, received>> /\ LimboOK' /\ ~Pending(x)'
        /\ \A y \in Exchanges \ {x} : received'[y] = received[y] /\ (Pending(y)' <=> Pending(y))
    BY <1>1, <1>2 DEF Quiet
  <2>2. /\ p.stage \in {"request", "response"} /\ ~p.ambiguous /\ p.packets = Len(received'[x])
        /\ Len(received'[x]) = Packets
    BY <1>2, <1>3, <2>1
  <2>3. Reached(x)' <=> Len(received'[x]) > 0
    BY <1>2, <2>1, SMT DEF Reached, Pending
  <2>4. p.packets \in Nat /\ received' \in [Exchanges -> Seq(Nat)]
    BY <1>2, <2>1, <2>2, SMT
  <2> QED
    BY <1>1, <1>4, <2>1, <2>2, <2>3, <2>4, LateFail, SMT
<1>5. ASSUME progress' = Responding, UNCHANGED callVars PROVE EvidenceInv'
  <2>1. UNCHANGED <<pc, err, evidence, received, sent>>
    BY <1>1, <1>5 DEF callVars, Quiet
  <2>2. Only(x)
    BY <1>1, <2>1 DEF Only, Quiet, EvidenceInv
  <2>3. EvidenceOf(x)'
    BY <1>1, <1>2, <1>3, <1>5, <2>1 DEF EvidenceOf, Quiet, Handshake
  <2> QED
    BY <1>1, <2>2, <2>3, OnlyFacts DEF Inside
<1>6. ASSUME Return(x, "none"), UNCHANGED evidence PROVE EvidenceInv'
  <2>1. /\ pc'[x] = "returned" /\ err'[x] = "none"
        /\ \A y \in Exchanges \ {x} : pc'[y] = pc[y] /\ err'[y] = err[y]
    BY <1>6 DEF Return, GateInv, Calls
  <2>2. Only(x)
    BY <1>1, <1>6, <2>1 DEF Only, Quiet, EvidenceInv
  <2>3. EvidenceOf(x)'
    BY <2>1 DEF EvidenceOf, Handshake
  <2> QED
    BY <1>1, <2>2, <2>3, OnlyFacts DEF Inside
<1> QED
  BY <1>4, <1>5, <1>6 DEF ReceiveResponse, ResponseError

\* A report that arrives late was known to be possible: it only changes what has
\* arrived of an exchange that has returned with ambiguous evidence.
LEMMA LateEvidence ==
    ASSUME EvidenceInv, LateDelivery
    PROVE  EvidenceInv'
<1>1. PICK r \in limbo : limbo' = limbo \ {r} /\ Gets(r)
  BY DEF LateDelivery
<1>2. UNCHANGED <<pc, err, evidence, progress, sent>>
  BY DEF LateDelivery, callVars
<1>3. r.of \in Exchanges /\ r.seq \in Nat /\ LimboOK'
  BY <1>1 DEF EvidenceInv, LimboOK
<1>4. /\ sent \in [Exchanges -> Nat] /\ received \in [Exchanges -> Seq(Nat)]
      /\ DOMAIN evidence = Exchanges
  BY DEF EvidenceInv
<1>5. CASE r.kind # "app"
  <2>1. Quiet
    BY <1>1, <1>2, <1>3, <1>5 DEF Quiet, Pending, Gets
  <2> QED
    BY <1>2, <2>1, EvidenceSkip
<1>6. CASE r.kind = "app"
  <2>1. received' = [received EXCEPT ![r.of] = Append(received[r.of], r.seq)]
    BY <1>1, <1>6 DEF Gets
  <2>2. /\ received[r.of] \in Seq(Nat) /\ Append(received[r.of], r.seq) \in Seq(Nat)
        /\ Len(Append(received[r.of], r.seq)) = Len(received[r.of]) + 1
    BY <1>3, <1>4, SMT
  <2>3. /\ received' \in [Exchanges -> Seq(Nat)]
        /\ Len(received'[r.of]) = Len(received[r.of]) + 1
        /\ \A y \in Exchanges \ {r.of} : received'[y] = received[y]
    BY <1>3, <1>4, <2>1, <2>2
  <2>4. ASSUME NEW y \in Exchanges, y # r.of PROVE EvidenceOf(y)'
    <3>1. (Pending(y)' <=> Pending(y)) /\ received'[y] = received[y]
      BY <1>1, <2>3, <2>4 DEF Pending
    <3>2. (Requesting(y)' <=> Requesting(y)) /\ (Reached(y)' <=> Reached(y))
      BY <1>2, <3>1 DEF Requesting, Reached, Pending
    <3>3. Sound(y)' <=> Sound(y)
      BY <1>2, <3>1, <3>2 DEF Sound, Definitive
    <3>4. EvidenceOf(y)
      BY DEF EvidenceInv
    <3> QED
      BY <1>2, <3>1, <3>3, <3>4 DEF EvidenceOf
  <2>5. ASSUME NEW y, y = r.of PROVE EvidenceOf(y)'
    <3>1. y \in Exchanges /\ Pending(y) /\ Reached(y)
      BY <1>1, <1>3, <1>6, <2>5 DEF Pending, Reached
    <3>2. EvidenceOf(y)
      BY <3>1 DEF EvidenceInv
    <3>3. pc[y] \notin {"start", "lock", "admit", "send", "recv"} \cup Handshake
      BY <3>1, <3>2 DEF EvidenceOf
    <3>4. Len(received'[y]) = Len(received[y]) + 1 /\ Len(received[y]) \in Nat /\ received'[y] # <<>>
      BY <1>4, <2>2, <2>3, <2>5, <3>1, SMT
    <3>5. Reached(y)' /\ (Requesting(y)' <=> Requesting(y))
      BY <1>2, <3>4 DEF Reached, Requesting
    <3>6. ASSUME pc[y] = "returned", err[y] # "none" PROVE Sound(y)'
      <4>1. Sound(y)
        BY <3>2, <3>6 DEF EvidenceOf
      <4>2. Requesting(y) /\ ~Definitive(err[y]) /\ evidence[y].ambiguous
        BY <3>1, <4>1 DEF Sound
      <4>3. evidence[y].packets \in Nat /\ evidence[y].packets <= Len(received[y])
        BY <4>1, <4>2 DEF Sound
      <4>4. ~Definitive(err'[y]) /\ (evidence'[y].ambiguous <=> Reached(y)')
        BY <1>2, <3>5, <4>2
      <4> QED
        BY <1>2, <3>4, <3>5, <4>2, <4>3, <4>4, SMT DEF Sound
    <3> QED
      BY <1>2, <3>3, <3>6 DEF EvidenceOf
  <2> QED
    BY <1>2, <1>3, <1>4, <2>3, <2>4, <2>5 DEF EvidenceInv
<1> QED
  BY <1>5, <1>6

LEMMA EvidenceNext ==
    ASSUME GateInv, EvidenceInv, [Next]_vars
    PROVE  EvidenceInv'
<1>1. ASSUME NEW x \in Exchanges, ExchangeCall(x) PROVE EvidenceInv'
  <2>1. pc[x] = "start" /\ Quiet /\ UNCHANGED <<evidence, progress>>
    BY <1>1, QuietFacts DEF ExchangeCall, Goto
  <2>2. PICK l \in {"lock", "admit", "returned"}, e \in Errors :
          pc' = [pc EXCEPT ![x] = l] /\ (err' = err \/ err' = [err EXCEPT ![x] = e])
    BY <1>1 DEF ExchangeCall, Return, Goto, Errors
  <2> QED
    BY <2>1, <2>2, EvidenceReturn
<1>2. ASSUME NEW x \in Exchanges, ExchangeLock(x) PROVE EvidenceInv'
  <2>1. pc[x] = "lock" /\ Quiet /\ UNCHANGED <<evidence, progress>>
    BY <1>2, QuietFacts DEF ExchangeLock, Goto
  <2>2. PICK l \in {"lock", "admit", "returned"}, e \in Errors :
          pc' = [pc EXCEPT ![x] = l] /\ (err' = err \/ err' = [err EXCEPT ![x] = e])
    BY <1>2 DEF ExchangeLock, Return, Goto, Errors
  <2> QED
    BY <2>1, <2>2, EvidenceReturn
<1>3. ASSUME NEW x \in Exchanges, ExchangeAdmit(x) PROVE EvidenceInv'
  <2>1. pc[x] = "admit" /\ Quiet
    BY <1>3, QuietFacts DEF ExchangeAdmit
  <2>2. ASSUME NEW e, Return(x, e), UNCHANGED <<evidence, progress>> PROVE EvidenceInv'
    BY <2>1, <2>2, EvidenceReturn DEF Return
  <2>3. ASSUME progress' = Fresh("INIT"), Goto(x, "attempt") PROVE EvidenceInv'
    <3>1. progress'.stage \in {"INIT", "PING"} /\ "attempt" \in Handshake
      BY <2>3 DEF Fresh, Progress, Handshake
    <3> QED
      BY <2>1, <2>3, <3>1, EvidenceGoto DEF Goto
  <2>4. ASSUME progress' = Fresh("request"), Goto(x, "send") PROVE EvidenceInv'
    BY <2>1, <2>4, EvidenceGoto DEF Goto
  <2> QED
    BY <1>3, <2>2, <2>3, <2>4 DEF ExchangeAdmit
<1>4. ASSUME NEW x \in Exchanges, HandshakeAttempt(x) PROVE EvidenceInv'
  <2>1. pc[x] \in Handshake /\ Quiet
    BY <1>4, QuietFacts DEF HandshakeAttempt, Handshake
  <2>2. ASSUME progress' = Fresh("INIT"), Goto(x, "initWrite") PROVE EvidenceInv'
    <3>1. progress'.stage \in {"INIT", "PING"} /\ "initWrite" \in Handshake
      BY <2>2 DEF Fresh, Progress, Handshake
    <3> QED
      BY <2>1, <2>2, <3>1, EvidenceGoto DEF Goto
  <2> QED
    BY <1>4, <2>1, <2>2, EarlyFail DEF HandshakeAttempt
<1>5. ASSUME NEW x \in Exchanges, HandshakeRetry(x) PROVE EvidenceInv'
  <2>1. pc[x] \in Handshake /\ Quiet
    BY <1>5, QuietFacts DEF HandshakeRetry, Handshake
  <2>2. ASSUME NextAttempt(x), UNCHANGED <<progress, err, evidence>> PROVE EvidenceInv'
    <3>1. progress'.stage \in {"INIT", "PING"} /\ "attempt" \in Handshake
      BY <2>1, <2>2 DEF EvidenceInv, EvidenceOf, Handshake
    <3> QED
      BY <2>1, <2>2, <3>1, EvidenceGoto DEF NextAttempt
  <2> QED
    BY <1>5, <2>1, <2>2, EarlyFail DEF HandshakeRetry
<1>6. ASSUME NEW x \in Exchanges, InitWrite(x) PROVE EvidenceInv'
  <2>1. PICK r : /\ Writing(x, r) /\ pc[x] # "send" /\ UNCHANGED sent
                 /\ WriteFails(x, r) \/ Written(x, r, "initRead")
    BY <1>6 DEF InitWrite, Writing
  <2> QED
    BY <2>1, WriteFailsEvidence, WrittenEvidence
<1>7. ASSUME NEW x \in Exchanges, PingWrite(x) PROVE EvidenceInv'
  <2>1. PICK r : /\ Writing(x, r) /\ pc[x] # "send" /\ UNCHANGED sent
                 /\ WriteFails(x, r) \/ Written(x, r, "pingRead")
    BY <1>7 DEF PingWrite, Writing
  <2> QED
    BY <2>1, WriteFailsEvidence, WrittenEvidence
<1>8. ASSUME NEW x \in Exchanges, SendPacket(x) PROVE EvidenceInv'
  <2>1. PICK r : /\ Writing(x, r) /\ pc[x] = "send"
                 /\ \/ WriteFails(x, r) /\ UNCHANGED sent
                    \/ /\ Written(x, r, IF r.seq = Packets THEN "recv" ELSE "send")
                       /\ sent' = [sent EXCEPT ![x] = r.seq]
    BY <1>8 DEF SendPacket, Writing
  <2> QED
    BY <2>1, WriteFailsEvidence, WrittenEvidence
<1>9. ASSUME NEW x \in Exchanges, InitRead(x) PROVE EvidenceInv'
  <2>1. pc[x] \in Handshake /\ Quiet
    BY <1>9, QuietFacts DEF InitRead, Handshake
  <2>2. ASSUME progress' = Fresh("PING"), Goto(x, "pingWrite") PROVE EvidenceInv'
    <3>1. progress'.stage \in {"INIT", "PING"} /\ "pingWrite" \in Handshake
      BY <2>2 DEF Fresh, Progress, Handshake
    <3> QED
      BY <2>1, <2>2, <3>1, EvidenceGoto DEF Goto
  <2> QED
    BY <1>9, <2>1, <2>2, HandshakeEvidence DEF InitRead
<1>10. ASSUME NEW x \in Exchanges, PingRead(x) PROVE EvidenceInv'
  <2>1. pc[x] \in Handshake /\ Quiet
    BY <1>10, QuietFacts DEF PingRead, Handshake
  <2>2. ASSUME progress' = Fresh("request"), Goto(x, "send") PROVE EvidenceInv'
    BY <2>1, <2>2, EvidenceGoto DEF Goto
  <2> QED
    BY <1>10, <2>1, <2>2, HandshakeEvidence DEF PingRead
<1>11. ASSUME NEW c \in Closers, CloseMark(c) \/ CloseConn(c) PROVE EvidenceInv'
  <2>1. Quiet /\ UNCHANGED <<err, evidence, progress>>
    BY <1>11, QuietFacts DEF CloseMark, CloseConn, Goto
  <2>2. \A x \in Exchanges : pc'[x] = pc[x]
    BY <1>11, SessionAssumption DEF CloseMark, CloseConn, Goto, GateInv, Calls
  <2> QED
    BY <2>1, <2>2, EvidenceSkip
<1>12. ASSUME NEW x \in Exchanges, Expire(x) PROVE EvidenceInv'
  BY <1>12, QuietFacts, EvidenceSkip DEF Expire, callVars
<1>13. ASSUME DeviceSend PROVE EvidenceInv'
  <2>1. Quiet
    BY <1>13 DEF DeviceSend, Quiet, Pending, EvidenceInv, LimboOK
  <2> QED
    BY <1>13, <2>1, EvidenceSkip DEF DeviceSend, callVars
<1>14. ASSUME ConnFail \/ OtherTraffic \/ Reopen PROVE EvidenceInv'
  BY <1>14, QuietFacts, EvidenceSkip, SMT DEF ConnFail, OtherTraffic, Reopen, callVars
<1>15. ASSUME UNCHANGED vars PROVE EvidenceInv'
  BY <1>15, QuietFacts, EvidenceSkip DEF vars, callVars
<1> QED
  BY <1>1, <1>2, <1>3, <1>4, <1>5, <1>6, <1>7, <1>8, <1>9, <1>10, <1>11, <1>12, <1>13, <1>14, <1>15,
     ResponseEvidence, LateEvidence
  DEF Next, ExchangeStep, Finished

LEMMA EvidenceInit == Init => EvidenceInv
<1> SUFFICES ASSUME Init PROVE EvidenceInv
  OBVIOUS
<1>1. /\ sent \in [Exchanges -> Nat] /\ LimboOK
      /\ received \in [Exchanges -> Seq(Nat)] /\ DOMAIN evidence = Exchanges
  BY SMT DEF Init, LimboOK
<1>2. ASSUME NEW x \in Exchanges PROVE EvidenceOf(x)
  <2>1. pc[x] = "start" /\ sent[x] = 0 /\ received[x] = <<>> /\ evidence[x] = NoProgress
    BY DEF Init, Calls
  <2>2. NoProgress.stage = "INIT" /\ ~Pending(x)
    BY DEF NoProgress, Fresh, Progress, Init, Pending
  <2> QED
    BY <2>1, <2>2 DEF EvidenceOf, Handshake
<1> QED
  BY <1>1, <1>2 DEF EvidenceInv

\* What has arrived of a request is a prefix of its packets, and a report of unknown
\* outcome is the packet that comes next.
ArrivedInv ==
    /\ \A x \in Exchanges : \A i \in 1..Len(received[x]) : received[x][i] = i
    /\ \A r \in limbo : r.kind = "app" => r.seq = Len(received[r.of]) + 1
    /\ \A r, s \in limbo : r.kind = "app" /\ s.kind = "app" /\ r.of = s.of => r = s

\* The next packet arrives, and no other of its request is under way.
LEMMA NextArrives ==
    ASSUME EvidenceInv, ArrivedInv, NEW r, Gets(r), limbo' \subseteq limbo,
           r.kind = "app" => /\ r.of \in Exchanges /\ r.seq = Len(received[r.of]) + 1
                             /\ \A s \in limbo' : s.kind = "app" => s.of # r.of
    PROVE  ArrivedInv'
<1>1. CASE r.kind # "app"
  BY <1>1 DEF ArrivedInv, Gets
<1>2. CASE r.kind = "app"
  <2>1. received' = [received EXCEPT ![r.of] = Append(received[r.of], r.seq)]
    BY <1>2 DEF Gets
  <2>2. received \in [Exchanges -> Seq(Nat)] /\ LimboOK
    BY DEF EvidenceInv
  <2>3. /\ received'[r.of] = Append(received[r.of], r.seq)
        /\ \A y \in Exchanges \ {r.of} : received'[y] = received[y]
    BY <1>2, <2>1, <2>2
  <2>4. \A i \in 1..Len(received'[r.of]) : received'[r.of][i] = i
    <3>1. received[r.of] \in Seq(Nat) /\ \A i \in 1..Len(received[r.of]) : received[r.of][i] = i
      BY <1>2, <2>2 DEF ArrivedInv
    <3> QED
      BY <1>2, <2>3, <3>1, SMT
  <2>5. \A x \in Exchanges : \A i \in 1..Len(received'[x]) : received'[x][i] = i
    BY <2>3, <2>4 DEF ArrivedInv
  <2>6. \A s \in limbo' : s.kind = "app" => s.seq = Len(received'[s.of]) + 1
    BY <1>2, <2>2, <2>3 DEF ArrivedInv, LimboOK
  <2> QED
    BY <2>5, <2>6 DEF ArrivedInv
<1> QED
  BY <1>1, <1>2

LEMMA WriteArrives ==
    ASSUME EvidenceInv, ArrivedInv, NEW x \in Exchanges, NEW r, Writing(x, r), NEW l,
           WriteFails(x, r) \/ Written(x, r, l)
    PROVE  ArrivedInv'
<1>1. r.of = x /\ (r.kind = "app" <=> pc[x] = "send") /\ (pc[x] = "send" => r.seq = sent[x] + 1)
  BY SMT DEF Writing, Report
<1>2. r.kind = "app" => /\ r.seq = Len(received[x]) + 1
                        /\ \A s \in limbo : s.kind = "app" => s.of # x
  BY <1>1 DEF EvidenceInv, EvidenceOf, Pending
<1>3. CASE UNCHANGED <<received, limbo>>
  BY <1>3 DEF ArrivedInv
<1>4. CASE Gets(r) /\ UNCHANGED limbo
  BY <1>1, <1>2, <1>4, NextArrives
<1>5. CASE UNCHANGED received /\ limbo' = limbo \cup {r}
  BY <1>1, <1>2, <1>5 DEF ArrivedInv
<1> QED
  BY <1>3, <1>4, <1>5 DEF WriteFails, Written, deviceVars

LEMMA ArrivedNext == EvidenceInv /\ ArrivedInv /\ [Next]_vars => ArrivedInv'
<1> SUFFICES ASSUME EvidenceInv, ArrivedInv, [Next]_vars PROVE ArrivedInv'
  OBVIOUS
<1>1. ASSUME UNCHANGED <<received, limbo>> PROVE ArrivedInv'
  BY <1>1 DEF ArrivedInv
<1>2. ASSUME NEW x \in Exchanges, ExchangeStep(x) PROVE ArrivedInv'
  <2>1. CASE InitWrite(x) \/ PingWrite(x) \/ SendPacket(x)
    <3>1. PICK r, l : Writing(x, r) /\ (WriteFails(x, r) \/ Written(x, r, l))
      BY <2>1 DEF InitWrite, PingWrite, SendPacket, Writing
    <3> QED
      BY <3>1, WriteArrives
  <2>2. CASE \/ ExchangeLock(x) \/ ExchangeAdmit(x) \/ HandshakeAttempt(x) \/ InitRead(x)
            \/ PingRead(x) \/ HandshakeRetry(x) \/ ReceiveResponse(x)
    BY <1>1, <2>2 DEF ExchangeLock, ExchangeAdmit, HandshakeAttempt, InitRead, PingRead,
       HandshakeRetry, ReceiveResponse, deviceVars
  <2> QED
    BY <1>2, <2>1, <2>2 DEF ExchangeStep
<1>3. ASSUME LateDelivery PROVE ArrivedInv'
  <2>1. PICK r \in limbo : limbo' = limbo \ {r} /\ Gets(r)
    BY <1>3 DEF LateDelivery
  <2>2. r.kind = "app" => /\ r.of \in Exchanges /\ r.seq = Len(received[r.of]) + 1
                          /\ \A s \in limbo' : s.kind = "app" => s.of # r.of
    BY <2>1 DEF ArrivedInv, EvidenceInv, LimboOK
  <2> QED
    BY <2>1, <2>2, NextArrives
<1>4. ASSUME \/ \E x \in Exchanges : ExchangeCall(x) \/ Expire(x)
             \/ \E c \in Closers : CloseMark(c) \/ CloseConn(c)
             \/ ConnFail \/ DeviceSend \/ OtherTraffic \/ Reopen \/ UNCHANGED vars
      PROVE  ArrivedInv'
  <2>1. UNCHANGED <<received, limbo>>
    BY <1>4, SMT DEF ExchangeCall, Expire, CloseMark, CloseConn, ConnFail, DeviceSend, OtherTraffic,
       Reopen, vars, deviceVars
  <2> QED
    BY <1>1, <2>1
<1> QED
  BY <1>2, <1>3, <1>4 DEF Next, Finished

LEMMA ArrivedInit == Init => ArrivedInv
<1> SUFFICES ASSUME Init PROVE ArrivedInv
  OBVIOUS
<1>1. limbo = {} /\ \A x \in Exchanges : received[x] = <<>>
  BY DEF Init
<1>2. Len(<<>>) = 0 /\ \A i \in 1..0 : FALSE
  BY SMT
<1> QED
  BY <1>1, <1>2 DEF ArrivedInv

\* For any number of calls, packets, retries and sessions: the packets of a request
\* arrive in order and at most once, and the ExchangeError of a failed exchange
\* tells the truth about delivery, also after a report of unknown outcome arrives
\* late.
THEOREM EvidenceIsSoundHolds == Spec => []EvidenceIsSound
<1>1. EvidenceInv /\ ArrivedInv => EvidenceIsSound
  <2> SUFFICES ASSUME EvidenceInv, ArrivedInv PROVE EvidenceIsSound
    OBVIOUS
  <2>1. ASSUME NEW x \in Exchanges, pc[x] = "returned", err[x] # "none" PROVE Sound(x)
    BY <2>1 DEF EvidenceInv, EvidenceOf
  <2> QED
    BY <2>1 DEF EvidenceIsSound, ArrivedInv, Sound, Requesting, Reached, Pending, Definitive
<1> QED
  BY <1>1, GateInit, GateNext, EvidenceInit, EvidenceNext, ArrivedInit, ArrivedNext, PTL DEF Spec

------------------------------------------------------------------------------
(* Which messages may be under way, and on which channel. *)

Cids == {NoChannel, Broadcast, Foreign} \cup (Exchanges \X Nat)

Messages ==
    [cid : Cids, tag : Cids,
     kind : {"init", "badInit", "ping", "app", "busy", "device", "keepalive", "junk"}]

Reports == [kind : {"init", "ping", "app"}, of : Exchanges, seq : Nat, cid : Cids]

WorldOK ==
    /\ input \in Seq(Messages)
    /\ outbox \subseteq Messages
    /\ limbo \subseteq Reports
    /\ attempt \in [Exchanges -> Nat]
    /\ sent \in [Exchanges -> Nat]
    /\ channelID \in Cids \ {Broadcast, Foreign}
    /\ candidate \in Cids \ {Broadcast, Foreign}

Queued == {input[i] : i \in 1 .. Len(input)}

\* A PING may have been sent on the channel c: on one of an exchange it was, when
\* the exchange has got as far as reading the echo in this attempt.
Pinged(c) ==
    \A x \in Exchanges, a \in Nat : c = <<x, a>> =>
        \/ a < attempt[x]
        \/ a = attempt[x] /\ pc[x] \in {"pingRead", "retry", "send", "recv", "returned"}

\* Nothing is under way on a channel before its PING.
FreshInv ==
    /\ Pinged(channelID)
    /\ \A m \in outbox \cup Queued : Awaited(m) => Pinged(m.cid)
    /\ \A r \in limbo : Pinged(r.cid)

\* Where the exchange behind the gate stands with its channel.
ChannelInv ==
    \A x \in Exchanges :
        /\ pc[x] \in Handshake => channelID = NoChannel
        /\ pc[x] \in {"send", "recv"} => channelID # NoChannel
        /\ pc[x] \in {"pingWrite", "pingRead"} => candidate = Nonce(x)

\* At most one answer is under way on the channel c.
OnlyOne(c) ==
    /\ \A m, n \in outbox : m.cid = c /\ n.cid = c /\ Awaited(m) /\ Awaited(n) => m = n
    /\ \A m \in outbox, i \in 1 .. Len(input) :
          ~(m.cid = c /\ input[i].cid = c /\ Awaited(m) /\ Awaited(input[i]))
    /\ \A i, j \in 1 .. Len(input) :
          input[i].cid = c /\ input[j].cid = c /\ Awaited(input[i]) /\ Awaited(input[j]) => i = j

\* No answer is.
Silent(c) == \A m \in outbox \cup Queued : m.cid = c => ~Awaited(m)

\* No report of unknown outcome is for the channel c.
Settled(c) == \A r \in limbo : r.cid # c

\* On the channel of an open session, and on one that waits for its echo, at most
\* one answer is under way; on the session's it is the one its exchange waits for.
LiveInv ==
    ~closing =>
        /\ \A x \in Exchanges : pc[x] = "pingRead" => OnlyOne(candidate) /\ Settled(candidate)
        /\ channelID # NoChannel =>
              /\ OnlyOne(channelID) /\ Settled(channelID)
              /\ \A m \in outbox \cup Queued : m.cid = channelID /\ Awaited(m) =>
                    \E x \in Exchanges : pc[x] = "recv" /\ m.tag = Own(x)

\* No echo comes on the session's channel, nor will a PING be delivered there.
EchoInv ==
    channelID # NoChannel =>
        /\ \A m \in outbox \cup Queued : m.cid = channelID => m.kind # "ping"
        /\ \A r \in limbo : r.cid = channelID => r.kind # "ping"

MessageInv == GateInv /\ WorldOK /\ FreshInv /\ ChannelInv /\ LiveInv /\ EchoInv

------------------------------------------------------------------------------
(* What becomes of the messages under way. *)

LEMMA CidFacts ==
    /\ \A x \in Exchanges, a \in Nat : <<x, a>> \notin {NoChannel, Broadcast, Foreign}
    /\ \A x, y \in Exchanges, a, b \in Nat : <<x, a>> = <<y, b>> => x = y /\ a = b
    /\ NoChannel # Broadcast /\ NoChannel # Foreign /\ Broadcast # Foreign
BY SessionAssumption DEF NoChannel, Broadcast, Foreign, None

\* The input is unchanged, dropped, or loses its head.
Shrinks == input' = input \/ input' = <<>> \/ (input # <<>> /\ input' = Tail(input))

LEMMA ShrinkFacts ==
    ASSUME WorldOK, Shrinks, UNCHANGED outbox
    PROVE  /\ input' \in Seq(Messages)
           /\ Queued' \subseteq Queued
           /\ \A c : OnlyOne(c) => OnlyOne(c)'
<1>1. CASE input' = input
  BY <1>1 DEF WorldOK, Queued, OnlyOne
<1>2. CASE input' = <<>>
  BY <1>2, SMT DEF Queued, OnlyOne
<1>3. CASE input # <<>> /\ input' = Tail(input)
  <2>1. /\ input' \in Seq(Messages) /\ Len(input') = Len(input) - 1 /\ Len(input) \in Nat
        /\ \A i \in 1 .. Len(input') : i + 1 \in 1 .. Len(input) /\ input'[i] = input[i + 1]
    BY <1>3, SMT DEF WorldOK
  <2>2. Queued' \subseteq Queued
    BY <2>1 DEF Queued
  <2>3. ASSUME NEW c, OnlyOne(c) PROVE OnlyOne(c)'
    <3>1. \A i, j \in 1 .. Len(input') :
             input'[i].cid = c /\ input'[j].cid = c /\ Awaited(input'[i]) /\ Awaited(input'[j]) => i = j
      <4> SUFFICES ASSUME NEW i \in 1 .. Len(input'), NEW j \in 1 .. Len(input'),
                          input'[i].cid = c, input'[j].cid = c,
                          Awaited(input'[i]), Awaited(input'[j])
                   PROVE  i = j
        OBVIOUS
      <4>1. i + 1 = j + 1
        BY <2>1, <2>3 DEF OnlyOne
      <4> QED
        BY <2>1, <4>1, SMT
    <3> QED
      BY <2>1, <2>3, <3>1 DEF OnlyOne
  <2> QED
    BY <2>1, <2>2, <2>3
<1> QED
  BY <1>1, <1>2, <1>3 DEF Shrinks

\* The only answer on a channel is read: none is left.
LEMMA TakeFacts ==
    ASSUME WorldOK, input # <<>>, input' = Tail(input), UNCHANGED outbox,
           Awaited(Head(input)), OnlyOne(Head(input).cid)
    PROVE  \A m \in (outbox \cup Queued)' : m.cid = Head(input).cid => ~Awaited(m)
<1>1. /\ Len(input') = Len(input) - 1 /\ Len(input) \in Nat /\ Len(input) > 0
      /\ \A i \in 1 .. Len(input') : i + 1 \in 1 .. Len(input) /\ input'[i] = input[i + 1]
      /\ Head(input) = input[1]
  BY SMT DEF WorldOK
<1>2. ASSUME NEW m \in outbox, m.cid = Head(input).cid PROVE ~Awaited(m)
  BY <1>1, <1>2, SMT DEF OnlyOne
<1>3. ASSUME NEW i \in 1 .. Len(input'), input'[i].cid = Head(input).cid PROVE ~Awaited(input'[i])
  <2>1. i + 1 # 1 /\ i + 1 \in 1 .. Len(input) /\ 1 \in 1 .. Len(input)
    BY <1>1, SMT
  <2> QED
    BY <1>1, <1>3, <2>1 DEF OnlyOne
<1> QED
  BY <1>2, <1>3 DEF Queued

\* The authenticator decides on an answer.
LEMMA AddFacts ==
    ASSUME WorldOK, NEW m, UNCHANGED input, outbox' = outbox \cup {m}
    PROVE  /\ \A c : c # m.cid /\ OnlyOne(c) => OnlyOne(c)'
           /\ Silent(m.cid) => OnlyOne(m.cid)'
<1>1. \A c : c # m.cid /\ OnlyOne(c) => OnlyOne(c)'
  BY DEF OnlyOne
<1>2. ASSUME Silent(m.cid) PROVE OnlyOne(m.cid)'
  <2>1. \A n \in outbox : n.cid = m.cid => ~Awaited(n)
    BY <1>2 DEF Silent
  <2>2. \A i \in 1 .. Len(input) : input[i].cid = m.cid => ~Awaited(input[i])
    BY <1>2 DEF Silent, Queued
  <2> QED
    BY <2>1, <2>2 DEF OnlyOne
<1> QED
  BY <1>1, <1>2

\* It sends one.
LEMMA SendFacts ==
    ASSUME WorldOK, NEW m \in outbox, outbox' = outbox \ {m},
           input' = Append(input, m) \/ input' = input
    PROVE  /\ input' \in Seq(Messages)
           /\ (outbox \cup Queued)' \subseteq outbox \cup Queued
           /\ \A c : OnlyOne(c) => OnlyOne(c)'
<1>1. CASE input' = input
  BY <1>1 DEF WorldOK, Queued, OnlyOne
<1>2. CASE input' = Append(input, m)
  <2>1. /\ input' \in Seq(Messages) /\ Len(input') = Len(input) + 1 /\ Len(input) \in Nat
        /\ \A i \in 1 .. Len(input) : input'[i] = input[i]
        /\ input'[Len(input) + 1] = m
    BY <1>2, SMT DEF WorldOK
  <2>2. \A i \in 1 .. Len(input') : i \in 1 .. Len(input) \/ i = Len(input) + 1
    BY <2>1, SMT
  <2>3. (outbox \cup Queued)' \subseteq outbox \cup Queued
    BY <2>1, <2>2 DEF Queued
  <2>4. ASSUME NEW c, OnlyOne(c) PROVE OnlyOne(c)'
    <3>1. \A n \in outbox' : n \in outbox /\ n # m
      OBVIOUS
    <3>2. \A n \in outbox', i \in 1 .. Len(input') :
             ~(n.cid = c /\ input'[i].cid = c /\ Awaited(n) /\ Awaited(input'[i]))
      BY <2>1, <2>2, <2>4, <3>1 DEF OnlyOne
    <3>3. \A i, j \in 1 .. Len(input') :
             input'[i].cid = c /\ input'[j].cid = c /\ Awaited(input'[i]) /\ Awaited(input'[j]) => i = j
      <4> SUFFICES ASSUME NEW i \in 1 .. Len(input'), NEW j \in 1 .. Len(input'),
                          input'[i].cid = c, input'[j].cid = c,
                          Awaited(input'[i]), Awaited(input'[j])
                   PROVE  i = j
        OBVIOUS
      <4>1. CASE i \in 1 .. Len(input) /\ j \in 1 .. Len(input)
        BY <2>1, <2>4, <4>1 DEF OnlyOne
      <4>2. CASE i = Len(input) + 1 /\ j \in 1 .. Len(input)
        BY <2>1, <2>4, <4>2 DEF OnlyOne
      <4>3. CASE j = Len(input) + 1 /\ i \in 1 .. Len(input)
        BY <2>1, <2>4, <4>3 DEF OnlyOne
      <4> QED
        BY <2>2, <4>1, <4>2, <4>3
    <3> QED
      BY <2>4, <3>1, <3>2, <3>3 DEF OnlyOne
  <2> QED
    BY <2>1, <2>3, <2>4
<1> QED
  BY <1>1, <1>2

\* Other traffic comes in between.
LEMMA NoiseFacts ==
    ASSUME WorldOK, NEW m \in Messages, ~Awaited(m) \/ m.cid \in {Foreign, Broadcast},
           input' = Append(input, m), UNCHANGED outbox
    PROVE  /\ input' \in Seq(Messages)
           /\ Queued' \subseteq Queued \cup {m}
           /\ \A c : c \notin {Foreign, Broadcast} /\ OnlyOne(c) => OnlyOne(c)'
<1>1. /\ input' \in Seq(Messages) /\ Len(input') = Len(input) + 1 /\ Len(input) \in Nat
      /\ \A i \in 1 .. Len(input) : input'[i] = input[i]
      /\ input'[Len(input) + 1] = m
  BY SMT DEF WorldOK
<1>2. \A i \in 1 .. Len(input') : i \in 1 .. Len(input) \/ i = Len(input) + 1
  BY <1>1, SMT
<1>3. Queued' \subseteq Queued \cup {m}
  BY <1>1, <1>2 DEF Queued
<1>4. ASSUME NEW c, c \notin {Foreign, Broadcast}, OnlyOne(c) PROVE OnlyOne(c)'
  <2>1. ASSUME NEW i \in 1 .. Len(input'), input'[i].cid = c, Awaited(input'[i])
        PROVE  i \in 1 .. Len(input) /\ input'[i] = input[i]
    BY <1>1, <1>2, <1>4, <2>1
  <2> QED
    BY <1>4, <2>1, SMT DEF OnlyOne
<1> QED
  BY <1>1, <1>3, <1>4

------------------------------------------------------------------------------
(* The invariant. *)

LEMMA ReplyFacts ==
    ASSUME NEW r \in Reports, WorldOK, NEW m \in Replies(r)
    PROVE  /\ m \in Messages /\ m.cid = r.cid /\ Awaited(m)
           /\ r.kind = "app" => r.seq = Packets /\ m.tag = Own(r.of)
           /\ m.kind = "ping" => r.kind = "ping"
<1>1. Nonce(r.of) \in Cids /\ Own(r.of) \in Cids
  BY DEF Reports, WorldOK, Nonce, Own, Cids
<1>2. r.cid \in Cids
  BY DEF Reports
<1>3. CASE r.kind = "init"
  BY <1>1, <1>2, <1>3, SMT DEF Replies, Message, Messages, Awaited
<1>4. CASE r.kind = "ping"
  BY <1>1, <1>2, <1>4, SMT DEF Replies, Message, Messages, Awaited
<1>5. CASE r.kind = "app"
  BY <1>1, <1>2, <1>5, SMT DEF Replies, Message, Messages, Awaited
<1> QED
  BY <1>3, <1>4, <1>5 DEF Reports

LEMMA WritingFacts ==
    ASSUME WorldOK, NEW x \in Exchanges, NEW r, Writing(x, r)
    PROVE  /\ r \in Reports /\ r.of = x
           /\ pc[x] = "initWrite" => r.kind = "init" /\ r.cid = Broadcast
           /\ pc[x] = "pingWrite" => r.kind = "ping" /\ r.cid = candidate
           /\ pc[x] = "send" => r.kind = "app" /\ r.cid = channelID /\ r.seq = sent[x] + 1
           /\ pc[x] \in {"initWrite", "pingWrite", "send"}
BY SMT DEF Writing, Report, Reports, WorldOK, Cids

StepOf(x) == Outside(x) \/ Retires(x) \/ Quits(x) \/ Goes(x) \/ Writes(x) \/ Chooses(x)

\* The steps of everybody else.
WorldStep ==
    /\ UNCHANGED <<attempt, sent, candidate>>
    /\ \A x \in Exchanges : pc'[x] = pc[x]
    /\ \/ /\ closing' \in {closing, TRUE} /\ input' \in {input, <<>>}
          /\ UNCHANGED <<channelID, outbox, limbo>>
       \/ /\ channelID' = NoChannel /\ input' = <<>>
          /\ \A x \in Exchanges : pc[x] \notin Inside
          /\ UNCHANGED <<outbox, limbo>>
       \/ /\ UNCHANGED <<closing, channelID, limbo>>
          /\ \E m \in outbox : /\ outbox' = outbox \ {m}
                               /\ input' = Append(input, m) \/ input' = input
       \/ /\ UNCHANGED <<closing, channelID, input>>
          /\ \E r \in limbo : limbo' = limbo \ {r} /\ Answered(r)
       \/ /\ UNCHANGED <<closing, channelID, outbox, limbo>>
          /\ \E m \in Messages : /\ ~Awaited(m) \/ m.cid \in {Foreign, Broadcast}
                                 /\ m.kind # "ping"
                                 /\ input' = Append(input, m)

LEMMA WorldSummary ==
    ASSUME GateInv, WorldOK,
           \/ \E x \in Exchanges : Expire(x)
           \/ \E c \in Closers : CloseMark(c) \/ CloseConn(c)
           \/ ConnFail \/ DeviceSend \/ LateDelivery \/ OtherTraffic \/ Reopen
           \/ UNCHANGED vars
    PROVE  WorldStep
<1>1. CASE UNCHANGED vars \/ \E x \in Exchanges : Expire(x)
  BY <1>1 DEF vars, Expire, endVars, callVars, deviceVars, WorldStep
<1>2. ASSUME NEW c \in Closers, CloseMark(c) \/ CloseConn(c) PROVE WorldStep
  <2>1. \A x \in Exchanges : pc'[x] = pc[x]
    BY <1>2, SessionAssumption DEF CloseMark, CloseConn, Goto, GateInv, Calls
  <2> QED
    BY <1>2, <2>1 DEF CloseMark, CloseConn, WorldStep, deviceVars
<1>3. CASE ConnFail
  BY <1>3 DEF ConnFail, callVars, deviceVars, WorldStep
<1>4. CASE DeviceSend
  <2>1. /\ UNCHANGED <<attempt, sent, candidate, pc, closing, channelID, limbo>>
        /\ \E m \in outbox : /\ outbox' = outbox \ {m}
                             /\ input' = Append(input, m) \/ input' = input
    BY <1>4 DEF DeviceSend, callVars
  <2> QED
    BY <2>1 DEF WorldStep
<1>5. CASE LateDelivery
  <2>1. /\ UNCHANGED <<attempt, sent, candidate, pc, closing, channelID, input>>
        /\ \E r \in limbo : limbo' = limbo \ {r} /\ Gets(r)
    BY <1>5 DEF LateDelivery, callVars, endVars
  <2>2. \A r : Gets(r) => Answered(r)
    BY DEF Gets, Answered
  <2> QED
    BY <2>1, <2>2 DEF WorldStep
<1>6. CASE OtherTraffic
  <2>1. /\ UNCHANGED <<attempt, sent, candidate, pc, closing, channelID, outbox, limbo>>
        /\ \E m \in {Message(Foreign, "app", Foreign), Message(Broadcast, "init", Foreign)}
                    \cup {Message(c, k, NoChannel) : c \in Channels, k \in {"keepalive", "junk"}} :
              input' = Append(input, m)
    BY <1>6, SMT DEF OtherTraffic, callVars, deviceVars
  <2>2. Channels \subseteq Cids /\ {Foreign, Broadcast, NoChannel} \subseteq Cids
    BY DEF Channels, WorldOK, Cids
  <2>3. ASSUME NEW m \in {Message(Foreign, "app", Foreign), Message(Broadcast, "init", Foreign)}
        PROVE  m \in Messages /\ m.cid \in {Foreign, Broadcast} /\ m.kind # "ping"
    BY <2>2, SMT DEF Message, Messages
  <2>4. ASSUME NEW c \in Channels, NEW k \in {"keepalive", "junk"}
        PROVE  LET m == Message(c, k, NoChannel) IN m \in Messages /\ ~Awaited(m) /\ m.kind # "ping"
    BY <2>2 DEF Message, Messages, Awaited
  <2>5. \E m \in Messages : /\ ~Awaited(m) \/ m.cid \in {Foreign, Broadcast}
                            /\ m.kind # "ping"
                            /\ input' = Append(input, m)
    BY <2>1, <2>3, <2>4, SMT
  <2> QED
    BY <2>1, <2>5 DEF WorldStep
<1>7. CASE Reopen
  BY <1>7 DEF Reopen, callVars, deviceVars, WorldStep, Calls, Inside, Handshake
<1> QED
  BY <1>1, <1>2, <1>3, <1>4, <1>5, <1>6, <1>7

LEMMA NextSummary ==
    ASSUME GateInv, WorldOK, [Next]_vars
    PROVE  WorldStep \/ \E x \in Exchanges : StepOf(x)
<1>1. ASSUME NEW x \in Exchanges, ExchangeCall(x) \/ ExchangeStep(x) PROVE StepOf(x)
  BY <1>1, StepSummary DEF StepOf
<1>2. \/ \E x \in Exchanges : ExchangeCall(x) \/ ExchangeStep(x)
      \/ \E x \in Exchanges : Expire(x)
      \/ \E c \in Closers : CloseMark(c) \/ CloseConn(c)
      \/ ConnFail \/ DeviceSend \/ LateDelivery \/ OtherTraffic \/ Reopen
      \/ UNCHANGED vars
  BY DEF Next, Finished
<1> QED
  BY <1>1, <1>2, WorldSummary

LEMMA WorldNext ==
    ASSUME GateInv, WorldOK, [Next]_vars PROVE WorldOK'
<1>1. ASSUME NEW r \in Reports, Answered(r) PROVE outbox' \subseteq Messages
  BY <1>1, ReplyFacts DEF Answered, WorldOK
<1>2. CASE WorldStep
  <2>0. input \in Seq(Messages) /\ <<>> \in Seq(Messages)
    BY SMT DEF WorldOK
  <2>1. input' \in Seq(Messages)
    BY <1>2, <2>0, SendFacts, NoiseFacts DEF WorldStep
  <2>2. outbox' \subseteq Messages
    BY <1>1, <1>2 DEF WorldStep, WorldOK
  <2>3. limbo' \subseteq Reports
    BY <1>2 DEF WorldStep, WorldOK
  <2> QED
    BY <1>2, <2>1, <2>2, <2>3, CidFacts DEF WorldStep, WorldOK, Cids
<1>3. ASSUME NEW x \in Exchanges, StepOf(x) PROVE WorldOK'
  <2>1. \/ UNCHANGED outbox
        \/ \E r : Writing(x, r) /\ Answered(r)
    BY <1>3 DEF StepOf, Outside, Retires, Quits, Goes, Writes, Chooses
  <2>2. outbox' \subseteq Messages
    BY <1>1, <2>1, WritingFacts DEF WorldOK
  <2>3. \/ UNCHANGED limbo
        \/ \E r : Writing(x, r) /\ limbo' = limbo \cup {r}
    BY <1>3 DEF StepOf, Outside, Retires, Quits, Goes, Writes, Chooses
  <2>4. limbo' \subseteq Reports
    BY <2>3, WritingFacts, SMT DEF WorldOK
  <2>5. Shrinks
    BY <1>3 DEF StepOf, Outside, Retires, Quits, Goes, Writes, Chooses, Shrinks
  <2>6. input' \in Seq(Messages)
    <3>1. input \in Seq(Messages) /\ <<>> \in Seq(Messages)
      BY SMT DEF WorldOK
    <3>2. CASE input # <<>> /\ input' = Tail(input)
      BY <3>1, <3>2, SMT
    <3> QED
      BY <2>5, <3>1, <3>2 DEF Shrinks
  <2>7. \/ UNCHANGED attempt
        \/ attempt' = [attempt EXCEPT ![x] = @ + 1]
    BY <1>3 DEF StepOf, Outside, Retires, Quits, Goes, Writes, Chooses
  <2>8. sent' \in {sent, [sent EXCEPT ![x] = sent[x] + 1]}
    BY <1>3 DEF StepOf, Outside, Retires, Quits, Goes, Writes, Chooses
  <2>9. channelID' \in {channelID, candidate} /\ candidate' \in {candidate, NoChannel, Nonce(x)}
    BY <1>3 DEF StepOf, Outside, Retires, Quits, Goes, Writes, Chooses
  <2>10. attempt' \in [Exchanges -> Nat] /\ sent' \in [Exchanges -> Nat]
    BY <2>7, <2>8, SMTT(30) DEF WorldOK
  <2>11. {NoChannel, Nonce(x)} \subseteq Cids \ {Broadcast, Foreign}
    BY CidFacts, SMT DEF Nonce, Cids, WorldOK
  <2>12. /\ channelID' \in Cids \ {Broadcast, Foreign}
         /\ candidate' \in Cids \ {Broadcast, Foreign}
    BY <2>9, <2>11 DEF WorldOK
  <2> QED
    BY <2>2, <2>4, <2>6, <2>10, <2>12 DEF WorldOK
<1> QED
  BY <1>2, <1>3, NextSummary

\* A channel on which a PING was sent stays one.
LEMMA PingedStep ==
    ASSUME GateInv, WorldOK, WorldStep \/ \E x \in Exchanges : StepOf(x), NEW c, Pinged(c)
    PROVE  Pinged(c)'
<1> SUFFICES ASSUME NEW y \in Exchanges, NEW a \in Nat, c = <<y, a>>
             PROVE  \/ a < attempt'[y]
                    \/ a = attempt'[y] /\ pc'[y] \in {"pingRead", "retry", "send", "recv", "returned"}
  BY DEF Pinged
<1>1. \/ a < attempt[y]
      \/ a = attempt[y] /\ pc[y] \in {"pingRead", "retry", "send", "recv", "returned"}
  BY DEF Pinged
<1>2. CASE WorldStep
  BY <1>1, <1>2 DEF WorldStep
<1>3. ASSUME NEW x \in Exchanges, StepOf(x), x # y PROVE attempt'[y] = attempt[y] /\ pc'[y] = pc[y]
  BY <1>3 DEF StepOf, Outside, Retires, Quits, Goes, Writes, Chooses, GateInv, WorldOK, Calls
<1>4. CASE StepOf(y)
  <2>1. pc \in [Calls -> Labels] /\ y \in Calls /\ attempt \in [Exchanges -> Nat]
    BY DEF GateInv, Calls, WorldOK
  <2>2. CASE Outside(y)
    BY <1>1, <2>1, <2>2 DEF Outside
  <2>3. CASE Retires(y) \/ Quits(y) \/ Chooses(y)
    BY <1>1, <2>1, <2>3 DEF Retires, Quits, Chooses
  <2>4. CASE Writes(y)
    BY <1>1, <2>1, <2>4 DEF Writes
  <2>5. CASE Goes(y)
    BY <1>1, <2>1, <2>5, SMT DEF Goes
  <2> QED
    BY <1>4, <2>2, <2>3, <2>4, <2>5 DEF StepOf
<1> QED
  BY <1>1, <1>2, <1>3, <1>4

LEMMA PingedNames == Pinged(NoChannel) /\ Pinged(Broadcast) /\ Pinged(Foreign)
BY CidFacts DEF Pinged

LEMMA FreshNext ==
    ASSUME GateInv, WorldOK, FreshInv, ChannelInv, [Next]_vars
    PROVE  FreshInv'
<1>1. WorldStep \/ \E x \in Exchanges : StepOf(x)
  BY NextSummary
<1>2. \A c : Pinged(c) => Pinged(c)'
  BY <1>1, PingedStep
<1>3. Pinged(NoChannel)' /\ Pinged(Broadcast)' /\ Pinged(Foreign)'
  BY <1>2, PingedNames
<1>4. /\ Pinged(channelID)
      /\ \A m \in outbox \cup Queued : Awaited(m) => Pinged(m.cid)
      /\ \A r \in limbo : Pinged(r.cid)
  BY DEF FreshInv
<1>5. ASSUME NEW r \in Reports, Pinged(r.cid)', Answered(r), NEW m \in outbox'
      PROVE  m \in outbox \/ Pinged(m.cid)'
  BY <1>5, ReplyFacts, SMT DEF Answered
<1>6. CASE WorldStep
  <2>1. Pinged(channelID)'
    BY <1>2, <1>3, <1>4, <1>6 DEF WorldStep
  <2>2. \A r \in limbo' : Pinged(r.cid)'
    BY <1>2, <1>4, <1>6 DEF WorldStep
  <2>3. ASSUME NEW m \in (outbox \cup Queued)', Awaited(m) PROVE Pinged(m.cid)'
    <3>1. CASE m \in outbox \cup Queued
      BY <1>2, <1>4, <2>3, <3>1
    <3>2. CASE input' \in {input, <<>>} /\ UNCHANGED outbox
      BY <2>3, <3>1, <3>2, SMT DEF Queued
    <3>3. ASSUME NEW n \in outbox, outbox' = outbox \ {n}, input' = Append(input, n) \/ input' = input
          PROVE  Pinged(m.cid)'
      BY <2>3, <3>1, <3>3, SendFacts
    <3>4. ASSUME NEW r \in limbo, UNCHANGED input, Answered(r) PROVE Pinged(m.cid)'
      <4>1. r \in Reports /\ Pinged(r.cid)'
        BY <1>2, <1>4 DEF WorldOK
      <4> QED
        BY <1>5, <2>3, <3>1, <3>4, <4>1 DEF Queued
    <3>5. ASSUME NEW n \in Messages, ~Awaited(n) \/ n.cid \in {Foreign, Broadcast},
                 input' = Append(input, n), UNCHANGED outbox
          PROVE  Pinged(m.cid)'
      BY <1>3, <2>3, <3>1, <3>5, NoiseFacts
    <3> QED
      BY <1>6, <3>2, <3>3, <3>4, <3>5 DEF WorldStep
  <2> QED
    BY <2>1, <2>2, <2>3 DEF FreshInv
<1>7. ASSUME NEW x \in Exchanges, StepOf(x) PROVE FreshInv'
  <2>1. pc \in [Calls -> Labels] /\ x \in Calls /\ attempt \in [Exchanges -> Nat]
    BY DEF GateInv, Calls, WorldOK
  <2>2. ASSUME NEW c, c = Nonce(x), attempt'[x] = attempt[x],
               pc'[x] \in {"pingRead", "send", "returned"}
        PROVE  Pinged(c)'
    BY <2>1, <2>2, CidFacts DEF Pinged, Nonce
  <2>3. Pinged(channelID)'
    <3>1. CASE UNCHANGED channelID
      BY <1>2, <1>4, <3>1
    <3>2. CASE Chooses(x)
      BY <2>1, <2>2, <3>2 DEF Chooses, ChannelInv
    <3> QED
      BY <1>7, <3>1, <3>2 DEF StepOf, Outside, Retires, Quits, Goes, Writes
  <2>4. ASSUME NEW r, Writing(x, r), Retires(x) \/ Writes(x) PROVE r \in Reports /\ Pinged(r.cid)'
    <3>1. r \in Reports
      BY <2>4, WritingFacts
    <3>2. CASE pc[x] = "initWrite"
      BY <1>3, <2>4, <3>1, <3>2, WritingFacts, SMT
    <3>3. CASE pc[x] = "send"
      BY <1>2, <1>4, <2>4, <3>1, <3>3, WritingFacts, SMT
    <3>4. CASE pc[x] = "pingWrite"
      <4>1. attempt'[x] = attempt[x] /\ pc'[x] \in {"pingRead", "returned"}
        BY <2>1, <2>4, <3>4 DEF Retires, Writes
      <4>2. r.cid = Nonce(x)
        BY <2>4, <3>4, WritingFacts, SMT DEF ChannelInv
      <4> QED
        BY <2>2, <3>1, <4>1, <4>2
    <3> QED
      BY <2>4, <3>2, <3>3, <3>4, WritingFacts
  <2>5. \A r \in limbo' : Pinged(r.cid)'
    <3>1. \/ UNCHANGED limbo
          \/ Retires(x) /\ \E r : Writing(x, r) /\ limbo' = limbo \cup {r}
      BY <1>7 DEF StepOf, Outside, Retires, Quits, Goes, Writes, Chooses
    <3> QED
      BY <1>2, <1>4, <2>4, <3>1
  <2>6. ASSUME NEW m \in (outbox \cup Queued)', Awaited(m) PROVE Pinged(m.cid)'
    <3>1. CASE m \in outbox \cup Queued
      BY <1>2, <1>4, <2>6, <3>1
    <3>2. CASE Shrinks /\ UNCHANGED outbox
      BY <2>6, <3>1, <3>2, ShrinkFacts
    <3>3. ASSUME NEW r, Writing(x, r), Answered(r), Retires(x) \/ Writes(x), input' \in {input, <<>>}
          PROVE  Pinged(m.cid)'
      <4>1. m \in outbox' \/ m \in Queued
        BY <2>6, <3>3, SMT DEF Queued
      <4> QED
        BY <1>5, <2>4, <3>1, <3>3, <4>1
    <3> QED
      BY <1>7, <3>2, <3>3 DEF StepOf, Outside, Retires, Quits, Goes, Writes, Chooses, Shrinks
  <2> QED
    BY <2>3, <2>5, <2>6 DEF FreshInv
<1> QED
  BY <1>1, <1>6, <1>7

LEMMA ChannelNext ==
    ASSUME GateInv, WorldOK, ChannelInv, [Next]_vars
    PROVE  ChannelInv'
<1>1. CASE WorldStep
  BY <1>1 DEF WorldStep, ChannelInv, Nonce, Inside, Handshake
<1>2. ASSUME NEW x \in Exchanges, StepOf(x) PROVE ChannelInv'
  <2>1. pc \in [Calls -> Labels] /\ Exchanges \subseteq Calls /\ attempt \in [Exchanges -> Nat]
    BY DEF GateInv, Calls, WorldOK
  <2>2. Nonce(x) # NoChannel
    BY <2>1, CidFacts DEF Nonce
  <2>3. CASE Outside(x)
    BY <2>1, <2>3 DEF Outside, ChannelInv, Nonce, Handshake
  <2>4. ASSUME pc[x] \in Inside, NEW y \in Exchanges, y # x PROVE pc[y] \notin Inside
    BY <2>4, Alone
  <2>5. CASE pc[x] \in Inside
    <3>1. \A y \in Exchanges : y # x => pc'[y] = pc[y] /\ pc'[y] \notin Inside
      BY <1>2, <2>1, <2>4, <2>5 DEF StepOf, Outside, Retires, Quits, Goes, Writes, Chooses
    <3>2. /\ pc[x] \in Handshake => channelID = NoChannel
          /\ pc[x] \in {"send", "recv"} => channelID # NoChannel
          /\ pc[x] \in {"pingWrite", "pingRead"} => candidate = Nonce(x)
      BY DEF ChannelInv
    <3>3. CASE Retires(x) \/ Quits(x)
      BY <2>1, <3>1, <3>3 DEF Retires, Quits, ChannelInv, Inside, Handshake
    <3>4. CASE Chooses(x)
      BY <2>1, <2>2, <3>1, <3>2, <3>4 DEF Chooses, ChannelInv, Inside, Handshake
    <3>5. CASE Writes(x)
      BY <2>1, <3>1, <3>2, <3>5 DEF Writes, ChannelInv, Inside, Handshake, Nonce
    <3>6. CASE Goes(x)
      BY <2>1, <3>1, <3>2, <3>6 DEF Goes, ChannelInv, Inside, Handshake, Nonce
    <3> QED
      BY <1>2, <2>3, <3>3, <3>4, <3>5, <3>6 DEF StepOf
  <2>6. pc[x] \in Inside \/ Outside(x)
    BY <1>2 DEF StepOf, Retires, Quits, Goes, Writes, Chooses, Inside, Handshake
  <2> QED
    BY <2>3, <2>5, <2>6
<1> QED
  BY <1>1, <1>2, NextSummary

\* The conjuncts of LiveInv, for the channel c that waits for its echo or is the
\* session's.
Alive(c) == OnlyOne(c) /\ Settled(c)

Expected(c) ==
    \A m \in outbox \cup Queued : m.cid = c /\ Awaited(m) =>
        \E x \in Exchanges : pc[x] = "recv" /\ m.tag = Own(x)

\* The world leaves a live channel live, and brings no answer to it.
LEMMA WorldAlive ==
    ASSUME WorldOK, WorldStep, NEW c, c \notin {Foreign, Broadcast}, Alive(c)
    PROVE  /\ Alive(c)'
           /\ \A m \in (outbox \cup Queued)' : m.cid = c /\ Awaited(m) => m \in outbox \cup Queued
<1>1. Settled(c)'
  BY DEF Alive, WorldStep, Settled
<1>2. OnlyOne(c)
  BY DEF Alive
<1>3. CASE input' \in {input, <<>>} /\ UNCHANGED outbox
  BY <1>1, <1>2, <1>3, ShrinkFacts DEF Alive, Shrinks
<1>4. ASSUME NEW m \in outbox, outbox' = outbox \ {m}, input' = Append(input, m) \/ input' = input
      PROVE  OnlyOne(c)' /\ (outbox \cup Queued)' \subseteq outbox \cup Queued
  BY <1>2, <1>4, SendFacts
<1>5. ASSUME NEW r \in limbo, UNCHANGED input, Answered(r)
      PROVE  /\ OnlyOne(c)'
             /\ \A m \in (outbox \cup Queued)' : m.cid = c => m \in outbox \cup Queued
  <2>1. r \in Reports /\ r.cid # c
    BY <1>5 DEF WorldOK, Alive, Settled
  <2>2. Queued' = Queued
    BY <1>5 DEF Queued
  <2>3. CASE outbox' = outbox
    BY <1>2, <1>5, <2>2, <2>3 DEF OnlyOne
  <2>4. ASSUME NEW m \in Replies(r), outbox' = outbox \cup {m} PROVE m.cid # c /\ OnlyOne(c)'
    BY <1>2, <1>5, <2>1, <2>4, ReplyFacts, AddFacts
  <2> QED
    BY <1>5, <2>2, <2>3, <2>4 DEF Answered
<1>6. ASSUME NEW m \in Messages, ~Awaited(m) \/ m.cid \in {Foreign, Broadcast},
             input' = Append(input, m), UNCHANGED outbox
      PROVE  /\ OnlyOne(c)'
             /\ \A n \in (outbox \cup Queued)' : n.cid = c /\ Awaited(n) => n \in outbox \cup Queued
  BY <1>2, <1>6, NoiseFacts
<1> QED
  BY <1>1, <1>3, <1>4, <1>5, <1>6 DEF WorldStep, Alive

LEMMA LiveWorld ==
    ASSUME GateInv, WorldOK, ChannelInv, LiveInv, WorldStep PROVE LiveInv'
<1> SUFFICES ASSUME ~closing' PROVE LiveInv'
  BY DEF LiveInv
<1>1. /\ \A x \in Exchanges : pc'[x] = pc[x]
      /\ UNCHANGED <<candidate, attempt>>
  BY DEF WorldStep
<1>2. CASE channelID' = NoChannel /\ \A x \in Exchanges : pc[x] \notin Inside
  BY <1>1, <1>2 DEF LiveInv, Inside, Handshake
<1>3. CASE ~closing /\ UNCHANGED channelID
  <2>1. ASSUME NEW x \in Exchanges, pc'[x] = "pingRead" PROVE Alive(candidate)'
    <3>1. Alive(candidate)
      BY <1>1, <1>3, <2>1 DEF LiveInv, Alive
    <3>2. candidate \notin {Foreign, Broadcast}
      BY DEF WorldOK
    <3>3. PICK c : c = candidate
      OBVIOUS
    <3>4. Alive(c)'
      BY <3>1, <3>2, <3>3, WorldAlive
    <3> QED
      BY <1>1, <3>3, <3>4
  <2>2. ASSUME channelID # NoChannel PROVE Alive(channelID)' /\ Expected(channelID)'
    <3>1. PICK c : c = channelID
      OBVIOUS
    <3>2. Alive(c) /\ Expected(c)
      BY <1>3, <2>2, <3>1 DEF LiveInv, Alive, Expected
    <3>3. c \notin {Foreign, Broadcast}
      BY <3>1 DEF WorldOK
    <3>4. Alive(c)' /\ Expected(c)'
      BY <1>1, <3>2, <3>3, WorldAlive DEF Expected
    <3> QED
      BY <1>3, <3>1, <3>4
  <2> QED
    BY <1>3, <2>1, <2>2 DEF LiveInv, Alive, Expected
<1>4. \/ channelID' = NoChannel /\ \A x \in Exchanges : pc[x] \notin Inside
      \/ UNCHANGED channelID /\ (closing' = TRUE \/ UNCHANGED closing)
  BY DEF WorldStep
<1>5. CASE closing' = TRUE
  BY <1>5
<1> QED
  BY <1>2, <1>3, <1>4, <1>5

LEMMA LiveStep ==
    ASSUME GateInv, WorldOK, FreshInv, ChannelInv, LiveInv, NEW x \in Exchanges, StepOf(x)
    PROVE  LiveInv'
<1> SUFFICES ASSUME ~closing' PROVE LiveInv'
  BY DEF LiveInv
<1>1. pc \in [Calls -> Labels] /\ Exchanges \subseteq Calls /\ attempt \in [Exchanges -> Nat]
  BY DEF GateInv, Calls, WorldOK
<1>2. \A y \in Exchanges : y # x => pc'[y] = pc[y]
  BY <1>1 DEF StepOf, Outside, Retires, Quits, Goes, Writes, Chooses
<1>3. ASSUME pc[x] \in Inside, NEW y \in Exchanges, pc'[y] \in {"pingRead", "recv"} PROVE y = x
  BY <1>2, <1>3, Alone DEF Inside, Handshake
<1>4. ASSUME pc[x] \in Inside, NEW y \in Exchanges, pc[y] \in {"pingRead", "recv"} PROVE y = x
  BY <1>4, Alone DEF Inside, Handshake
<1>5. /\ pc[x] \in Handshake => channelID = NoChannel
      /\ pc[x] \in {"send", "recv"} => channelID # NoChannel
      /\ pc[x] \in {"pingWrite", "pingRead"} => candidate = Nonce(x)
  BY DEF ChannelInv
<1>6. ASSUME ~closing, channelID # NoChannel
      PROVE  /\ OnlyOne(channelID) /\ Settled(channelID)
             /\ \A m \in outbox \cup Queued : m.cid = channelID /\ Awaited(m) =>
                  \E y \in Exchanges : pc[y] = "recv" /\ m.tag = Own(y)
  BY <1>6 DEF LiveInv
<1>7. CASE Outside(x)
  <2>1. /\ \A y \in Exchanges : pc'[y] = "pingRead" => pc[y] = "pingRead"
        /\ \A y \in Exchanges : pc[y] = "recv" => pc'[y] = "recv"
    BY <1>1, <1>2, <1>7 DEF Outside
  <2>2. UNCHANGED <<closing, channelID, candidate, input, outbox, limbo>>
    BY <1>7 DEF Outside
  <2> QED
    BY <2>1, <2>2, SMT DEF LiveInv, OnlyOne, Settled, Queued, Own
<1>8. CASE Retires(x)
  BY <1>8 DEF Retires
<1>9. CASE Quits(x)
  <2>1. ~closing /\ UNCHANGED <<channelID, outbox, limbo>> /\ Shrinks /\ pc'[x] = "returned"
    BY <1>1, <1>9 DEF Quits, Shrinks
  <2>2. \A y \in Exchanges : pc'[y] # "pingRead"
    BY <1>3, <1>9, <2>1 DEF Quits, Inside
  <2>3. ASSUME channelID # NoChannel
        PROVE  /\ OnlyOne(channelID)' /\ Settled(channelID)'
               /\ \A m \in (outbox \cup Queued)' : ~(m.cid = channelID /\ Awaited(m))
    <3>1. PICK c : c = channelID
      OBVIOUS
    <3>2. pc[x] = "recv" /\ Head(input).cid = c /\ Awaited(Head(input)) /\ input # <<>>
          /\ input' = Tail(input)
      BY <1>5, <1>9, <2>3, <3>1 DEF Quits
    <3>3. OnlyOne(c) /\ Settled(c)
      BY <1>6, <2>1, <2>3, <3>1
    <3>4. OnlyOne(c)' /\ Settled(c)'
      BY <2>1, <3>3, ShrinkFacts DEF Settled
    <3>5. \A m \in (outbox \cup Queued)' : m.cid = c => ~Awaited(m)
      BY <2>1, <3>2, <3>3, TakeFacts
    <3> QED
      BY <2>1, <3>1, <3>4, <3>5
  <2> QED
    BY <2>1, <2>2, <2>3 DEF LiveInv
<1>10. CASE Goes(x)
  <2>1. ~closing /\ UNCHANGED <<channelID, outbox, limbo>> /\ Shrinks /\ pc[x] \in Inside
    BY <1>10 DEF Goes, Shrinks
  <2>2. Queued' \subseteq Queued /\ \A c : OnlyOne(c) => OnlyOne(c)'
    BY <2>1, ShrinkFacts
  <2>3. ASSUME NEW y \in Exchanges, pc'[y] = "pingRead" PROVE OnlyOne(candidate)' /\ Settled(candidate)'
    <3>1. y = x
      BY <1>3, <2>1, <2>3
    <3>2. UNCHANGED <<pc, candidate>>
      BY <1>1, <1>10, <2>3, <3>1 DEF Goes
    <3>3. OnlyOne(candidate) /\ Settled(candidate)
      BY <2>1, <2>3, <3>2 DEF LiveInv
    <3>4. PICK c : c = candidate
      OBVIOUS
    <3>5. OnlyOne(c)' /\ Settled(c)'
      BY <2>1, <2>2, <3>3, <3>4 DEF Settled
    <3> QED
      BY <3>2, <3>4, <3>5
  <2>4. ASSUME channelID # NoChannel
        PROVE  /\ OnlyOne(channelID)' /\ Settled(channelID)'
               /\ \A m \in (outbox \cup Queued)' : m.cid = channelID /\ Awaited(m) =>
                    \E y \in Exchanges : pc'[y] = "recv" /\ m.tag = Own(y)
    <3>1. PICK c : c = channelID
      OBVIOUS
    <3>2. OnlyOne(c)' /\ Settled(c)'
      BY <1>6, <2>1, <2>2, <2>4, <3>1 DEF Settled
    <3>3. ASSUME NEW m \in (outbox \cup Queued)', m.cid = channelID, Awaited(m)
          PROVE  \E y \in Exchanges : pc'[y] = "recv" /\ m.tag = Own(y)
      <4>1. PICK y \in Exchanges : pc[y] = "recv" /\ m.tag = Own(y)
        BY <1>6, <2>1, <2>2, <2>4, <3>3
      <4>2. y = x
        BY <1>4, <2>1, <4>1
      <4>3. UNCHANGED pc
        BY <1>10, <4>1, <4>2 DEF Goes, Handshake
      <4> QED
        BY <4>1, <4>3
    <3> QED
      BY <2>1, <3>1, <3>2, <3>3
  <2> QED
    BY <2>1, <2>3, <2>4 DEF LiveInv, Own
<1>11. CASE Writes(x)
  <2>1. /\ ~closing /\ UNCHANGED <<closing, channelID, candidate, input, limbo>>
        /\ pc[x] \in {"initWrite", "pingWrite", "send"} /\ pc[x] \in Inside
        /\ pc[x] # "pingWrite" => pc'[x] # "pingRead"
    BY <1>1, <1>11 DEF Writes, Inside, Handshake
  <2>2. PICK r : Writing(x, r) /\ Answered(r)
    BY <1>11 DEF Writes
  <2>3. r \in Reports /\ Queued' = Queued
    BY <2>1, <2>2, WritingFacts, SMT DEF Queued
  <2>4. ASSUME NEW c, c = r.cid, Silent(c)
        PROVE  OnlyOne(c)' /\ \A m \in (outbox \cup Queued)' : m.cid = c /\ Awaited(m) =>
                                  m \in Replies(r)
    <3>1. OnlyOne(c)
      BY <2>4 DEF Silent, OnlyOne, Queued
    <3>2. CASE UNCHANGED outbox
      BY <2>1, <2>3, <2>4, <3>1, <3>2 DEF Silent, OnlyOne
    <3>3. ASSUME NEW m \in Replies(r), outbox' = outbox \cup {m} PROVE OnlyOne(c)'
      BY <2>1, <2>3, <2>4, <3>3, ReplyFacts, AddFacts
    <3> QED
      BY <2>2, <2>3, <2>4, <3>2, <3>3 DEF Answered, Silent
  <2>5. CASE pc[x] = "initWrite"
    BY <1>3, <1>5, <2>1, <2>5 DEF LiveInv, Handshake
  <2>6. CASE pc[x] = "pingWrite"
    <3>1. PICK c : c = candidate
      OBVIOUS
    <3>2. c = r.cid /\ c = Nonce(x) /\ channelID = NoChannel
      BY <1>5, <2>2, <2>6, <3>1, WritingFacts DEF Handshake
    <3>3. ~Pinged(c)
      BY <1>1, <2>6, <3>2, SMT DEF Pinged, Nonce
    <3>4. Silent(c) /\ Settled(c)
      BY <3>3 DEF FreshInv, Silent, Settled
    <3>5. OnlyOne(c)' /\ Settled(c)'
      BY <2>1, <2>4, <3>2, <3>4 DEF Settled
    <3> QED
      BY <2>1, <3>1, <3>2, <3>5 DEF LiveInv
  <2>7. CASE pc[x] = "send"
    <3>1. PICK c : c = channelID
      OBVIOUS
    <3>2. /\ c = r.cid /\ channelID # NoChannel /\ r.kind = "app" /\ r.of = x
          /\ r.seq = sent[x] + 1
      BY <1>5, <2>2, <2>7, <3>1, WritingFacts
    <3>3. Silent(c) /\ Settled(c)
      BY <1>4, <1>6, <2>1, <2>7, <3>1, <3>2 DEF Silent
    <3>4. OnlyOne(c)' /\ Settled(c)'
      BY <2>1, <2>4, <3>2, <3>3 DEF Settled
    <3>5. ASSUME NEW m \in (outbox \cup Queued)', m.cid = c, Awaited(m)
          PROVE  pc'[x] = "recv" /\ m.tag = Own(x)
      <4>1. m \in Replies(r)
        BY <2>4, <3>2, <3>3, <3>5
      <4>2. sent[x] + 1 = Packets /\ m.tag = Own(x)
        BY <2>3, <3>2, <4>1, ReplyFacts
      <4> QED
        BY <1>1, <1>11, <2>7, <4>2 DEF Writes
    <3>6. \A y \in Exchanges : pc'[y] # "pingRead"
      BY <1>3, <2>1, <2>7
    <3> QED
      BY <2>1, <3>1, <3>4, <3>5, <3>6 DEF LiveInv, Own
  <2> QED
    BY <2>1, <2>5, <2>6, <2>7
<1>12. CASE Chooses(x)
  <2>1. /\ ~closing /\ UNCHANGED <<outbox, limbo>> /\ Shrinks /\ pc[x] \in Inside
        /\ pc[x] = "pingRead" /\ pc'[x] = "send" /\ channelID' = candidate
    BY <1>1, <1>12 DEF Chooses, Shrinks, Inside, Handshake
  <2>2. \A y \in Exchanges : pc'[y] # "pingRead"
    BY <1>3, <2>1
  <2>3. PICK c : c = candidate
    OBVIOUS
  <2>4. OnlyOne(c) /\ Settled(c)
    BY <2>1, <2>3 DEF LiveInv
  <2>5. OnlyOne(c)' /\ Settled(c)'
    BY <2>1, <2>4, ShrinkFacts DEF Settled
  <2>6. \A m \in (outbox \cup Queued)' : m.cid = c => ~Awaited(m)
    BY <1>12, <2>1, <2>3, <2>4, TakeFacts DEF Chooses
  <2> QED
    BY <2>1, <2>2, <2>3, <2>5, <2>6 DEF LiveInv
<1> QED
  BY <1>7, <1>8, <1>9, <1>10, <1>11, <1>12 DEF StepOf

LEMMA EchoNext ==
    ASSUME GateInv, WorldOK, ChannelInv, LiveInv, EchoInv, [Next]_vars
    PROVE  EchoInv'
<1> SUFFICES ASSUME channelID' # NoChannel
             PROVE  /\ \A m \in (outbox \cup Queued)' : m.cid = channelID' => m.kind # "ping"
                    /\ \A r \in limbo' : r.cid = channelID' => r.kind # "ping"
  BY DEF EchoInv
<1>1. ASSUME UNCHANGED channelID
      PROVE  /\ \A m \in outbox \cup Queued : m.cid = channelID' => m.kind # "ping"
             /\ \A r \in limbo : r.cid = channelID' => r.kind # "ping"
  BY <1>1 DEF EchoInv
<1>2. CASE WorldStep
  <2>1. UNCHANGED channelID
    BY <1>2 DEF WorldStep
  <2>2. limbo' \subseteq limbo
    BY <1>2 DEF WorldStep
  <2>3. ASSUME NEW m \in (outbox \cup Queued)', m.cid = channelID', m.kind = "ping" PROVE FALSE
    <3>1. m \notin outbox \cup Queued
      BY <1>1, <2>1, <2>3
    <3>2. CASE input' \in {input, <<>>} /\ UNCHANGED outbox
      BY <2>3, <3>1, <3>2, SMT DEF Queued
    <3>3. ASSUME NEW n \in outbox, outbox' = outbox \ {n}, input' = Append(input, n) \/ input' = input
          PROVE  FALSE
      BY <2>3, <3>1, <3>3, SendFacts
    <3>4. ASSUME NEW r \in limbo, UNCHANGED input, Answered(r) PROVE FALSE
      <4>1. r \in Reports /\ m \in Replies(r)
        BY <2>3, <3>1, <3>4 DEF WorldOK, Answered, Queued
      <4>2. r.kind = "ping" /\ r.cid = channelID'
        BY <2>3, <4>1, ReplyFacts
      <4> QED
        BY <1>1, <2>1, <4>2
    <3>5. ASSUME NEW n \in Messages, ~Awaited(n) \/ n.cid \in {Foreign, Broadcast}, n.kind # "ping",
                 input' = Append(input, n), UNCHANGED outbox
          PROVE  FALSE
      BY <2>3, <3>1, <3>5, NoiseFacts
    <3> QED
      BY <1>2, <3>2, <3>3, <3>4, <3>5 DEF WorldStep
  <2> QED
    BY <1>1, <2>1, <2>2, <2>3
<1>3. ASSUME NEW x \in Exchanges, StepOf(x), UNCHANGED channelID
      PROVE  /\ \A m \in (outbox \cup Queued)' : m.cid = channelID' => m.kind # "ping"
             /\ \A r \in limbo' : r.cid = channelID' => r.kind # "ping"
  <2>1. Shrinks
    BY <1>3 DEF StepOf, Outside, Retires, Quits, Goes, Writes, Chooses, Shrinks
  <2>2. Queued' \subseteq Queued
    <3>1. CASE UNCHANGED outbox
      BY <2>1, <3>1, ShrinkFacts
    <3>2. CASE input' \in {input, <<>>}
      BY <3>2, SMT DEF Queued
    <3> QED
      BY <1>3, <3>1, <3>2 DEF StepOf, Outside, Retires, Quits, Goes, Writes, Chooses
  <2>3. ASSUME NEW r, Writing(x, r) PROVE r \in Reports /\ r.kind # "ping"
    BY <1>3, <2>3, WritingFacts DEF ChannelInv, Handshake
  <2>4. \A m \in outbox' : m \in outbox \/ m.kind # "ping"
    <3>1. UNCHANGED outbox \/ \E r : Writing(x, r) /\ Answered(r)
      BY <1>3 DEF StepOf, Outside, Retires, Quits, Goes, Writes, Chooses
    <3> QED
      BY <2>3, <3>1, ReplyFacts, SMT DEF Answered
  <2>5. \A r \in limbo' : r \in limbo \/ r.kind # "ping"
    <3>1. UNCHANGED limbo \/ \E r : Writing(x, r) /\ limbo' = limbo \cup {r}
      BY <1>3 DEF StepOf, Outside, Retires, Quits, Goes, Writes, Chooses
    <3> QED
      BY <2>3, <3>1
  <2> QED
    BY <1>1, <1>3, <2>2, <2>4, <2>5
<1>4. ASSUME NEW x \in Exchanges, Chooses(x)
      PROVE  /\ \A m \in (outbox \cup Queued)' : m.cid = channelID' => m.kind # "ping"
             /\ \A r \in limbo' : r.cid = channelID' => r.kind # "ping"
  <2>1. OnlyOne(candidate) /\ Settled(candidate)
    BY <1>4 DEF Chooses, LiveInv
  <2>2. \A m \in (outbox \cup Queued)' : m.cid = candidate => ~Awaited(m)
    BY <1>4, <2>1, TakeFacts DEF Chooses
  <2> QED
    BY <1>4, <2>1, <2>2 DEF Chooses, Settled, Awaited
<1> QED
  BY <1>2, <1>3, <1>4, NextSummary DEF StepOf, Outside, Retires, Quits, Goes, Writes

LEMMA MessageInit == Init => MessageInv
<1> SUFFICES ASSUME Init PROVE MessageInv
  OBVIOUS
<1>1. /\ input = <<>> /\ outbox = {} /\ limbo = {} /\ channelID = NoChannel
      /\ \A x \in Exchanges : pc[x] = "start"
      /\ Queued = {}
  BY SMT DEF Init, Queued, Calls
<1>2. WorldOK
  BY CidFacts, SMT DEF Init, WorldOK, Cids
<1>3. FreshInv
  BY <1>1, PingedNames DEF FreshInv
<1>4. ChannelInv /\ LiveInv /\ EchoInv
  BY <1>1 DEF ChannelInv, LiveInv, EchoInv, Handshake
<1> QED
  BY <1>2, <1>3, <1>4, GateInit DEF MessageInv

LEMMA MessageNext == MessageInv /\ [Next]_vars => MessageInv'
<1> SUFFICES ASSUME MessageInv, [Next]_vars PROVE MessageInv'
  OBVIOUS
<1>1. GateInv /\ WorldOK /\ FreshInv /\ ChannelInv /\ LiveInv /\ EchoInv
  BY DEF MessageInv
<1>2. LiveInv'
  BY <1>1, NextSummary, LiveWorld, LiveStep
<1> QED
  BY <1>1, <1>2, GateNext, WorldNext, FreshNext, ChannelNext, EchoNext DEF MessageInv

\* For any number of calls, retries, sessions and messages: an echo that comes late
\* is on a channel that was given up, because every attempt of the handshake asks
\* for a channel of its own and sends one PING on it.
THEOREM NoStaleEchoHolds == Spec => []NoStaleEcho
<1>1. MessageInv => NoStaleEcho
  BY DEF MessageInv, EchoInv, NoStaleEcho, Queued
<1> QED
  BY <1>1, MessageInit, MessageNext, PTL DEF Spec

\* The step in which an exchange takes the message that it returns.
Receives(x) ==
    /\ pc[x] = "recv"
    /\ ~closing
    /\ input # <<>> /\ Head(input).cid = channelID /\ Head(input).kind = "app"
    /\ got' = [got EXCEPT ![x] = Head(input).tag]

LEMMA GotSummary ==
    ASSUME [Next]_vars
    PROVE  UNCHANGED got \/ \E x \in Exchanges : Receives(x)
<1>1. ASSUME NEW x, NEW e, NEW p, NEW rest, Fail(x, e, p, rest) PROVE UNCHANGED got
  BY <1>1 DEF Fail
<1>2. ASSUME NEW x, NEW l, Goto(x, l) PROVE UNCHANGED got
  BY <1>2 DEF Goto
<1>3. ASSUME NEW x, Skip(x) PROVE UNCHANGED got
  BY <1>3 DEF Skip, callVars
<1>4. ASSUME NEW x, NEW r, WriteFails(x, r) PROVE UNCHANGED got
  BY <1>1, <1>4 DEF WriteFails
<1>5. ASSUME NEW x, NEW r, NEW l, Written(x, r, l) PROVE UNCHANGED got
  BY <1>2, <1>5 DEF Written
<1>6. ASSUME NEW x, ReadFails(x) \/ LocalWait(x) \/ Rejected(x) PROVE UNCHANGED got
  BY <1>1, <1>2, <1>6 DEF ReadFails, LocalWait, Rejected, RetryOrFail
<1>7. ASSUME NEW x \in Exchanges, ExchangeCall(x) \/ ExchangeLock(x) \/ ExchangeAdmit(x)
      PROVE  UNCHANGED got
  BY <1>2, <1>7 DEF ExchangeCall, ExchangeLock, ExchangeAdmit
<1>8. ASSUME NEW x \in Exchanges, HandshakeAttempt(x) \/ HandshakeRetry(x) PROVE UNCHANGED got
  BY <1>1, <1>2, <1>8 DEF HandshakeAttempt, HandshakeRetry
<1>9. ASSUME NEW x \in Exchanges, InitWrite(x) \/ PingWrite(x) \/ SendPacket(x)
      PROVE  UNCHANGED got
  BY <1>4, <1>5, <1>9 DEF InitWrite, PingWrite, SendPacket
<1>10. ASSUME NEW x \in Exchanges, InitRead(x) \/ PingRead(x) PROVE UNCHANGED got
  BY <1>2, <1>3, <1>6, <1>10 DEF InitRead, PingRead
<1>11. ASSUME NEW x \in Exchanges, ReceiveResponse(x) PROVE UNCHANGED got \/ Receives(x)
  BY <1>1, <1>11 DEF ReceiveResponse, ResponseError, Receives, Readable, Skippable, callVars
<1>12. ASSUME NEW x \in Exchanges, Expire(x) PROVE UNCHANGED got
  BY <1>12 DEF Expire, callVars
<1>13. ASSUME NEW c \in Closers, CloseMark(c) \/ CloseConn(c) PROVE UNCHANGED got
  BY <1>2, <1>13 DEF CloseMark, CloseConn
<1>14. ConnFail \/ DeviceSend \/ LateDelivery \/ OtherTraffic \/ Reopen => UNCHANGED got
  BY SMT DEF ConnFail, DeviceSend, LateDelivery, OtherTraffic, Reopen, callVars
<1>15. UNCHANGED vars => UNCHANGED got
  BY DEF vars, callVars
<1> QED
  BY <1>7, <1>8, <1>9, <1>10, <1>11, <1>12, <1>13, <1>14, <1>15 DEF Next, ExchangeStep, Finished

GotInv == got \in [Exchanges -> Cids] /\ ResponseIsOwn

LEMMA GotNext == MessageInv /\ GotInv /\ [Next]_vars => GotInv'
<1> SUFFICES ASSUME MessageInv, GotInv, [Next]_vars PROVE GotInv'
  OBVIOUS
<1>1. GateInv /\ WorldOK /\ ChannelInv /\ LiveInv
  BY DEF MessageInv
<1>2. ASSUME NEW x \in Exchanges, Receives(x) PROVE GotInv'
  <2>1. Head(input) \in Queued /\ Head(input) \in Messages
    <3>1. input \in Seq(Messages) /\ input # <<>>
      BY <1>1, <1>2 DEF WorldOK, Receives
    <3>2. 1 \in 1 .. Len(input) /\ Head(input) = input[1]
      BY <3>1, SMT
    <3> QED
      BY <3>1, <3>2, SMT DEF Queued
  <2>2. channelID # NoChannel /\ ~closing /\ Awaited(Head(input))
    BY <1>1, <1>2 DEF Receives, ChannelInv, Awaited
  <2>3. PICK y \in Exchanges : pc[y] = "recv" /\ Head(input).tag = Own(y)
    BY <1>1, <1>2, <2>1, <2>2 DEF LiveInv, Receives
  <2>4. y = x
    BY <1>1, <1>2, <2>3, Alone DEF Receives, Inside
  <2>5. got' = [got EXCEPT ![x] = Own(x)] /\ Own(x) \in Cids
    BY <1>2, <2>1, <2>3, <2>4 DEF Receives, Own, Cids
  <2> QED
    BY <2>5 DEF GotInv, ResponseIsOwn, Own
<1> QED
  BY <1>2, GotSummary DEF GotInv, ResponseIsOwn, Own

\* For any number of calls, retries, sessions and messages: the response that an
\* exchange returns is the one to its own request.  On the channel of an open
\* session at most one answer is under way, and it is for the holder of the gate.
THEOREM ResponseIsOwnHolds == Spec => []ResponseIsOwn
<1>1. Init => GotInv
  BY DEF Init, GotInv, ResponseIsOwn, Cids
<1>2. GotInv => ResponseIsOwn
  BY DEF GotInv
<1> QED
  BY <1>1, <1>2, MessageInit, MessageNext, GotNext, PTL DEF Spec

==============================================================================
