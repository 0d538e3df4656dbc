---------------------------- MODULE ClientProofs ----------------------------
(***************************************************************************)
(* Proofs about the client facade for every set of callers, of requests,   *)
(* of credentials and of device profiles: one probe serves all calls, a    *)
(* call costs at most one PIN attempt, its outcome is true, and a listing  *)
(* that succeeds is exact unless another listing crosses it. First come    *)
(* lemmas about the steps of one call: what Dispatch makes of a request,   *)
(* what the authenticator answers to an exchange, and what a call does     *)
(* with the answer.                                                        *)
(***************************************************************************)
EXTENDS Client, Integers, FiniteSetTheorems, TLAPS

\* Zenon proves the leaves, except for those that cite SMT.
USE Zenon

-----------------------------------------------------------------------------
(* The inductive invariant.                                                *)

Early == {"idle", "caps", "probe2", "probe1"}

Enumerating == {"metadata", "rpBegin", "rpNext", "credBegin", "credNext"}

Pcs == Early \cup Enumerating \cup
       {"key", "token", "set", "change", "delete", "make", "assert", "reset", "u2f",
        "retries", "done"}

Pins == {NoPin} \cup {op.pin : op \in Requests} \cup {op.newPin : op \in Requests}

Items == Credentials \cup Rps(Credentials)

Auth == [pin : Pins, retries : 0 .. maxRetries,
         token : [by : Callers \cup {Nobody}, perm : {"any", "cm", "mc", "ga"}],
         creds : SUBSET Credentials,
         cursor : [kind : {"none", "rp", "cred"}, left : SUBSET Items]]

InfoRecords == [clientPin : {"absent", "off", "on"}, uv : {p.uv : p \in Profiles},
                token : {p.token : p \in Profiles}, credMgmt : {p.credMgmt : p \in Profiles},
                preview : {p.preview : p \in Profiles},
                protocols : {p.protocols : p \in Profiles}]

ProbedRecords == [ctap2 : Seq(InfoRecords), ctap1 : BOOLEAN]

Calls == [op : Requests \cup {<<>>}, pc : Pcs, info : Seq(InfoRecords) \cup Seq(ProbedRecords),
          code : {"none", "std", "preview"}, tries : Nat, auth : {"none", "uv", "token"},
          rps : Seq(Rps(Credentials)), left : Int,
          out : Seq([rp : Rps(Credentials), cred : Credentials]),
          ok : BOOLEAN, verified : BOOLEAN, spent : Nat, applied : Nat, lost : BOOLEAN,
          held : SUBSET Credentials, seen : SUBSET Credentials, crossed : BOOLEAN]

Typed ==
  /\ profile \in Profiles
  /\ auth \in Auth
  /\ call \in [Callers -> Calls]
  /\ faults \in Nat
  /\ caps \in Seq(ProbedRecords)

UnderWay(k) == k.pc \notin {"idle", "done"}

\* The operations whose outcome is a change of the device.
Changing == {"SetPIN", "ChangePIN", "Delete"}

\* Which operations make which exchange.
Fits(k) ==
  /\ k.pc = "key" => k.op.kind \in Changing \cup {"List", "Register", "Authenticate"}
  /\ k.pc = "set" => k.op.kind = "SetPIN"
  /\ k.pc = "change" => k.op.kind = "ChangePIN"
  /\ k.pc = "delete" => k.op.kind = "Delete"
  /\ k.pc = "token" => k.op.kind \in {"List", "Delete", "Register", "Authenticate"}
  /\ k.pc \in Enumerating => k.op.kind = "List"
  /\ k.pc = "make" => k.op.kind = "Register"
  /\ k.pc \in {"assert", "reset", "u2f", "retries"} =>
       k.op.kind \notin {"SetPIN", "ChangePIN", "Delete", "List"}

Asked(k) ==
  /\ k.pc # "idle" => k.op \in Requests
  /\ UnderWay(k) => ~RefusedAtOnce(k.op) /\ Fits(k)

\* The probing call holds the lock, and nothing has been probed before.
Probes(c) ==
  /\ call[c].pc \in {"probe2", "probe1"} => capsMu = c /\ caps = <<>>
  /\ call[c].pc = "probe1" => call[c].info \in Seq(InfoRecords)
  /\ call[c].pc \notin Early /\ call[c].info # <<>> => call[c].info = caps

Attempts(k) == k.spent <= 1 /\ (k.pc # "done" => k.spent = 0)

Reports(k) ==
  k.pc # "idle" /\ k.op.kind \in Changing =>
    /\ k.pc # "done" => k.applied = 0
    /\ k.pc = "done" /\ k.ok => k.applied = 1
    /\ k.pc = "done" /\ ~k.ok => k.applied = 0 \/ (k.lost /\ k.applied = 1)

\* In the following, a is the authenticator's state.
Watched(k, a) == UnderWay(k) => k.held \subseteq a.creds /\ a.creds \subseteq k.seen

Lists(k) == k.pc # "idle" /\ k.op.kind = "List"

Elements(s) == {s[n] : n \in DOMAIN s}

Distinct(s) == \A m, n \in DOMAIN s : s[m] = s[n] => m = n

Listed(k) == {k.out[n].cred : n \in DOMAIN k.out}

\* What has been listed so far is right, and listed once.
Sound(k) ==
  /\ \A n \in DOMAIN k.out : k.out[n].rp = RpOf[k.out[n].cred]
  /\ IsFiniteSet(Listed(k)) /\ Cardinality(Listed(k)) = Len(k.out)

\* The device's cursor, while it is still this listing's, is where the client
\* thinks it is.
RpsOpen(k, a) ==
  a.cursor.kind = "rp" =>
    /\ k.left = Cardinality(a.cursor.left)
    /\ Elements(k.rps) \cap a.cursor.left = {}
    /\ Elements(k.rps) \cup a.cursor.left = Rps(a.creds)

CredsOpen(k, a) ==
  a.cursor.kind = "cred" =>
    /\ k.left = Cardinality(a.cursor.left)
    /\ Listed(k) \cap a.cursor.left = {}
    /\ a.cursor.left \subseteq a.creds
    /\ \A x \in a.cursor.left : RpOf[x] = Head(k.rps)
    /\ \A x \in a.creds : RpOf[x] = Head(k.rps) => x \in Listed(k) \cup a.cursor.left

\* Every credential stored throughout is listed or its relying party waits.
Covered(k) == \A x \in k.held : x \in Listed(k) \/ RpOf[x] \in Elements(k.rps)

\* What no other listing has moved the cursor of.
Exact(k, a) ==
  /\ k.pc \in {"rpNext", "credBegin", "credNext"} => Distinct(k.rps)
  /\ k.pc = "rpNext" => RpsOpen(k, a)
  /\ k.pc \in {"credBegin", "credNext"} => Sound(k) /\ Covered(k)
  /\ k.pc = "credBegin" => \A n \in DOMAIN k.out : k.out[n].rp \notin Elements(k.rps)
  /\ k.pc = "credNext" => /\ \A n \in DOMAIN k.out : k.out[n].rp \notin Elements(Tail(k.rps))
                          /\ CredsOpen(k, a)
  /\ k.pc = "done" /\ k.ok => Sound(k) /\ k.held \subseteq Listed(k)

Listing(k, a) ==
  Lists(k) =>
    /\ k.pc \in Early \cup {"key", "token", "metadata", "rpBegin"} => k.rps = <<>> /\ k.out = <<>>
    /\ k.pc \in {"rpNext", "credBegin", "credNext"} => k.rps # <<>>
    /\ k.pc = "rpNext" => k.out = <<>>
    /\ k.pc \in {"credBegin", "credNext"} \/ (k.pc = "done" /\ k.ok) => Listed(k) \subseteq k.seen
    /\ ~k.crossed => Exact(k, a)

\* Whoever opened the enumeration, what it has left is stored on the device.
CursorInv(a) ==
  /\ a.cursor.kind = "rp" => a.cursor.left \subseteq Rps(a.creds)
  /\ a.cursor.kind = "cred" => a.cursor.left \subseteq a.creds

\* What concerns a call alone, and the device.
Own(k, a) == Asked(k) /\ Attempts(k) /\ Reports(k) /\ Watched(k, a) /\ Listing(k, a)

CallInv(c) == Own(call[c], auth) /\ Probes(c)

ClientInv == Typed /\ CursorInv(auth) /\ \A c \in Callers : CallInv(c)

-----------------------------------------------------------------------------
(* What the code between two exchanges leaves alone.                       *)

\* The history of a call, and what it was asked for.
Same(k, n) ==
  /\ n \in Calls
  /\ n.op = k.op /\ n.info = k.info /\ n.spent = k.spent /\ n.applied = k.applied
  /\ n.lost = k.lost /\ n.held = k.held /\ n.seen = k.seen

SameLists(k, n) == n.rps = k.rps /\ n.out = k.out /\ n.crossed = k.crossed

\* The code goes on to another exchange, and nothing else of the call changes.
LEMMA GotoFacts ==
  ASSUME NEW k \in Calls, NEW pc \in Pcs
  PROVE  Same(k, Goto(k, pc)) /\ SameLists(k, Goto(k, pc)) /\ Goto(k, pc).pc = pc
         /\ Goto(k, pc).left = k.left
BY DEF Same, SameLists, Goto, Calls

\* A call that returns keeps its history and what it has listed.
LEMMA ReturnFacts ==
  ASSUME NEW k \in Calls, NEW ok \in BOOLEAN
  PROVE  Same(k, Return(k, ok)) /\ SameLists(k, Return(k, ok))
         /\ Return(k, ok).pc = "done" /\ Return(k, ok).ok = ok
BY ZenonT(30) DEF Same, SameLists, Return, Calls, Pcs

\* So does one that returns an error.
LEMMA FailFacts ==
  ASSUME NEW k \in Calls
  PROVE  Same(k, Fail(k)) /\ SameLists(k, Fail(k)) /\ Fail(k).pc = "done" /\ Fail(k).ok = FALSE
BY ReturnFacts DEF Fail

\* Onwards to pc, or the call fails.
Onwards(k, n, pc) ==
  Same(k, n) /\ SameLists(k, n) /\ (n.pc = pc \/ (n.pc = "done" /\ n.ok = FALSE))

\* A check of the code goes on to its exchange or returns an error.
LEMMA IfFacts ==
  ASSUME NEW k \in Calls, NEW pc \in Pcs, NEW cond
  PROVE  Onwards(k, If(cond, k, pc), pc)
<1>1. If(cond, k, pc) = Goto(k, pc) \/ If(cond, k, pc) = Fail(k)
  BY DEF If
<1>2. Onwards(k, Goto(k, pc), pc)
  <2>1. Same(k, Goto(k, pc)) /\ SameLists(k, Goto(k, pc)) /\ Goto(k, pc).pc = pc
    BY GotoFacts
  <2> QED
    BY <2>1 DEF Onwards
<1>3. Onwards(k, Fail(k), pc)
  BY FailFacts DEF Onwards
<1> QED
  BY <1>1, <1>2, <1>3

\* A retry starts again with a new key agreement and an empty listing.
LEMMA RestartFacts ==
  ASSUME NEW k \in Calls, NEW code \in {"none", "std", "preview"}
  PROVE  /\ Same(k, Restart(k, code)) /\ Restart(k, code).pc = "key"
         /\ Restart(k, code).rps = <<>> /\ Restart(k, code).out = <<>>
<1>1. <<>> \in Seq(Rps(Credentials)) /\ <<>> \in Seq([rp : Rps(Credentials), cred : Credentials])
  BY SMT
<1>2. k.tries + 1 \in Nat /\ "key" \in Pcs /\ 0 \in Int
  BY SMT DEF Calls, Pcs
<1>3. Restart(k, code) \in Calls
  BY <1>1, <1>2 DEF Restart, Calls
<1> QED
  BY <1>3 DEF Same, Restart, Calls

\* A local change of a call that no history field shows.
LEMMA CodeFacts ==
  ASSUME NEW k \in Calls, NEW code \in {"none", "std", "preview"},
         NEW method \in {"none", "uv", "token"}
  PROVE  /\ Same(k, [k EXCEPT !.code = code]) /\ SameLists(k, [k EXCEPT !.code = code])
         /\ Same(k, [k EXCEPT !.auth = method]) /\ SameLists(k, [k EXCEPT !.auth = method])
BY ZenonT(30) DEF Same, SameLists, Calls

\* Two pieces of code in a row leave alone what each leaves alone.
LEMMA SameTransitive ==
  ASSUME NEW k, NEW m, NEW n, Same(k, m), SameLists(k, m), Same(m, n), SameLists(m, n)
  PROVE  Same(k, n) /\ SameLists(k, n)
BY DEF Same, SameLists

\* What holds of the second piece of code holds of both.
LEMMA OnwardsAfter ==
  ASSUME NEW k, NEW m, NEW n, NEW pc, Same(k, m), SameLists(k, m), Onwards(m, n, pc)
  PROVE  Onwards(k, n, pc)
BY SameTransitive DEF Onwards

\* Where the capabilities lead an operation.
Dispatched(k, n) ==
  /\ Same(k, n) /\ SameLists(k, n)
  /\ \/ k.op.kind \in Changing \cup {"List", "Register", "Authenticate"} /\ n.pc = "key"
     \/ n.pc = "done" /\ n.ok = FALSE
     \/ k.op.kind \notin Changing \cup {"List"} /\ n.pc \in {"done", "retries", "reset", "assert", "u2f"}
     \/ k.op.kind = "Register" /\ n.pc = "make"

\* manageCredentials goes on to the key agreement or returns an error.
LEMMA ManageFacts ==
  ASSUME NEW k \in Calls, NEW i
  PROVE  Onwards(k, manageCredentials(k, i), "key")
<1> DEFINE code == credentialManagementCommandCode(i)
           m == [k EXCEPT !.code = code]
<1>1. code \in {"none", "std", "preview"}
  BY DEF credentialManagementCommandCode
<1>2. Same(k, m) /\ SameLists(k, m)
  BY <1>1, CodeFacts
<1>3. m \in Calls /\ "key" \in Pcs
  BY <1>2 DEF Same, Pcs
<1> HIDE DEF code
<1>4. \A cond : Onwards(m, If(cond, m, "key"), "key")
  BY <1>3, IfFacts
<1>5. manageCredentials(k, i) =
        If(code # "none" /\ HasProtocol(i) /\ resolveCredentialAuthorization(k, i), m, "key")
  BY DEF manageCredentials, code
<1> QED
  BY <1>2, <1>4, <1>5, OnwardsAfter

\* resolveCTAP2UserVerification goes on to the operation or to the key agreement, or
\* returns an error.
LEMMA VerificationFacts ==
  ASSUME NEW k \in Calls, NEW i, NEW pc \in {"make", "assert"}
  PROVE  LET n == resolveCTAP2UserVerification(k, i, pc)
         IN  Onwards(k, n, pc) \/ Onwards(k, n, "key")
<1> DEFINE with(method) == [k EXCEPT !.auth = method]
           n == resolveCTAP2UserVerification(k, i, pc)
<1>1. \A method \in {"none", "uv", "token"} :
         /\ Same(k, with(method)) /\ SameLists(k, with(method)) /\ with(method) \in Calls
  BY CodeFacts DEF Same
<1>2. pc \in Pcs /\ "key" \in Pcs
  BY DEF Pcs
<1>3. \/ n = Goto(with("none"), pc) \/ n = Goto(with("uv"), pc)
      \/ n = If(k.op.uv # "required", with("none"), pc)
      \/ n = If(k.op.uv = "preferred", with("none"), pc)
      \/ n = If(HasProtocol(i), with("token"), "key")
  BY DEF resolveCTAP2UserVerification
<1> HIDE DEF with, n
<1>4. \A method \in {"none", "uv", "token"}, q \in {pc, "key"} :
         \A cond : Onwards(k, If(cond, with(method), q), q)
  BY <1>1, <1>2, IfFacts, OnwardsAfter
<1>5. \A method \in {"none", "uv", "token"} : Onwards(k, Goto(with(method), pc), pc)
  <2> TAKE method \in {"none", "uv", "token"}
  <2>1. Onwards(with(method), Goto(with(method), pc), pc)
    BY <1>1, <1>2, GotoFacts DEF Onwards
  <2> QED
    BY <1>1, <2>1, OnwardsAfter
<1> QED
  BY <1>3, <1>4, <1>5 DEF n

\* Dispatch sends a request to an exchange that fits its kind, and changes nothing else.
LEMMA DispatchFacts ==
  ASSUME NEW k \in Calls, NEW i, k.op \in Requests
  PROVE  Dispatched(k, Dispatch(k, i))
<1> DEFINE n == Dispatch(k, i)
           kind == k.op.kind
<1>1. kind \in OperationKinds
  BY ClientAssumption
<1>2. "key" \in Pcs /\ "retries" \in Pcs /\ "u2f" \in Pcs /\ "reset" \in Pcs /\ TRUE \in BOOLEAN
  BY DEF Pcs
<1>3. CASE kind = "Capabilities"
  BY <1>2, <1>3, ReturnFacts DEF Dispatch, Dispatched, Changing
<1>4. CASE kind \in {"Register", "Authenticate"}
  <2> DEFINE pc == IF kind = "Register" THEN "make" ELSE "assert"
  <2>1. pc \in {"make", "assert"}
    OBVIOUS
  <2>2. \/ n = resolveCTAP2UserVerification(k, i.ctap2[1], pc)
        \/ n = If(k.op.ctap1, k, "u2f")
    BY <1>4 DEF Dispatch, Register, Authenticate
  <2>3. Onwards(k, n, pc) \/ Onwards(k, n, "key") \/ Onwards(k, n, "u2f")
    <3> HIDE DEF pc, n
    <3> QED
      BY <1>2, <2>1, <2>2, IfFacts, VerificationFacts
  <2> QED
    BY <1>4, <2>3 DEF Onwards, Dispatched, Changing
<1>5. CASE kind = "Status"
  <2>1. \/ n = Fail(k) \/ n = Return(k, TRUE)
        \/ n = If(i.ctap2[1].clientPin = "on" /\ HasProtocol(i.ctap2[1]), k, "retries")
    <3>1. n = requireCTAP2Capabilities(k, i)
      BY <1>5 DEF Dispatch
    <3>2. n = Fail(k) \/ n = Status(k, i.ctap2[1])
      BY <1>5, <3>1 DEF requireCTAP2Capabilities
    <3> QED
      BY <3>2 DEF Status, GetPINRetries
  <2> HIDE DEF n
  <2>2. Onwards(k, n, "retries") \/ n = Return(k, TRUE)
    <3>1. Onwards(k, Fail(k), "retries")
      BY FailFacts DEF Onwards
    <3>2. Onwards(k, If(i.ctap2[1].clientPin = "on" /\ HasProtocol(i.ctap2[1]), k, "retries"), "retries")
      BY <1>2, IfFacts
    <3> QED
      BY <2>1, <3>1, <3>2
  <2> QED
    BY <1>2, <1>5, <2>2, ReturnFacts DEF Onwards, Dispatched, Changing, n
<1>6. CASE kind = "Reset"
  <2>1. n = Fail(k) \/ n = Goto(k, "reset")
    <3>1. n = requireCTAP2Capabilities(k, i)
      BY <1>6 DEF Dispatch
    <3> QED
      BY <1>6, <3>1 DEF requireCTAP2Capabilities, Reset
  <2> QED
    BY <1>2, <1>6, <2>1, FailFacts, GotoFacts, ZenonT(30) DEF Dispatched, Changing
<1>7. CASE kind \in Changing \cup {"List"}
  <2>1. \/ n = Fail(k) \/ n = manageCredentials(k, i.ctap2[1])
        \/ n = If(HasProtocol(i.ctap2[1]), k, "key")
        \/ n = If(i.ctap2[1].clientPin = "on" /\ HasProtocol(i.ctap2[1]), k, "key")
    <3>1. n = requireCTAP2Capabilities(k, i)
      BY <1>7 DEF Dispatch, Changing
    <3>2. \/ n = Fail(k) \/ n = SetPIN(k, i.ctap2[1]) \/ n = changePINOnce(k, i.ctap2[1])
          \/ n = manageCredentials(k, i.ctap2[1])
      BY <1>7, <3>1 DEF requireCTAP2Capabilities, Changing
    <3> QED
      BY <3>2 DEF SetPIN, changePINOnce
  <2> HIDE DEF n
  <2>2. Onwards(k, n, "key")
    <3>1. Onwards(k, Fail(k), "key")
      BY FailFacts DEF Onwards
    <3>2. /\ Onwards(k, If(HasProtocol(i.ctap2[1]), k, "key"), "key")
          /\ Onwards(k, If(i.ctap2[1].clientPin = "on" /\ HasProtocol(i.ctap2[1]), k, "key"), "key")
      BY <1>2, IfFacts
    <3> QED
      BY <2>1, <3>1, <3>2, ManageFacts
  <2> QED
    BY <1>7, <2>2 DEF Onwards, Dispatched, n
<1> QED
  BY <1>1, <1>3, <1>4, <1>5, <1>6, <1>7 DEF OperationKinds, Changing

-----------------------------------------------------------------------------
(* What an exchange does to the authenticator.                             *)

Reply == [st : {"ok", "12", "fallback", "refused", "lost"}, auth : Auth,
          item : Items \cup {NoRp}, total : Nat]

Changes(r) == r.auth.pin # auth.pin \/ r.auth.creds # auth.creds

\* Only a refusal costs a PIN attempt, only what was accepted changes anything.
Effect(r) ==
  /\ r \in Reply
  /\ r.auth.retries < auth.retries => r.st = "refused"
  /\ Changes(r) => r.st = "ok"

Quiet(r) == r.auth.cursor = NoCursor

\* Another command ends an enumeration and changes nothing else.
LEMMA SettledFacts ==
  ASSUME NEW a \in Auth
  PROVE  /\ Settled(a) \in Auth
         /\ Settled(a).pin = a.pin /\ Settled(a).creds = a.creds /\ Settled(a).cursor = NoCursor
         /\ Settled(a).retries = a.retries /\ Settled(a).token = a.token
<1>1. NoCursor \in [kind : {"none", "rp", "cred"}, left : SUBSET Items]
  BY DEF NoCursor
<1> QED
  BY <1>1 DEF Settled, Auth

\* The fields of an answer without data.
LEMMA AnswerFacts ==
  ASSUME NEW a \in Auth, NEW st \in {"ok", "12", "fallback", "refused", "lost"}
  PROVE  /\ Answer(st, a) \in Reply /\ Answer(st, a).st = st /\ Answer(st, a).auth = a
         /\ Answer(st, a).item = NoRp /\ Answer(st, a).total = 0
BY DEF Answer, Reply

\* An answer that settles the cursor and does nothing else.
LEMMA IdleFacts ==
  ASSUME auth \in Auth, NEW st \in {"ok", "12", "fallback", "refused", "lost"}
  PROVE  /\ Effect(Answer(st, Settled(auth))) /\ Quiet(Answer(st, Settled(auth)))
         /\ ~Changes(Answer(st, Settled(auth)))
         /\ Answer(st, Settled(auth)).auth.retries = auth.retries
<1>1. Settled(auth) \in Auth /\ Settled(auth).pin = auth.pin /\ Settled(auth).creds = auth.creds
      /\ Settled(auth).cursor = NoCursor /\ Settled(auth).retries = auth.retries
  BY SettledFacts
<1>2. Answer(st, Settled(auth)) \in Reply /\ Answer(st, Settled(auth)).auth = Settled(auth)
  BY <1>1, AnswerFacts
<1>3. auth.retries \in Nat
  BY AuthenticatorAssumption, SMT DEF Auth
<1> QED
  BY <1>1, <1>2, <1>3, SMT DEF Effect, Quiet, Changes

\* A PIN is refused, at the cost of an attempt or of none, or accepted.
LEMMA CheckedFacts ==
  ASSUME auth \in Auth, NEW pin, NEW accepted \in Auth, NEW r \in Checked(auth, pin, accepted)
  PROVE  /\ r \in Reply
         /\ \/ r.st = "refused" /\ ~Changes(r) /\ Quiet(r)
            \/ /\ r.st = "ok" /\ pin = auth.pin /\ r.auth.retries = maxRetries
               /\ r.auth.pin = accepted.pin /\ r.auth.creds = accepted.creds
               /\ r.auth.cursor = accepted.cursor
<1> DEFINE s == Settled(auth)
           costly == [s EXCEPT !.retries = @ - 1]
           paid == [accepted EXCEPT !.retries = maxRetries]
<1>1. s \in Auth /\ s.pin = auth.pin /\ s.creds = auth.creds /\ s.cursor = NoCursor
      /\ s.retries = auth.retries
  BY SettledFacts
<1>2. r = Answer("refused", s) \/ (auth.retries # 0 /\ r = Answer("refused", costly))
        \/ (pin = auth.pin /\ r = Answer("ok", paid))
  <2>1. CASE auth.pin = NoPin \/ auth.retries = 0
    BY <2>1 DEF Checked
  <2>2. CASE ~(auth.pin = NoPin \/ auth.retries = 0) /\ pin # auth.pin
    BY <2>2 DEF Checked
  <2>3. CASE ~(auth.pin = NoPin \/ auth.retries = 0) /\ pin = auth.pin
    BY <2>3 DEF Checked
  <2> QED
    BY <2>1, <2>2, <2>3
<1> HIDE DEF s
<1>3. /\ auth.retries # 0 => costly \in Auth
      /\ costly.pin = auth.pin /\ costly.creds = auth.creds /\ costly.cursor = NoCursor
  <2>1. auth.retries \in 0 .. maxRetries /\ maxRetries \in Nat
    BY AuthenticatorAssumption DEF Auth
  <2> QED
    BY <1>1, <2>1, SMT DEF Auth
<1>4. /\ paid \in Auth /\ paid.retries = maxRetries
      /\ paid.pin = accepted.pin /\ paid.creds = accepted.creds /\ paid.cursor = accepted.cursor
  BY AuthenticatorAssumption, SMT DEF Auth
<1> HIDE DEF costly, paid
<1>5. CASE r = Answer("refused", s)
  BY <1>1, <1>5, AnswerFacts DEF Changes, Quiet
<1>6. CASE auth.retries # 0 /\ r = Answer("refused", costly)
  BY <1>3, <1>6, AnswerFacts DEF Changes, Quiet
<1>7. CASE pin = auth.pin /\ r = Answer("ok", paid)
  BY <1>4, <1>7, AnswerFacts
<1> QED
  BY <1>2, <1>5, <1>6, <1>7

\* What the device answers to the request for a token.
LEMMA TokenFacts ==
  ASSUME auth \in Auth, NEW k \in Calls, NEW c \in Callers, NEW r \in TokenReplies(k, c)
  PROVE  Effect(r) /\ Quiet(r)
<1> DEFINE want == tokenRequest(k)
           issued == IssueToken(auth, c, want.perm)
<1>1. want.perm \in {"any", "cm", "mc", "ga"}
  BY DEF tokenRequest, PinTokenForPermission, credentialManagementTokenSource, getPINToken,
         getPINTokenWithPermissions, getUVTokenWithPermissions
<1> HIDE DEF want
<1>2. /\ issued \in Auth /\ issued.pin = auth.pin /\ issued.creds = auth.creds
      /\ issued.cursor = NoCursor /\ issued.retries = auth.retries
  <2>1. [by |-> c, perm |-> want.perm] \in
          [by : Callers \cup {Nobody}, perm : {"any", "cm", "mc", "ga"}]
    BY <1>1
  <2>2. issued = [Settled(auth) EXCEPT !.token = [by |-> c, perm |-> want.perm]]
    BY DEF IssueToken
  <2> HIDE DEF issued
  <2>3. /\ Settled(auth) \in Auth
        /\ Settled(auth).pin = auth.pin /\ Settled(auth).creds = auth.creds
        /\ Settled(auth).cursor = NoCursor /\ Settled(auth).retries = auth.retries
    BY SettledFacts
  <2> QED
    BY <2>1, <2>2, <2>3 DEF Auth
<1>3. \/ r = Answer("fallback", Settled(auth)) \/ r = Answer("ok", issued)
      \/ r \in Checked(auth, k.op.pin, issued)
  BY DEF TokenReplies, want
<1> HIDE DEF issued
<1>4. auth.retries \in 0 .. maxRetries /\ maxRetries \in Nat
  BY AuthenticatorAssumption DEF Auth
<1>5. CASE r = Answer("fallback", Settled(auth))
  BY <1>5, IdleFacts
<1>6. CASE r = Answer("ok", issued)
  <2>1. r \in Reply /\ r.auth = issued
    BY <1>2, <1>6, AnswerFacts
  <2> QED
    BY <1>2, <1>4, <2>1, SMT DEF Effect, Quiet, Changes
<1>7. CASE r \in Checked(auth, k.op.pin, issued)
  <2>1. /\ r \in Reply
        /\ \/ r.st = "refused" /\ ~Changes(r) /\ Quiet(r)
           \/ /\ r.st = "ok" /\ r.auth.retries = maxRetries /\ r.auth.pin = auth.pin
              /\ r.auth.creds = auth.creds /\ r.auth.cursor = NoCursor
    BY <1>2, <1>7, CheckedFacts, SMT
  <2> QED
    BY <1>4, <2>1, SMT DEF Effect, Quiet, Changes
<1> QED
  BY <1>3, <1>5, <1>6, <1>7

\* The PIN and the credentials are as before.
Untouched(r) == r \in Reply /\ ~Changes(r) /\ r.auth.retries = auth.retries

\* An answer that changes neither PIN nor credentials nor attempts.
LEMMA UntouchedEffect ==
  ASSUME auth \in Auth, NEW r, Untouched(r)
  PROVE  Effect(r)
<1>1. auth.retries \in 0 .. maxRetries /\ maxRetries \in Nat
  BY AuthenticatorAssumption DEF Auth
<1> QED
  BY <1>1, SMT DEF Untouched, Effect

\* The items an enumeration is over, and what it has left after the first.
Opens(r, kind, items) ==
  /\ r.item \in items
  /\ r.auth.cursor = [kind |-> kind, left |-> items \ {r.item}]
  /\ remaining(r.total) = Cardinality(items \ {r.item})

\* The answer that opens an enumeration names its first item and how many there are, and
\* leaves the others at the cursor.
LEMMA EnumerateBeginFacts ==
  ASSUME auth \in Auth, NEW kind \in {"rp", "cred"}, NEW items \in SUBSET Items,
         IsFiniteSet(items), NEW r \in EnumerateBegin(auth, kind, items)
  PROVE  /\ Untouched(r)
         /\ \/ r.st = "refused" /\ Quiet(r)
            \/ r.st = "ok" /\ r.item = NoRp /\ items = {} /\ Quiet(r)
            \/ r.st = "ok" /\ r.item # NoRp /\ Opens(r, kind, items)
<1>1. CASE items = {}
  <2>1. r = Answer("refused", Settled(auth)) \/ r = Answer("ok", Settled(auth))
    BY <1>1, SMT DEF EnumerateBegin
  <2>2. /\ Settled(auth) \in Auth /\ Settled(auth).pin = auth.pin
        /\ Settled(auth).creds = auth.creds /\ Settled(auth).retries = auth.retries
        /\ Settled(auth).cursor = NoCursor
    BY SettledFacts
  <2> QED
    BY <1>1, <2>1, <2>2, AnswerFacts, SMT DEF Untouched, Changes, Quiet
<1>2. CASE items # {}
  <2>1. PICK x \in items,
             n \in {Cardinality(items)} \cup (IF Cardinality(items) = 1 THEN {0} ELSE {}) :
          r = [st |-> "ok", item |-> x, total |-> n,
               auth |-> [auth EXCEPT !.cursor = [kind |-> kind, left |-> items \ {x}]]]
    BY <1>2, SMT DEF EnumerateBegin
  <2>2. /\ IsFiniteSet(items \ {x}) /\ Cardinality(items \ {x}) = Cardinality(items) - 1
        /\ Cardinality(items) \in Nat
    BY FS_RemoveElement, FS_CardinalityType
  <2>3. n \in Nat /\ remaining(n) = Cardinality(items \ {x})
    <3>1. CASE n = Cardinality(items)
      <4>1. Cardinality(items) # 0
        BY <1>2, FS_EmptySet
      <4> QED
        BY <2>2, <3>1, <4>1 DEF remaining
    <3>2. CASE n = 0 /\ Cardinality(items) = 1
      BY <2>2, <3>2, SMT DEF remaining
    <3> QED
      BY <2>1, <3>1, <3>2
  <2> DEFINE a == [auth EXCEPT !.cursor = [kind |-> kind, left |-> items \ {x}]]
  <2>4. /\ a \in Auth /\ a.pin = auth.pin /\ a.creds = auth.creds /\ a.retries = auth.retries
        /\ a.cursor = [kind |-> kind, left |-> items \ {x}]
    <3>1. [kind |-> kind, left |-> items \ {x}] \in
            [kind : {"none", "rp", "cred"}, left : SUBSET Items]
      OBVIOUS
    <3> QED
      BY <3>1 DEF Auth
  <2>5. r = [st |-> "ok", item |-> x, total |-> n, auth |-> a]
    BY <2>1
  <2>6. x # NoRp /\ x \in Items
    BY AuthenticatorAssumption DEF Items, Rps
  <2> HIDE DEF a
  <2>7. r \in Reply /\ r.st = "ok" /\ r.item = x /\ r.auth = a /\ r.total = n
    BY <2>3, <2>4, <2>5, <2>6 DEF Reply
  <2> QED
    BY <2>3, <2>4, <2>6, <2>7 DEF Untouched, Changes, Opens
<1> QED
  BY <1>1, <1>2

\* GetNext takes one of the items left, if the enumeration is still open.
Goes(r, kind) ==
  /\ auth.cursor.kind = kind /\ r.item \in auth.cursor.left
  /\ r.auth.cursor = [kind |-> kind, left |-> auth.cursor.left \ {r.item}]

\* The next item is one that the cursor had left.
LEMMA EnumerateNextFacts ==
  ASSUME auth \in Auth, NEW kind \in {"rp", "cred"}, NEW r \in EnumerateNext(auth, kind)
  PROVE  /\ Untouched(r)
         /\ (r.st = "refused" /\ Quiet(r)) \/ (r.st = "ok" /\ r.item # NoRp /\ Goes(r, kind))
<1>1. CASE auth.cursor.kind # kind \/ auth.cursor.left = {}
  <2>1. r = Answer("refused", Settled(auth))
    BY <1>1 DEF EnumerateNext
  <2>2. /\ Settled(auth) \in Auth /\ Settled(auth).pin = auth.pin
        /\ Settled(auth).creds = auth.creds /\ Settled(auth).retries = auth.retries
        /\ Settled(auth).cursor = NoCursor
    BY SettledFacts
  <2> QED
    BY <2>1, <2>2, AnswerFacts DEF Untouched, Changes, Quiet
<1>2. CASE ~(auth.cursor.kind # kind \/ auth.cursor.left = {})
  <2>1. PICK x \in auth.cursor.left :
          r = [st |-> "ok", item |-> x, total |-> 0, auth |-> [auth EXCEPT !.cursor.left = @ \ {x}]]
    BY <1>2 DEF EnumerateNext
  <2> DEFINE a == [auth EXCEPT !.cursor.left = @ \ {x}]
  <2>2. auth.cursor \in [kind : {"none", "rp", "cred"}, left : SUBSET Items]
    BY DEF Auth
  <2>3. a.cursor = [kind |-> kind, left |-> auth.cursor.left \ {x}]
    BY <1>2, <2>2 DEF Auth
  <2>4. [kind |-> kind, left |-> auth.cursor.left \ {x}] \in
          [kind : {"none", "rp", "cred"}, left : SUBSET Items]
    BY <2>2
  <2>5. a \in Auth /\ a.pin = auth.pin /\ a.creds = auth.creds /\ a.retries = auth.retries
    BY <2>2, <2>4 DEF Auth
  <2>6. x # NoRp /\ x \in Items
    BY <2>2, AuthenticatorAssumption DEF Items, Rps
  <2>7. r = [st |-> "ok", item |-> x, total |-> 0, auth |-> a]
    BY <2>1
  <2> HIDE DEF a
  <2>8. r \in Reply /\ r.st = "ok" /\ r.item = x /\ r.auth = a
    BY <2>5, <2>6, <2>7 DEF Reply
  <2> QED
    BY <1>2, <2>3, <2>5, <2>6, <2>8 DEF Untouched, Changes, Goes
<1> QED
  BY <1>1, <1>2

\* The credentials of a device and their relying parties are finitely many.
LEMMA FiniteCreds ==
  ASSUME NEW S \in SUBSET Credentials
  PROVE  /\ IsFiniteSet(S) /\ S \subseteq Items
         /\ IsFiniteSet(Rps(S)) /\ Rps(S) \subseteq Rps(Credentials) /\ Rps(S) \subseteq Items
<1>1. IsFiniteSet(S)
  BY AuthenticatorAssumption, FS_Subset
<1>2. IsFiniteSet(Rps(S))
  <2> DEFINE f == [x \in S |-> RpOf[x]]
  <2>1. f \in Surjection(S, Rps(S))
    BY DEF Surjection, Rps
  <2> QED
    BY <1>1, <2>1, FS_Surjection DEF ExistsSurjection
<1> QED
  BY <1>1, <1>2 DEF Items, Rps

\* What the answer to each exchange tells the operation.
Begins(r, kind, items) == (r.item = NoRp /\ items = {}) \/ (r.item # NoRp /\ Opens(r, kind, items))

\* Only the exchanges of a listing leave an enumeration open.
Positions(k, r) ==
  \/ Quiet(r)
  \/ k.pc = "rpBegin" /\ Opens(r, "rp", Rps(auth.creds))
  \/ k.pc = "credBegin" /\ Opens(r, "cred", {x \in auth.creds : RpOf[x] = Head(k.rps)})
  \/ k.pc = "rpNext" /\ Goes(r, "rp")
  \/ k.pc = "credNext" /\ Goes(r, "cred")

Tells(k, r) ==
  /\ Positions(k, r)
  /\ k.pc \in Enumerating => ~Changes(r)
  /\ r.st = "ok" =>
       /\ k.pc \in {"set", "change", "delete"} => Changes(r)
       /\ k.pc = "metadata" => r.total = Cardinality(auth.creds)
       /\ k.pc = "rpBegin" => Begins(r, "rp", Rps(auth.creds))
       /\ k.pc = "credBegin" => Begins(r, "cred", {x \in auth.creds : RpOf[x] = Head(k.rps)})
       /\ k.pc = "rpNext" => r.item # NoRp /\ Goes(r, "rp")
       /\ k.pc = "credNext" => r.item # NoRp /\ Goes(r, "cred")

\* An answer that only ends an enumeration fits every exchange.
LEMMA IdleTells ==
  ASSUME auth \in Auth, NEW k, NEW st \in {"12", "fallback", "refused", "lost"}
  PROVE  Effect(Answer(st, Settled(auth))) /\ Tells(k, Answer(st, Settled(auth)))
<1>1. Answer(st, Settled(auth)).st = st
  BY SettledFacts, AnswerFacts, SMT
<1> QED
  BY <1>1, IdleFacts DEF Tells, Positions

\* What the device answers to the exchanges of credential management.
LEMMA ManageReplyFacts ==
  ASSUME auth \in Auth, NEW k \in Calls, NEW c \in Callers,
         k.pc \in {"metadata", "rpBegin", "credBegin", "delete"}, NEW r \in ManageReplies(k, c)
  PROVE  Effect(r) /\ Tells(k, r)
<1> DEFINE s == Settled(auth)
           mine == {x \in auth.creds : RpOf[x] = Head(k.rps)}
<1>1. auth.creds \in SUBSET Credentials /\ mine \in SUBSET Credentials
  BY DEF Auth
<1>2. /\ s \in Auth /\ s.pin = auth.pin /\ s.creds = auth.creds /\ s.cursor = NoCursor
      /\ s.retries = auth.retries
  BY SettledFacts
<1>3. \/ \E st \in {"12", "fallback", "refused"} : r = Answer(st, s)
      \/ k.pc = "metadata" /\ r = [Answer("ok", s) EXCEPT !.total = Cardinality(auth.creds)]
      \/ k.pc = "rpBegin" /\ r \in EnumerateBegin(auth, "rp", Rps(auth.creds))
      \/ k.pc = "credBegin" /\ r \in EnumerateBegin(auth, "cred", mine)
      \/ /\ k.pc = "delete" /\ k.op.cred \in auth.creds
         /\ r = Answer("ok", [s EXCEPT !.creds = @ \ {k.op.cred}])
  BY DEF ManageReplies
<1> HIDE DEF s, mine
<1>4. CASE \E st \in {"12", "fallback", "refused"} : r = Answer(st, s)
  BY <1>4, IdleTells DEF s
<1>5. CASE k.pc = "metadata" /\ r = [Answer("ok", s) EXCEPT !.total = Cardinality(auth.creds)]
  <2>1. Cardinality(auth.creds) \in Nat
    BY <1>1, FiniteCreds, FS_CardinalityType
  <2>2. Answer("ok", s) \in Reply /\ Answer("ok", s).auth = s
    BY <1>2, AnswerFacts
  <2>3. r \in Reply /\ r.auth = s /\ r.total = Cardinality(auth.creds)
    BY <1>5, <2>1, <2>2 DEF Reply
  <2>4. Untouched(r) /\ Quiet(r)
    BY <1>2, <2>3 DEF Untouched, Changes, Quiet
  <2> QED
    BY <1>5, <2>3, <2>4, UntouchedEffect DEF Tells, Positions, Untouched
<1>6. CASE k.pc = "rpBegin" /\ r \in EnumerateBegin(auth, "rp", Rps(auth.creds))
  <2>1. /\ Untouched(r)
        /\ r.st = "ok" => Begins(r, "rp", Rps(auth.creds))
        /\ Quiet(r) \/ Opens(r, "rp", Rps(auth.creds))
    BY <1>1, <1>6, FiniteCreds, EnumerateBeginFacts DEF Begins
  <2> QED
    BY <1>6, <2>1, UntouchedEffect DEF Tells, Positions, Untouched
<1>7. CASE k.pc = "credBegin" /\ r \in EnumerateBegin(auth, "cred", mine)
  <2>1. /\ Untouched(r)
        /\ r.st = "ok" => Begins(r, "cred", mine)
        /\ Quiet(r) \/ Opens(r, "cred", mine)
    BY <1>1, <1>7, FiniteCreds, EnumerateBeginFacts DEF Begins
  <2> QED
    BY <1>7, <2>1, UntouchedEffect DEF Tells, Positions, Untouched, mine
<1>8. CASE /\ k.pc = "delete" /\ k.op.cred \in auth.creds
           /\ r = Answer("ok", [s EXCEPT !.creds = @ \ {k.op.cred}])
  <2> DEFINE a == [s EXCEPT !.creds = @ \ {k.op.cred}]
  <2>1. /\ a \in Auth /\ a.creds = auth.creds \ {k.op.cred} /\ a.cursor = NoCursor
        /\ a.retries = auth.retries
    BY <1>1, <1>2 DEF Auth
  <2> HIDE DEF a
  <2>2. r \in Reply /\ r.auth = a /\ r.st = "ok"
    BY <1>8, <2>1, AnswerFacts DEF a
  <2>3. auth.retries \in 0 .. maxRetries /\ maxRetries \in Nat
    BY AuthenticatorAssumption DEF Auth
  <2> QED
    BY <1>8, <2>1, <2>2, <2>3, SMT DEF Effect, Tells, Positions, Quiet, Changes, Enumerating
<1> QED
  BY <1>3, <1>4, <1>5, <1>6, <1>7, <1>8

\* What it answers to setPIN and changePIN.
LEMMA PinReplyFacts ==
  ASSUME auth \in Auth, NEW k \in Calls, k.op \in Requests, Asked(k), k.pc \in {"set", "change"},
         NEW r \in PinReplies(k)
  PROVE  Effect(r) /\ Tells(k, r)
<1> DEFINE s == Settled(auth)
<1>1. /\ s \in Auth /\ s.pin = auth.pin /\ s.creds = auth.creds /\ s.cursor = NoCursor
      /\ s.retries = auth.retries
  BY SettledFacts
<1>2. k.op.newPin \in Pins /\ k.op.pin \in Pins
  BY DEF Pins
<1>3. auth.retries \in 0 .. maxRetries /\ maxRetries \in Nat /\ maxRetries \in 0 .. maxRetries
  BY AuthenticatorAssumption, SMT DEF Auth
<1>4. CASE k.pc = "set" /\ auth.pin = NoPin
  <2> DEFINE a == [s EXCEPT !.pin = k.op.newPin, !.retries = maxRetries]
  <2>1. r = Answer("ok", a)
    BY <1>4 DEF PinReplies
  <2> HIDE DEF s
  <2>2. a \in Auth /\ a.pin = k.op.newPin /\ a.cursor = NoCursor /\ a.retries = maxRetries
    BY <1>1, <1>2, <1>3 DEF Auth
  <2> HIDE DEF a
  <2>3. r \in Reply /\ r.auth = a /\ r.st = "ok"
    BY <2>1, <2>2, AnswerFacts
  <2>4. k.op.newPin # NoPin
    BY <1>4 DEF Asked, UnderWay, Fits, RefusedAtOnce, SetsEmptyPIN
  <2> QED
    BY <1>3, <1>4, <2>2, <2>3, <2>4, SMT DEF Effect, Tells, Positions, Quiet, Changes, Enumerating
<1>5. CASE k.pc = "change" /\ profile.stuck
  <2>1. r = Answer("12", s)
    BY <1>5 DEF PinReplies
  <2> QED
    BY <2>1, IdleTells
<1>6. CASE k.pc = "change" /\ ~profile.stuck
  <2> DEFINE accepted == [s EXCEPT !.pin = k.op.newPin, !.token.by = Nobody]
  <2>1. r \in Checked(auth, k.op.pin, accepted)
    BY <1>6 DEF PinReplies
  <2> HIDE DEF s
  <2>2. /\ accepted \in Auth /\ accepted.pin = k.op.newPin /\ accepted.cursor = NoCursor
        /\ accepted.creds = auth.creds
    <3>1. [s.token EXCEPT !.by = Nobody] \in
            [by : Callers \cup {Nobody}, perm : {"any", "cm", "mc", "ga"}]
      BY <1>1 DEF Auth
    <3> QED
      BY <1>1, <1>2, <3>1 DEF Auth
  <2> HIDE DEF accepted
  <2>3. /\ r \in Reply
        /\ \/ r.st = "refused" /\ ~Changes(r) /\ Quiet(r)
           \/ /\ r.st = "ok" /\ k.op.pin = auth.pin /\ r.auth.retries = maxRetries
              /\ r.auth.pin = k.op.newPin /\ r.auth.cursor = NoCursor
    BY <2>1, <2>2, CheckedFacts, SMT
  <2>4. k.op.pin # k.op.newPin
    BY <1>6, ClientAssumption DEF Asked, UnderWay, Fits
  <2>5. Effect(r)
    BY <1>3, <2>3, SMT DEF Effect
  <2> QED
    BY <1>6, <2>3, <2>4, <2>5 DEF Tells, Positions, Quiet, Changes, Enumerating
<1>7. CASE k.pc = "set" /\ auth.pin # NoPin
  <2>1. r = Answer("refused", s)
    BY <1>7 DEF PinReplies
  <2> QED
    BY <2>1, IdleTells
<1> QED
  BY <1>4, <1>5, <1>6, <1>7

\* What it answers to makeCredential and getAssertion.
LEMMA UseReplyFacts ==
  ASSUME auth \in Auth, NEW k \in Calls, k.op \in Requests, Asked(k), NEW c \in Callers,
         k.pc \in {"make", "assert"}, NEW r \in UseReplies(k, c)
  PROVE  Effect(r) /\ Tells(k, r)
<1> DEFINE s == Settled(auth)
           made == [s EXCEPT !.creds = @ \cup {k.op.cred}]
<1>1. /\ s \in Auth /\ s.pin = auth.pin /\ s.creds = auth.creds /\ s.cursor = NoCursor
      /\ s.retries = auth.retries
  BY SettledFacts
<1>2. \/ r = Answer("refused", s) \/ r = Answer("ok", s)
      \/ k.pc = "make" /\ r = Answer("ok", made)
  BY DEF UseReplies
<1> HIDE DEF s
<1>3. CASE r = Answer("refused", s)
  BY <1>3, IdleTells DEF s
<1>4. CASE r = Answer("ok", s)
  BY <1>4, IdleFacts DEF s, Tells, Positions, Enumerating
<1>5. CASE k.pc = "make" /\ r = Answer("ok", made)
  <2>1. k.op.cred \in Credentials
    BY <1>5, ClientAssumption DEF Asked, UnderWay, Fits
  <2>2. made \in Auth /\ made.cursor = NoCursor /\ made.retries = auth.retries
    BY <1>1, <2>1 DEF Auth
  <2> HIDE DEF made
  <2>3. r \in Reply /\ r.auth = made /\ r.st = "ok"
    BY <1>5, <2>2, AnswerFacts
  <2>4. auth.retries \in 0 .. maxRetries /\ maxRetries \in Nat
    BY AuthenticatorAssumption DEF Auth
  <2> QED
    BY <1>5, <2>2, <2>3, <2>4, SMT DEF Effect, Tells, Positions, Quiet, Changes, Enumerating
<1> QED
  BY <1>2, <1>3, <1>4, <1>5

\* What it answers to a reset.
LEMMA ResetReplyFacts ==
  ASSUME auth \in Auth, NEW k, k.pc = "reset",
         NEW r, r = Answer("ok", [pin |-> NoPin, retries |-> maxRetries, creds |-> {},
                                  token |-> [by |-> Nobody, perm |-> "any"], cursor |-> NoCursor])
  PROVE  Effect(r) /\ Tells(k, r)
<1> DEFINE a == [pin |-> NoPin, retries |-> maxRetries, creds |-> {},
                 token |-> [by |-> Nobody, perm |-> "any"], cursor |-> NoCursor]
<1>1. auth.retries \in 0 .. maxRetries /\ maxRetries \in Nat /\ maxRetries \in 0 .. maxRetries
  BY AuthenticatorAssumption, SMT DEF Auth
<1>2. a \in Auth /\ a.retries = maxRetries /\ a.cursor = NoCursor
  BY <1>1 DEF Auth, NoCursor, Pins
<1> HIDE DEF a
<1>3. r \in Reply /\ r.auth = a /\ r.st = "ok"
  BY <1>2, AnswerFacts DEF a
<1> QED
  BY <1>1, <1>2, <1>3, SMT DEF Effect, Tells, Positions, Quiet, Changes, Enumerating

\* What it answers to any exchange of a call.
LEMMA RepliesFacts ==
  ASSUME auth \in Auth, NEW k \in Calls, k.op \in Requests, Asked(k), NEW c \in Callers,
         k.pc \notin Early \cup {"done"}, NEW r \in Replies(k, c)
  PROVE  Effect(r) /\ Tells(k, r)
<1>1. CASE k.pc = "token"
  <2>1. r \in TokenReplies(k, c)
    BY <1>1 DEF Replies
  <2>2. Effect(r) /\ Quiet(r)
    BY <2>1, TokenFacts
  <2> QED
    BY <1>1, <2>2 DEF Tells, Positions, Enumerating
<1>2. CASE k.pc \in {"metadata", "rpBegin", "credBegin", "delete"}
  <2>1. r \in ManageReplies(k, c)
    BY <1>2 DEF Replies
  <2> QED
    BY <1>2, <2>1, ManageReplyFacts
<1>3. CASE k.pc \in {"rpNext", "credNext"}
  <2> DEFINE kind == IF k.pc = "rpNext" THEN "rp" ELSE "cred"
  <2>1. kind \in {"rp", "cred"} /\ r \in EnumerateNext(auth, kind)
    BY <1>3 DEF Replies
  <2>2. /\ Untouched(r)
        /\ (r.st = "refused" /\ Quiet(r)) \/ (r.st = "ok" /\ r.item # NoRp /\ Goes(r, kind))
    <3> HIDE DEF kind
    <3> QED
      BY <2>1, EnumerateNextFacts
  <2> QED
    BY <1>3, <2>2, UntouchedEffect DEF Tells, Positions, Untouched
<1>4. CASE k.pc \in {"set", "change"}
  <2>1. r \in PinReplies(k)
    BY <1>4 DEF Replies
  <2> QED
    BY <1>4, <2>1, PinReplyFacts
<1>5. CASE k.pc \in {"make", "assert"}
  <2>1. r \in UseReplies(k, c)
    BY <1>5 DEF Replies
  <2> QED
    BY <1>5, <2>1, UseReplyFacts
<1>6. CASE k.pc = "reset"
  <2>1. r = Answer("ok", [pin |-> NoPin, retries |-> maxRetries, creds |-> {},
                          token |-> [by |-> Nobody, perm |-> "any"], cursor |-> NoCursor])
    BY <1>6 DEF Replies
  <2> QED
    BY <1>6, <2>1, ResetReplyFacts
<1>7. CASE k.pc \in {"key", "u2f", "retries"}
  <2>1. r = Answer("ok", Settled(auth))
    BY <1>7 DEF Replies
  <2> QED
    BY <1>7, <2>1, IdleFacts DEF Tells, Positions, Enumerating
<1>8. k.pc \in Pcs
  BY DEF Calls
<1> QED
  BY <1>1, <1>2, <1>3, <1>4, <1>5, <1>6, <1>7, <1>8 DEF Pcs, Early, Enumerating

\* Also when the exchange fails.
Exchanged(k, r) ==
  /\ r \in Reply
  /\ r.auth.retries < auth.retries => r.st \in {"refused", "lost"}
  /\ Changes(r) => r.st \in {"ok", "lost"}
  /\ Tells(k, r)

\* The same for an exchange that may fail: it is lost before or after the device has
\* executed it.
LEMMA ExchangeFacts ==
  ASSUME auth \in Auth, NEW k \in Calls, k.op \in Requests, Asked(k), NEW c \in Callers,
         k.pc \notin Early \cup {"done"}, NEW r \in Replies(k, c) \cup FaultyReplies(k, c)
  PROVE  Exchanged(k, r)
<1>1. \A q \in Replies(k, c) : Effect(q) /\ Tells(k, q)
  BY RepliesFacts
<1>2. CASE r \in Replies(k, c)
  BY <1>1, <1>2 DEF Exchanged, Effect
<1>3. CASE \E st \in {"12", "fallback", "lost"} : r = Answer(st, Settled(auth))
  <2>1. Effect(r) /\ Tells(k, r)
    BY <1>3, IdleTells
  <2> QED
    BY <2>1 DEF Exchanged, Effect
<1>4. CASE \E q \in Replies(k, c) : r = [q EXCEPT !.st = "lost"]
  <2>1. PICK q \in Replies(k, c) : r = [q EXCEPT !.st = "lost"]
    BY <1>4
  <2>2. Effect(q) /\ Tells(k, q)
    BY <1>1
  <2>3. r \in Reply /\ r.auth = q.auth /\ r.st = "lost" /\ r.item = q.item /\ r.total = q.total
    BY <2>1, <2>2 DEF Effect, Reply
  <2>4. Positions(k, q) => Positions(k, r)
    BY <2>3 DEF Positions, Quiet, Opens, Goes
  <2> QED
    BY <2>2, <2>3, <2>4 DEF Exchanged, Tells, Changes
<1> QED
  BY <1>2, <1>3, <1>4 DEF FaultyReplies

\* The device enumerates only what it stores.
LEMMA CursorKept ==
  ASSUME CursorInv(auth), NEW k, NEW r, Exchanged(k, r)
  PROVE  CursorInv(r.auth)
<1>1. CASE Quiet(r)
  <2>1. r.auth.cursor.kind = "none"
    BY <1>1, SMT DEF Quiet, NoCursor
  <2> QED
    BY <2>1 DEF CursorInv
<1>2. ASSUME ~Quiet(r) PROVE r.auth.creds = auth.creds
  BY <1>2 DEF Exchanged, Tells, Positions, Changes, Enumerating
<1>3. CASE ~Quiet(r) /\ k.pc \in {"rpBegin", "credBegin"}
  <2>1. \/ Opens(r, "rp", Rps(auth.creds))
        \/ Opens(r, "cred", {x \in auth.creds : RpOf[x] = Head(k.rps)})
    BY <1>3 DEF Exchanged, Tells, Positions
  <2>2. \/ r.auth.cursor.kind = "rp" /\ r.auth.cursor.left \subseteq Rps(auth.creds)
        \/ r.auth.cursor.kind = "cred" /\ r.auth.cursor.left \subseteq auth.creds
    BY <2>1, SMT DEF Opens
  <2> QED
    BY <1>2, <1>3, <2>2 DEF CursorInv
<1>4. CASE ~Quiet(r) /\ k.pc \in {"rpNext", "credNext"}
  <2>1. Goes(r, "rp") \/ Goes(r, "cred")
    BY <1>4 DEF Exchanged, Tells, Positions
  <2>2. r.auth.cursor.kind = auth.cursor.kind /\ r.auth.cursor.left \subseteq auth.cursor.left
    BY <2>1, SMT DEF Goes
  <2> QED
    BY <1>2, <1>4, <2>2 DEF CursorInv
<1> QED
  BY <1>1, <1>3, <1>4 DEF Exchanged, Tells, Positions

-----------------------------------------------------------------------------
(* What the operation makes of the answer.                                 *)

\* After a failed exchange a call starts again, if its kind is retried, or returns an error.
LEMMA RecoverFacts ==
  ASSUME NEW k \in Calls, NEW st
  PROVE  /\ Same(k, Recover(k, st))
         /\ \/ /\ Recover(k, st).pc = "key" /\ st \in {"12", "fallback"}
               /\ k.op.kind \in {"ChangePIN", "List", "Delete"}
               /\ Recover(k, st).rps = <<>> /\ Recover(k, st).out = <<>>
            \/ Recover(k, st).pc = "done" /\ Recover(k, st).ok = FALSE
<1> DEFINE n == Recover(k, st)
           retried == st \in {"12", "fallback"} /\ k.op.kind \in {"ChangePIN", "List", "Delete"}
<1>1. k.code \in {"none", "std", "preview"}
  BY DEF Calls
<1>2. \/ n = Fail(k)
      \/ retried /\ n = Restart(k, k.code)
      \/ retried /\ n = Restart(k, "preview")
  <2>1. \/ n = Fail(k)
        \/ k.op.kind = "ChangePIN" /\ n = retryClientPINChange(k, st)
        \/ k.op.kind \in {"List", "Delete"} /\ n = retryCredentialManagement(k, st)
    BY DEF Recover
  <2>2. CASE k.op.kind = "ChangePIN" /\ n = retryClientPINChange(k, st)
    BY <2>2 DEF retryClientPINChange, shouldRetryClientPINChange
  <2>3. CASE k.op.kind \in {"List", "Delete"} /\ n = retryCredentialManagement(k, st)
    BY <2>3 DEF retryCredentialManagement, shouldRetryCredentialManagement,
                shouldRetryCredentialManagementWithPreview
  <2> QED
    BY <2>1, <2>2, <2>3
<1> HIDE DEF n
<1>3. CASE n = Fail(k)
  BY <1>3, FailFacts DEF n
<1>4. CASE retried /\ n = Restart(k, k.code)
  BY <1>1, <1>4, RestartFacts DEF n
<1>5. CASE retried /\ n = Restart(k, "preview")
  BY <1>5, RestartFacts DEF n
<1> QED
  BY <1>2, <1>3, <1>4, <1>5

\* The requests that carry out what a call was asked for.
Final == {"set", "change", "delete"}

Continued(k, r, n) ==
  /\ Same(k, n) /\ n.pc \notin Early
  /\ n.pc # "done" => Fits(n)
  /\ r.st \in {"refused", "lost"} => n.pc = "done" /\ n.ok = FALSE
  /\ k.op.kind \in Changing =>
       /\ r.st = "ok" /\ k.pc \in Final => n.pc = "done" /\ n.ok = TRUE
       /\ ~(r.st = "ok" /\ k.pc \in Final) => (n.pc = "done" => n.ok = FALSE)

\* A listing goes on with its lists, or starts over, or fails.
ListKept(k, n) == /\ n.pc \in {"token", "metadata"} /\ n.rps = k.rps /\ n.out = k.out

ListGivenUp(n) == \/ n.pc = "key" /\ n.rps = <<>> /\ n.out = <<>>
                  \/ n.pc = "done" /\ n.ok = FALSE

\* So it does in Continue.
LEMMA RefusedFacts ==
  ASSUME NEW k \in Calls, k.op \in Requests, NEW r \in Reply, r.st # "ok"
  PROVE  Continued(k, r, Continue(k, r)) /\ ListGivenUp(Continue(k, r))
<1>1. Continue(k, r) = Recover(k, r.st)
  BY DEF Continue
<1>2. /\ Same(k, Recover(k, r.st))
      /\ \/ /\ Recover(k, r.st).pc = "key" /\ r.st \in {"12", "fallback"}
            /\ k.op.kind \in {"ChangePIN", "List", "Delete"}
            /\ Recover(k, r.st).rps = <<>> /\ Recover(k, r.st).out = <<>>
         \/ Recover(k, r.st).pc = "done" /\ Recover(k, r.st).ok = FALSE
  BY RecoverFacts
<1> QED
  BY <1>1, <1>2 DEF Continued, ListGivenUp, Same, Fits, Early, Enumerating, Final, Changing

\* After the key agreement and the token a call goes on to an exchange that fits.
LEMMA KeyTokenFacts ==
  ASSUME NEW k \in Calls, k.op \in Requests, Asked(k), NEW r \in Reply, r.st = "ok",
         k.pc \in {"key", "token"}
  PROVE  /\ Continued(k, r, Continue(k, r))
         /\ k.op.kind = "List" => ListKept(k, Continue(k, r))
<1> DEFINE n == Continue(k, r)
<1>1. \A pc \in {"set", "change", "token", "make", "assert", "delete", "metadata"} : pc \in Pcs
  BY DEF Pcs, Enumerating
<1>2. CASE k.pc = "key"
  <2>1. n = getPINProtocolSession(k)
    BY <1>2 DEF Continue
  <2>2. CASE k.op.kind = "SetPIN"
    <3>1. Onwards(k, n, "set")
      BY <1>1, <2>1, <2>2, IfFacts DEF getPINProtocolSession
    <3> HIDE DEF n
    <3> QED
      BY <1>2, <2>2, <3>1 DEF Onwards, Continued, Same, Fits, Early, Enumerating, Final, n
  <2>3. CASE k.op.kind = "ChangePIN"
    <3>1. Onwards(k, n, "change")
      BY <1>1, <2>1, <2>3, IfFacts DEF getPINProtocolSession
    <3> HIDE DEF n
    <3> QED
      BY <1>2, <2>3, <3>1 DEF Onwards, Continued, Same, Fits, Early, Enumerating, Final, n
  <2>4. CASE k.op.kind \notin {"SetPIN", "ChangePIN"}
    <3>1. n = Goto(k, "token")
      BY <2>1, <2>4 DEF getPINProtocolSession
    <3>2. Same(k, n) /\ SameLists(k, n) /\ n.pc = "token"
      BY <1>1, <3>1, GotoFacts, SMT
    <3>3. k.op.kind \in {"List", "Delete", "Register", "Authenticate"}
      BY <1>2, <2>4, ClientAssumption DEF Asked, UnderWay, Fits, Changing
    <3> HIDE DEF n
    <3> QED
      BY <1>2, <3>2, <3>3 DEF Continued, Same, SameLists, ListKept, Fits, Early, Enumerating, Final, n
  <2> QED
    BY <2>2, <2>3, <2>4
<1>3. CASE k.pc = "token"
  <2>1. n = afterToken(k)
    BY <1>3 DEF Continue
  <2>2. k.op.kind \in {"List", "Delete", "Register", "Authenticate"}
    BY <1>3 DEF Asked, UnderWay, Fits
  <2>3. \/ k.op.kind = "Register" /\ n = Goto(k, "make")
        \/ k.op.kind = "Authenticate" /\ n = Goto(k, "assert")
        \/ k.op.kind = "Delete" /\ n = Goto(k, "delete")
        \/ k.op.kind = "List" /\ n = Goto(k, "metadata")
    BY <2>1, <2>2 DEF afterToken
  <2> HIDE DEF n
  <2>4. /\ Same(k, n) /\ SameLists(k, n)
        /\ \/ k.op.kind = "Register" /\ n.pc = "make"
           \/ k.op.kind = "Authenticate" /\ n.pc = "assert"
           \/ k.op.kind = "Delete" /\ n.pc = "delete"
           \/ k.op.kind = "List" /\ n.pc = "metadata"
    BY <1>1, <2>3, GotoFacts, SMT
  <2> QED
    BY <1>3, <2>4 DEF Continued, Same, SameLists, ListKept, Fits, Early, Enumerating, Final, n, Changing
<1> QED
  BY <1>2, <1>3

\* The exchange that does what was asked for ends the call with success.
LEMMA FinalFacts ==
  ASSUME NEW k \in Calls, k.op \in Requests, Asked(k), NEW r \in Reply, r.st = "ok",
         k.pc \in {"set", "change", "delete", "make", "assert", "reset", "u2f", "retries"}
  PROVE  Continued(k, r, Continue(k, r)) /\ k.op.kind # "List"
<1> DEFINE n == Continue(k, r)
           verified == k.pc \in {"make", "assert"} /\ k.auth # "none"
<1>1. n = [Return(k, TRUE) EXCEPT !.verified = verified]
  BY DEF Continue
<1>2. verified \in BOOLEAN
  OBVIOUS
<1> HIDE DEF n, verified
<1>3. Same(k, Return(k, TRUE)) /\ Return(k, TRUE).pc = "done" /\ Return(k, TRUE).ok = TRUE
  BY ReturnFacts
<1>4. Same(k, n) /\ n.pc = "done" /\ n.ok = TRUE
  BY <1>1, <1>2, <1>3 DEF Same, Calls
<1>5. k.op.kind # "List" /\ (k.op.kind \in Changing => k.pc \in Final)
  BY DEF Asked, UnderWay, Fits, Changing, Final
<1> QED
  BY <1>4, <1>5 DEF Continued, Early, n

-----------------------------------------------------------------------------
(* The lists of a listing.                                                 *)

\* The empty sequence.
LEMMA EmptyFacts == Elements(<<>>) = {} /\ Distinct(<<>>)
BY SMT DEF Elements, Distinct

\* A sequence of distinct elements and one more.
LEMMA AppendFacts ==
  ASSUME NEW S, NEW s \in Seq(S), NEW x \in S
  PROVE  /\ Append(s, x) \in Seq(S) /\ Append(s, x) # <<>> /\ Len(Append(s, x)) = Len(s) + 1
         /\ Elements(Append(s, x)) = Elements(s) \cup {x}
         /\ Distinct(s) /\ x \notin Elements(s) => Distinct(Append(s, x))
<1> DEFINE t == Append(s, x)
<1>1. t \in Seq(S) /\ Len(t) = Len(s) + 1 /\ Len(s) \in Nat
  BY SMT
<1>2. /\ DOMAIN s = 1 .. Len(s) /\ DOMAIN t = 1 .. Len(s) + 1
      /\ \A i \in 1 .. Len(s) : t[i] = s[i]
      /\ t[Len(s) + 1] = x
  BY SMT
<1>3. t # <<>>
  BY <1>1, SMT
<1> HIDE DEF t
<1>4. Elements(t) = Elements(s) \cup {x}
  <2>1. \A y \in Elements(t) : y \in Elements(s) \cup {x}
    BY <1>1, <1>2, SMT DEF Elements
  <2>2. \A y \in Elements(s) \cup {x} : y \in Elements(t)
    BY <1>1, <1>2, SMT DEF Elements
  <2> QED
    BY <2>1, <2>2
<1>5. ASSUME Distinct(s), x \notin Elements(s) PROVE Distinct(t)
  BY <1>1, <1>2, <1>5, SMT DEF Distinct, Elements
<1> QED
  BY <1>1, <1>3, <1>4, <1>5 DEF t

\* A sequence of distinct elements without its first.
LEMMA TailFacts ==
  ASSUME NEW S, NEW s \in Seq(S), s # <<>>
  PROVE  /\ Head(s) \in S /\ Tail(s) \in Seq(S)
         /\ Elements(s) = {Head(s)} \cup Elements(Tail(s))
         /\ Distinct(s) => Distinct(Tail(s)) /\ Head(s) \notin Elements(Tail(s))
<1> DEFINE t == Tail(s)
<1>1. /\ Len(s) \in Nat /\ Len(s) >= 1 /\ Head(s) = s[1] /\ s[1] \in S
      /\ t \in Seq(S) /\ Len(t) = Len(s) - 1
      /\ \A i \in 1 .. Len(s) - 1 : t[i] = s[i + 1]
  BY SMT
<1>2. DOMAIN s = 1 .. Len(s) /\ DOMAIN t = 1 .. Len(s) - 1
  BY <1>1, SMT
<1> HIDE DEF t
<1>3. Elements(s) = {Head(s)} \cup Elements(t)
  <2>1. \A y \in Elements(s) : y \in {Head(s)} \cup Elements(t)
    <3> TAKE y \in Elements(s)
    <3>1. PICK i \in 1 .. Len(s) : y = s[i]
      BY <1>2 DEF Elements
    <3>2. CASE i = 1
      BY <1>1, <3>1, <3>2
    <3>3. CASE i # 1
      <4>1. i - 1 \in 1 .. Len(s) - 1 /\ t[i - 1] = s[i]
        BY <1>1, <3>1, <3>3, SMT
      <4> QED
        BY <1>2, <3>1, <4>1 DEF Elements
    <3> QED
      BY <3>2, <3>3
  <2>2. \A y \in {Head(s)} \cup Elements(t) : y \in Elements(s)
    BY <1>1, <1>2, SMTT(30) DEF Elements
  <2> QED
    BY <2>1, <2>2
<1>4. ASSUME Distinct(s) PROVE Distinct(t) /\ Head(s) \notin Elements(t)
  <2>1. ASSUME NEW m \in DOMAIN t, NEW n \in DOMAIN t, t[m] = t[n] PROVE m = n
    <3>1. m + 1 \in DOMAIN s /\ n + 1 \in DOMAIN s /\ s[m + 1] = s[n + 1]
      BY <1>1, <1>2, <2>1, SMTT(30)
    <3>2. m + 1 = n + 1
      BY <1>4, <3>1 DEF Distinct
    <3> QED
      BY <1>1, <1>2, <3>2, SMT
  <2>2. ASSUME NEW m \in DOMAIN t, t[m] = s[1] PROVE FALSE
    <3>1. m + 1 \in DOMAIN s /\ 1 \in DOMAIN s /\ s[m + 1] = s[1]
      BY <1>1, <1>2, <2>2, SMT
    <3>2. m + 1 = 1
      BY <1>4, <3>1 DEF Distinct
    <3> QED
      BY <1>1, <1>2, <3>2, SMT
  <2> QED
    BY <1>1, <2>1, <2>2 DEF Distinct, Elements
<1> QED
  BY <1>1, <1>3, <1>4 DEF t

\* One more credential in the list.
LEMMA ListedAppend ==
  ASSUME NEW k \in Calls, NEW n, NEW item \in [rp : Rps(Credentials), cred : Credentials],
         n.out = Append(k.out, item)
  PROVE  /\ Listed(n) = Listed(k) \cup {item.cred}
         /\ Len(n.out) = Len(k.out) + 1
         /\ \A i \in DOMAIN n.out : n.out[i] = item \/ (i \in DOMAIN k.out /\ n.out[i] = k.out[i])
<1>1. k.out \in Seq([rp : Rps(Credentials), cred : Credentials])
  BY DEF Calls
<1>2. /\ Len(k.out) \in Nat /\ DOMAIN k.out = 1 .. Len(k.out)
      /\ Len(n.out) = Len(k.out) + 1 /\ DOMAIN n.out = 1 .. Len(k.out) + 1
      /\ \A i \in 1 .. Len(k.out) : n.out[i] = k.out[i]
      /\ n.out[Len(k.out) + 1] = item
  BY <1>1, SMT
<1>3. \A x \in Listed(n) : x \in Listed(k) \cup {item.cred}
  BY <1>2, SMT DEF Listed
<1>4. \A x \in Listed(k) \cup {item.cred} : x \in Listed(n)
  BY <1>2, SMT DEF Listed
<1> QED
  BY <1>2, <1>3, <1>4, SMT

\* Nothing listed, and nothing to list.
LEMMA NothingListed ==
  ASSUME NEW k, k.out = <<>>
  PROVE  Listed(k) = {} /\ Sound(k)
<1>1. Listed(k) = {} /\ Len(k.out) = 0 /\ DOMAIN k.out = {}
  BY SMT DEF Listed
<1> QED
  BY <1>1, FS_EmptySet DEF Sound

\* The metadata of the listing: nothing is stored, or the enumeration begins.
LEMMA MetadataFacts ==
  ASSUME auth \in Auth, NEW k \in Calls, k.op \in Requests, Asked(k), k.pc = "metadata",
         Listing(k, auth), Watched(k, auth), NEW r, Exchanged(k, r), r.st = "ok"
  PROVE  Continued(k, r, Continue(k, r)) /\ Listing(Continue(k, r), r.auth)
<1> DEFINE n == Continue(k, r)
<1>1. k.op.kind = "List" /\ k.rps = <<>> /\ k.out = <<>> /\ k.held \subseteq auth.creds
  BY DEF Asked, UnderWay, Fits, Enumerating, Listing, Lists, Watched
<1>2. r.total = Cardinality(auth.creds)
  BY DEF Exchanged, Tells
<1>3. n = IF r.total = 0 THEN Return(k, TRUE) ELSE Goto(k, "rpBegin")
  BY DEF Continue, getCredentialMetadata
<1> HIDE DEF n
<1>4. CASE r.total = 0
  <2>1. auth.creds = {}
    <3>1. auth.creds \in SUBSET Credentials
      BY DEF Auth
    <3>2. IsFiniteSet(auth.creds)
      BY <3>1, FiniteCreds
    <3> QED
      BY <1>2, <1>4, <3>2, FS_EmptySet
  <2>2. Same(k, n) /\ SameLists(k, n) /\ n.pc = "done" /\ n.ok = TRUE
    BY <1>3, <1>4, ReturnFacts
  <2>3. n.out = <<>> /\ n.held = {} /\ n.op.kind = "List"
    BY <1>1, <2>1, <2>2 DEF Same, SameLists
  <2>4. Sound(n)
    BY <2>3, NothingListed
  <2>5. Listing(n, r.auth)
    BY <2>2, <2>3, <2>4, NothingListed DEF Listing, Exact, Early
  <2> QED
    BY <1>1, <2>2, <2>5 DEF Continued, Early, Changing, n
<1>5. CASE r.total # 0
  <2>1. "rpBegin" \in Pcs
    BY DEF Pcs, Enumerating
  <2>2. Same(k, n) /\ SameLists(k, n) /\ n.pc = "rpBegin"
    BY <1>3, <1>5, <2>1, GotoFacts
  <2>3. n.op.kind = "List" /\ n.rps = <<>> /\ n.out = <<>>
    BY <1>1, <2>2 DEF Same, SameLists
  <2>4. Listing(n, r.auth)
    BY <2>2, <2>3 DEF Listing, Exact, Early
  <2> QED
    BY <1>1, <2>2, <2>3, <2>4 DEF Continued, Fits, Early, Changing, Enumerating, n
<1> QED
  BY <1>4, <1>5

\* Whatever the cursor is at, the device names a relying party it has credentials of.
LEMMA RpNamed ==
  ASSUME auth \in Auth, CursorInv(auth), NEW k, k.pc \in {"rpBegin", "rpNext"},
         NEW r, Exchanged(k, r), r.st = "ok", r.item # NoRp
  PROVE  r.item \in Rps(Credentials)
<1>1. auth.creds \in SUBSET Credentials
  BY DEF Auth
<1>2. CASE k.pc = "rpBegin"
  BY <1>1, <1>2, FiniteCreds DEF Exchanged, Tells, Begins, Opens
<1>3. CASE k.pc = "rpNext"
  BY <1>1, <1>3, FiniteCreds DEF Exchanged, Tells, Goes, CursorInv
<1> QED
  BY <1>2, <1>3

\* The same for a credential.
LEMMA CredNamed ==
  ASSUME auth \in Auth, CursorInv(auth), NEW k, k.pc \in {"credBegin", "credNext"},
         NEW r, Exchanged(k, r), r.st = "ok", r.item # NoRp
  PROVE  r.item \in auth.creds
<1>1. CASE k.pc = "credBegin"
  BY <1>1 DEF Exchanged, Tells, Begins, Opens
<1>2. CASE k.pc = "credNext"
  BY <1>2 DEF Exchanged, Tells, Goes, CursorInv
<1> QED
  BY <1>1, <1>2

\* How many the client expects to follow.
LEMMA LeftFacts ==
  ASSUME NEW k \in Calls, NEW r \in Reply
  PROVE  remaining(r.total) \in Int /\ k.left - 1 \in Int
BY SMT DEF Calls, Reply, remaining

\* The relying party named is a new one, and the cursor has the others left.
LEMMA RpTaken ==
  ASSUME auth \in Auth, NEW k \in Calls, k.op \in Requests, Asked(k),
         k.pc \in {"rpBegin", "rpNext"}, Listing(k, auth), NEW r, Exchanged(k, r), r.st = "ok",
         r.item # NoRp, ~k.crossed
  PROVE  /\ r.auth.creds = auth.creds
         /\ r.item \in Rps(Credentials) /\ r.item \notin Elements(k.rps)
         /\ Distinct(k.rps) /\ k.out = <<>>
         /\ r.auth.cursor.kind = "rp" /\ r.item \notin r.auth.cursor.left
         /\ IsFiniteSet(r.auth.cursor.left)
         /\ Elements(k.rps) \cap r.auth.cursor.left = {}
         /\ Elements(k.rps) \cup {r.item} \cup r.auth.cursor.left = Rps(auth.creds)
         /\ (IF k.pc = "rpBegin" THEN remaining(r.total) ELSE k.left - 1)
              = Cardinality(r.auth.cursor.left)
<1>1. k.op.kind = "List"
  BY DEF Asked, UnderWay, Fits, Enumerating
<1>2. r.auth.creds = auth.creds
  BY DEF Exchanged, Tells, Enumerating, Changes
<1>3. auth.creds \in SUBSET Credentials
  BY DEF Auth
<1>4. IsFiniteSet(Rps(auth.creds)) /\ Rps(auth.creds) \subseteq Rps(Credentials)
  BY <1>3, FiniteCreds
<1>5. CASE k.pc = "rpBegin"
  <2>1. k.rps = <<>> /\ k.out = <<>>
    BY <1>1, <1>5 DEF Listing, Lists
  <2>2. Elements(k.rps) = {} /\ Distinct(k.rps)
    BY <2>1, EmptyFacts
  <2>3. Opens(r, "rp", Rps(auth.creds))
    BY <1>5 DEF Exchanged, Tells, Begins
  <2>4. /\ r.item \in Rps(auth.creds) /\ r.auth.cursor.kind = "rp"
        /\ r.auth.cursor.left = Rps(auth.creds) \ {r.item}
        /\ remaining(r.total) = Cardinality(r.auth.cursor.left)
    BY <2>3, SMT DEF Opens
  <2>5. IsFiniteSet(r.auth.cursor.left)
    BY <1>4, <2>4, FS_Subset
  <2> QED
    BY <1>2, <1>4, <1>5, <2>1, <2>2, <2>4, <2>5
<1>6. CASE k.pc = "rpNext"
  <2>1. k.out = <<>> /\ Distinct(k.rps) /\ RpsOpen(k, auth)
    BY <1>1, <1>6 DEF Listing, Exact, Lists
  <2>2. /\ auth.cursor.kind = "rp" /\ r.item \in auth.cursor.left
        /\ r.auth.cursor.kind = "rp" /\ r.auth.cursor.left = auth.cursor.left \ {r.item}
    <3>1. Goes(r, "rp")
      BY <1>6 DEF Exchanged, Tells
    <3> QED
      BY <3>1, SMT DEF Goes
  <2>3. /\ k.left = Cardinality(auth.cursor.left)
        /\ Elements(k.rps) \cap auth.cursor.left = {}
        /\ Elements(k.rps) \cup auth.cursor.left = Rps(auth.creds)
    BY <2>1, <2>2 DEF RpsOpen
  <2>4. IsFiniteSet(auth.cursor.left)
    BY <1>4, <2>3, FS_Subset
  <2>5. /\ IsFiniteSet(r.auth.cursor.left)
        /\ Cardinality(r.auth.cursor.left) = Cardinality(auth.cursor.left) - 1
    BY <2>2, <2>4, FS_RemoveElement, ZenonT(40)
  <2> QED
    BY <1>2, <1>4, <1>6, <2>1, <2>2, <2>3, <2>5
<1> QED
  BY <1>5, <1>6

\* A listing takes a relying party, and is on its way again or has them all.
LEMMA RpFacts ==
  ASSUME auth \in Auth, CursorInv(auth), NEW k \in Calls, k.op \in Requests, Asked(k),
         k.pc \in {"rpBegin", "rpNext"}, Listing(k, auth), Watched(k, auth), NEW r,
         Exchanged(k, r), r.st = "ok"
  PROVE  Continued(k, r, Continue(k, r)) /\ Listing(Continue(k, r), r.auth)
<1> DEFINE n == Continue(k, r)
           rps == Append(k.rps, r.item)
           left == IF k.pc = "rpBegin" THEN remaining(r.total) ELSE k.left - 1
           got == [k EXCEPT !.rps = rps, !.left = left]
<1>1. k.op.kind = "List" /\ k.held \subseteq auth.creds /\ k.out = <<>>
  BY DEF Asked, UnderWay, Fits, Enumerating, Watched, Listing, Lists
<1>2. n = IF r.item = NoRp THEN Return(k, k.pc = "rpBegin")
          ELSE IF got.left > 0 THEN Goto(got, "rpNext") ELSE nextRelyingParty(got)
  BY DEF Continue, enumerateRelyingParties
<1> HIDE DEF n
<1>3. CASE r.item = NoRp
  <2>1. k.pc = "rpBegin" /\ Rps(auth.creds) = {}
    BY <1>3 DEF Exchanged, Tells, Begins
  <2>2. auth.creds = {}
    BY <2>1 DEF Rps
  <2>3. n = Return(k, TRUE)
    BY <1>2, <1>3, <2>1
  <2>4. Same(k, n) /\ SameLists(k, n) /\ n.pc = "done" /\ n.ok = TRUE
    BY <2>3, ReturnFacts
  <2>5. n.out = <<>> /\ n.held = {} /\ n.op.kind = "List"
    BY <1>1, <2>2, <2>4 DEF Same, SameLists
  <2>6. Sound(n) /\ Listed(n) = {}
    BY <2>5, NothingListed
  <2>7. Listing(n, r.auth)
    BY <2>4, <2>5, <2>6 DEF Listing, Exact, Early
  <2> QED
    BY <1>1, <2>4, <2>7 DEF Continued, Early, Changing, n
<1>4. CASE r.item # NoRp
  <2>1. r.item \in Rps(Credentials)
    BY <1>4, RpNamed, SMT
  <2>2. k.rps \in Seq(Rps(Credentials))
    BY DEF Calls
  <2>3. /\ rps \in Seq(Rps(Credentials)) /\ rps # <<>>
        /\ Elements(rps) = Elements(k.rps) \cup {r.item}
        /\ Distinct(k.rps) /\ r.item \notin Elements(k.rps) => Distinct(rps)
    BY <2>1, <2>2, AppendFacts, SMT
  <2>4. left \in Int
    BY LeftFacts DEF Exchanged
  <2>5. ASSUME ~k.crossed
        PROVE  /\ r.auth.creds = auth.creds
               /\ Distinct(rps) /\ left \in Nat
               /\ r.auth.cursor.kind = "rp" /\ IsFiniteSet(r.auth.cursor.left)
               /\ Elements(rps) \cap r.auth.cursor.left = {}
               /\ Elements(rps) \cup r.auth.cursor.left = Rps(auth.creds)
               /\ left = Cardinality(r.auth.cursor.left)
    <3>1. /\ r.auth.creds = auth.creds
          /\ r.item \notin Elements(k.rps) /\ Distinct(k.rps)
          /\ r.auth.cursor.kind = "rp" /\ r.item \notin r.auth.cursor.left
          /\ IsFiniteSet(r.auth.cursor.left)
          /\ Elements(k.rps) \cap r.auth.cursor.left = {}
          /\ Elements(k.rps) \cup {r.item} \cup r.auth.cursor.left = Rps(auth.creds)
          /\ left = Cardinality(r.auth.cursor.left)
      BY <1>4, <2>5, RpTaken
    <3>2. left \in Nat
      BY <3>1, FS_CardinalityType
    <3> HIDE DEF rps, left
    <3> QED
      BY <2>3, <3>1, <3>2
  <2> HIDE DEF rps, left
  <2>6. Same(k, got) /\ got.rps = rps /\ got.left = left /\ got.out = <<>> /\ got.crossed = k.crossed
    <3>1. got \in Calls
      BY <2>3, <2>4 DEF Calls
    <3> QED
      BY <1>1, <3>1 DEF Same, Calls
  <2>7. got \in Calls /\ "rpNext" \in Pcs /\ "credBegin" \in Pcs
    BY <2>6 DEF Same, Pcs, Enumerating
  <2> HIDE DEF got
  <2>8. CASE left > 0
    <3>1. n = Goto(got, "rpNext")
      BY <1>2, <1>4, <2>6, <2>8
    <3>2. Same(got, n) /\ SameLists(got, n) /\ n.pc = "rpNext" /\ n.left = left
      BY <2>6, <2>7, <3>1, GotoFacts
    <3>3. Same(k, n) /\ n.rps = rps /\ n.out = <<>> /\ n.op.kind = "List" /\ n.crossed = k.crossed
      BY <1>1, <2>6, <3>2 DEF Same, SameLists
    <3>4. ASSUME ~n.crossed PROVE Exact(n, r.auth)
      <4>1. RpsOpen(n, r.auth) /\ Distinct(n.rps)
        BY <2>5, <3>2, <3>3, <3>4 DEF RpsOpen
      <4> QED
        BY <3>2, <4>1 DEF Exact
    <3>5. Listing(n, r.auth)
      BY <2>3, <3>2, <3>3, <3>4 DEF Listing, Early
    <3> QED
      BY <1>1, <3>2, <3>3, <3>5 DEF Continued, Fits, Early, Changing, Enumerating, n
  <2>9. CASE ~(left > 0)
    <3>1. n = Goto(got, "credBegin")
      BY <1>2, <1>4, <2>3, <2>6, <2>9 DEF nextRelyingParty
    <3>2. Same(got, n) /\ SameLists(got, n) /\ n.pc = "credBegin"
      BY <2>7, <3>1, GotoFacts
    <3>3. /\ Same(k, n) /\ n.rps = rps /\ n.out = <<>> /\ n.op.kind = "List" /\ n.held = k.held
          /\ n.crossed = k.crossed
      BY <1>1, <2>6, <3>2 DEF Same, SameLists
    <3>4. Sound(n) /\ Listed(n) = {}
      BY <3>3, NothingListed
    <3>5. ASSUME ~n.crossed PROVE Exact(n, r.auth)
      <4>1. r.auth.cursor.left = {}
        <5>1. left \in Nat /\ IsFiniteSet(r.auth.cursor.left) /\ left = Cardinality(r.auth.cursor.left)
          BY <2>5, <3>3, <3>5
        <5>2. left = 0
          BY <2>9, <5>1, SMT
        <5> QED
          BY <5>1, <5>2, FS_EmptySet
      <4>2. Elements(rps) = Rps(auth.creds) /\ Distinct(n.rps)
        BY <2>5, <3>3, <3>5, <4>1
      <4>3. Covered(n)
        BY <1>1, <3>3, <4>2 DEF Covered, Rps
      <4>4. \A i \in DOMAIN n.out : n.out[i].rp \notin Elements(n.rps)
        BY <3>3, SMT
      <4> QED
        BY <3>2, <3>4, <4>2, <4>3, <4>4 DEF Exact
    <3>6. Listing(n, r.auth)
      BY <2>3, <3>2, <3>3, <3>4, <3>5 DEF Listing, Early
    <3> QED
      BY <1>1, <3>2, <3>3, <3>6 DEF Continued, Fits, Early, Changing, Enumerating, n
  <2> QED
    BY <2>8, <2>9
<1> QED
  BY <1>3, <1>4

\* The credential named is a new one of the relying party at the head.
LEMMA CredTaken ==
  ASSUME auth \in Auth, NEW k \in Calls, k.op \in Requests, Asked(k),
         k.pc \in {"credBegin", "credNext"}, Listing(k, auth), NEW r, Exchanged(k, r), r.st = "ok",
         r.item # NoRp, ~k.crossed
  PROVE  /\ r.auth.creds = auth.creds
         /\ r.item \in auth.creds /\ r.item \notin Listed(k) /\ RpOf[r.item] = Head(k.rps)
         /\ \A i \in DOMAIN k.out : k.out[i].rp \notin Elements(Tail(k.rps))
         /\ r.auth.cursor.kind = "cred" /\ r.item \notin r.auth.cursor.left
         /\ IsFiniteSet(r.auth.cursor.left) /\ r.auth.cursor.left \subseteq auth.creds
         /\ Listed(k) \cap r.auth.cursor.left = {}
         /\ \A x \in r.auth.cursor.left : RpOf[x] = Head(k.rps)
         /\ \A x \in auth.creds : RpOf[x] = Head(k.rps) =>
              x \in Listed(k) \cup {r.item} \cup r.auth.cursor.left
         /\ (IF k.pc = "credBegin" THEN remaining(r.total) ELSE k.left - 1)
              = Cardinality(r.auth.cursor.left)
<1>1. k.op.kind = "List"
  BY DEF Asked, UnderWay, Fits, Enumerating
<1>2. r.auth.creds = auth.creds
  BY DEF Exchanged, Tells, Enumerating, Changes
<1>3. auth.creds \in SUBSET Credentials /\ k.rps \in Seq(Rps(Credentials))
  BY DEF Auth, Calls
<1>4. IsFiniteSet(auth.creds)
  BY <1>3, FiniteCreds
<1>5. k.rps # <<>> /\ Distinct(k.rps) /\ Sound(k)
  BY <1>1 DEF Listing, Exact, Lists
<1>6. Elements(k.rps) = {Head(k.rps)} \cup Elements(Tail(k.rps))
  BY <1>3, <1>5, TailFacts
<1>7. CASE k.pc = "credBegin"
  <2> DEFINE mine == {x \in auth.creds : RpOf[x] = Head(k.rps)}
  <2>1. \A i \in DOMAIN k.out : k.out[i].rp \notin Elements(k.rps)
    BY <1>1, <1>7 DEF Listing, Exact, Lists
  <2>2. \A x \in Listed(k) : RpOf[x] # Head(k.rps)
    BY <1>5, <1>6, <2>1, ZenonT(40) DEF Listed, Sound
  <2>3. Opens(r, "cred", mine)
    BY <1>7 DEF Exchanged, Tells, Begins
  <2>4. /\ r.item \in mine /\ r.auth.cursor.kind = "cred"
        /\ r.auth.cursor.left = mine \ {r.item}
        /\ remaining(r.total) = Cardinality(r.auth.cursor.left)
    BY <2>3, SMT DEF Opens
  <2>5. IsFiniteSet(r.auth.cursor.left)
    BY <1>4, <2>4, FS_Subset
  <2> QED
    BY <1>2, <1>6, <1>7, <2>1, <2>2, <2>4, <2>5
<1>8. CASE k.pc = "credNext"
  <2>1. /\ \A i \in DOMAIN k.out : k.out[i].rp \notin Elements(Tail(k.rps))
        /\ CredsOpen(k, auth)
    BY <1>1, <1>8 DEF Listing, Exact, Lists
  <2>2. /\ auth.cursor.kind = "cred" /\ r.item \in auth.cursor.left
        /\ r.auth.cursor.kind = "cred" /\ r.auth.cursor.left = auth.cursor.left \ {r.item}
    <3>1. Goes(r, "cred")
      BY <1>8 DEF Exchanged, Tells
    <3> QED
      BY <3>1, SMT DEF Goes
  <2>3. /\ k.left = Cardinality(auth.cursor.left)
        /\ Listed(k) \cap auth.cursor.left = {}
        /\ auth.cursor.left \subseteq auth.creds
        /\ \A x \in auth.cursor.left : RpOf[x] = Head(k.rps)
        /\ \A x \in auth.creds : RpOf[x] = Head(k.rps) => x \in Listed(k) \cup auth.cursor.left
    BY <2>1, <2>2 DEF CredsOpen
  <2>4. IsFiniteSet(auth.cursor.left)
    BY <1>4, <2>3, FS_Subset
  <2>5. /\ IsFiniteSet(r.auth.cursor.left)
        /\ Cardinality(r.auth.cursor.left) = Cardinality(auth.cursor.left) - 1
    BY <2>2, <2>4, FS_RemoveElement, ZenonT(40)
  <2> QED
    BY <1>2, <1>8, <2>1, <2>2, <2>3, <2>5
<1> QED
  BY <1>7, <1>8

\* A listing takes a credential, and is on its way again, goes on to the next relying
\* party, or is complete.
LEMMA CredFacts ==
  ASSUME auth \in Auth, CursorInv(auth), NEW k \in Calls, k.op \in Requests, Asked(k),
         k.pc \in {"credBegin", "credNext"}, Listing(k, auth), Watched(k, auth), NEW r,
         Exchanged(k, r), r.st = "ok"
  PROVE  Continued(k, r, Continue(k, r)) /\ Listing(Continue(k, r), r.auth)
<1> DEFINE n == Continue(k, r)
           item == [rp |-> Head(k.rps), cred |-> r.item]
           out == Append(k.out, item)
           left == IF k.pc = "credBegin" THEN remaining(r.total) ELSE k.left - 1
           got == [k EXCEPT !.out = out, !.left = left]
           rest == [got EXCEPT !.rps = Tail(@)]
<1>1. /\ k.op.kind = "List" /\ k.held \subseteq auth.creds /\ auth.creds \subseteq k.seen
      /\ k.rps # <<>> /\ Listed(k) \subseteq k.seen
  BY DEF Asked, UnderWay, Fits, Enumerating, Watched, Listing, Lists
<1>2. n = IF r.item = NoRp THEN Fail(k)
          ELSE IF got.left > 0 THEN Goto(got, "credNext") ELSE nextRelyingParty(rest)
  BY DEF Continue, enumerateCredentials, discoverableCredentialFromResponse
<1> HIDE DEF n
<1>3. CASE r.item = NoRp
  <2>1. Same(k, n) /\ n.pc = "done" /\ n.ok = FALSE
    BY <1>2, <1>3, FailFacts
  <2> QED
    BY <1>1, <2>1 DEF Continued, Listing, Exact, Early, Changing, n
<1>4. CASE r.item # NoRp
  <2>1. r.item \in auth.creds
    BY <1>4, CredNamed, SMT
  <2>2. /\ k.rps \in Seq(Rps(Credentials))
        /\ k.out \in Seq([rp : Rps(Credentials), cred : Credentials])
        /\ auth.creds \in SUBSET Credentials
    BY DEF Calls, Auth
  <2>3. /\ Head(k.rps) \in Rps(Credentials) /\ Tail(k.rps) \in Seq(Rps(Credentials))
        /\ Elements(k.rps) = {Head(k.rps)} \cup Elements(Tail(k.rps))
        /\ Distinct(k.rps) => Distinct(Tail(k.rps)) /\ Head(k.rps) \notin Elements(Tail(k.rps))
    BY <1>1, <2>2, TailFacts
  <2>4. /\ item \in [rp : Rps(Credentials), cred : Credentials]
        /\ item.rp = Head(k.rps) /\ item.cred = r.item
    BY <2>1, <2>2, <2>3
  <2> HIDE DEF item
  <2>5. out \in Seq([rp : Rps(Credentials), cred : Credentials])
    BY <2>2, <2>4, AppendFacts
  <2>6. left \in Int
    BY LeftFacts DEF Exchanged
  <2>7. Same(k, got) /\ got.out = out /\ got.left = left /\ got.rps = k.rps /\ got.crossed = k.crossed
    <3> HIDE DEF out, left
    <3>1. got \in Calls
      BY <2>5, <2>6 DEF Calls
    <3> QED
      BY <3>1 DEF Same, Calls
  <2>8. got \in Calls /\ "credNext" \in Pcs /\ "credBegin" \in Pcs
    BY <2>7 DEF Same, Pcs, Enumerating
  <2>9. /\ Same(k, rest) /\ rest.out = out /\ rest.rps = Tail(k.rps) /\ rest \in Calls
        /\ rest.crossed = k.crossed
    <3> HIDE DEF got
    <3>1. rest \in Calls
      BY <2>3, <2>7, <2>8 DEF Calls
    <3> HIDE DEF out
    <3> QED
      BY <2>7, <2>8, <3>1 DEF Same, Calls
  <2>10. ASSUME NEW m, m.out = out, m.seen = k.seen
         PROVE  /\ Listed(m) = Listed(k) \cup {r.item} /\ Len(m.out) = Len(k.out) + 1
                /\ \A i \in DOMAIN m.out : m.out[i] = item \/ (i \in DOMAIN k.out /\ m.out[i] = k.out[i])
                /\ Listed(m) \subseteq m.seen
    <3>1. /\ Listed(m) = Listed(k) \cup {r.item} /\ Len(m.out) = Len(k.out) + 1
          /\ \A i \in DOMAIN m.out : m.out[i] = item \/ (i \in DOMAIN k.out /\ m.out[i] = k.out[i])
      BY <2>4, <2>10, ListedAppend, SMT
    <3> QED
      BY <1>1, <2>1, <2>10, <3>1
  <2> HIDE DEF got, rest
  <2>11. ASSUME ~k.crossed
         PROVE  /\ r.auth.creds = auth.creds /\ Distinct(k.rps) /\ Sound(k) /\ Covered(k)
                /\ r.item \notin Listed(k) /\ RpOf[r.item] = Head(k.rps)
                /\ \A i \in DOMAIN k.out : k.out[i].rp \notin Elements(Tail(k.rps))
                /\ r.auth.cursor.kind = "cred" /\ r.item \notin r.auth.cursor.left
                /\ IsFiniteSet(r.auth.cursor.left) /\ r.auth.cursor.left \subseteq auth.creds
                /\ Listed(k) \cap r.auth.cursor.left = {}
                /\ \A x \in r.auth.cursor.left : RpOf[x] = Head(k.rps)
                /\ \A x \in auth.creds : RpOf[x] = Head(k.rps) =>
                     x \in Listed(k) \cup {r.item} \cup r.auth.cursor.left
                /\ left = Cardinality(r.auth.cursor.left)
    <3>1. Distinct(k.rps) /\ Sound(k) /\ Covered(k)
      BY <1>1, <2>11 DEF Listing, Exact, Lists
    <3> QED
      BY <1>4, <2>11, <3>1, CredTaken
  <2> HIDE DEF left
  <2>12. ASSUME ~k.crossed, NEW m, m.out = out, m.seen = k.seen
         PROVE  Sound(m) /\ \A i \in DOMAIN m.out : m.out[i].rp \notin Elements(Tail(k.rps))
    <3>1. /\ Listed(m) = Listed(k) \cup {r.item} /\ Len(m.out) = Len(k.out) + 1
          /\ \A i \in DOMAIN m.out : m.out[i] = item \/ (i \in DOMAIN k.out /\ m.out[i] = k.out[i])
      BY <2>10, <2>12
    <3>2. /\ IsFiniteSet(Listed(k)) /\ Cardinality(Listed(k)) = Len(k.out)
          /\ \A i \in DOMAIN k.out : k.out[i].rp = RpOf[k.out[i].cred]
      BY <2>11, <2>12 DEF Sound
    <3>3. IsFiniteSet(Listed(m)) /\ Cardinality(Listed(m)) = Cardinality(Listed(k)) + 1
      <4>1. IsFiniteSet(Listed(k)) /\ r.item \notin Listed(k)
        BY <2>11, <2>12, <3>2
      <4>2. /\ IsFiniteSet(Listed(k) \cup {r.item})
            /\ Cardinality(Listed(k) \cup {r.item}) = Cardinality(Listed(k)) + 1
        BY <4>1, FS_AddElement
      <4> QED
        BY <3>1, <4>2
    <3>4. RpOf[r.item] = Head(k.rps) /\ Head(k.rps) \notin Elements(Tail(k.rps))
          /\ \A i \in DOMAIN k.out : k.out[i].rp \notin Elements(Tail(k.rps))
      BY <2>3, <2>11, <2>12
    <3>5. \A i \in DOMAIN m.out : m.out[i].rp = RpOf[m.out[i].cred]
      BY <2>4, <3>1, <3>2, <3>4
    <3>6. \A i \in DOMAIN m.out : m.out[i].rp \notin Elements(Tail(k.rps))
      BY <2>4, <3>1, <3>4, ZenonT(40)
    <3> QED
      BY <3>1, <3>2, <3>3, <3>5, <3>6 DEF Sound
  <2>13. CASE left > 0
    <3>1. n = Goto(got, "credNext")
      BY <1>2, <1>4, <2>7, <2>13
    <3>2. Same(got, n) /\ SameLists(got, n) /\ n.pc = "credNext" /\ n.left = left
      BY <2>7, <2>8, <3>1, GotoFacts
    <3>3. /\ Same(k, n) /\ n.rps = k.rps /\ n.out = out /\ n.op.kind = "List"
          /\ n.seen = k.seen /\ n.held = k.held /\ n.crossed = k.crossed
      BY <1>1, <2>7, <3>2 DEF Same, SameLists
    <3>4. Listed(n) = Listed(k) \cup {r.item} /\ Listed(n) \subseteq n.seen
      BY <2>10, <3>3
    <3>5. ASSUME ~n.crossed PROVE Exact(n, r.auth)
      <4>1. ~k.crossed
        BY <3>3, <3>5
      <4>2. Sound(n) /\ \A i \in DOMAIN n.out : n.out[i].rp \notin Elements(Tail(n.rps))
        BY <2>12, <3>3, <4>1
      <4>3. CredsOpen(n, r.auth)
        BY <2>11, <3>2, <3>3, <3>4, <4>1 DEF CredsOpen
      <4>4. Covered(n) /\ Distinct(n.rps)
        BY <2>11, <3>3, <3>4, <4>1 DEF Covered
      <4> QED
        BY <3>2, <4>2, <4>3, <4>4 DEF Exact
    <3>6. Listing(n, r.auth)
      BY <1>1, <3>2, <3>3, <3>4, <3>5 DEF Listing, Early
    <3> QED
      BY <1>1, <3>2, <3>3, <3>6 DEF Continued, Fits, Early, Changing, Enumerating, n
  <2>14. CASE ~(left > 0)
    <3>1. n = nextRelyingParty(rest)
      BY <1>2, <1>4, <2>7, <2>14
    <3>2. \/ Tail(k.rps) = <<>> /\ n = Return(rest, TRUE)
          \/ Tail(k.rps) # <<>> /\ n = Goto(rest, "credBegin")
      BY <2>9, <3>1 DEF nextRelyingParty
    <3>3. /\ Same(rest, n) /\ SameLists(rest, n)
          /\ \/ Tail(k.rps) = <<>> /\ n.pc = "done" /\ n.ok = TRUE
             \/ Tail(k.rps) # <<>> /\ n.pc = "credBegin"
      <4>1. CASE Tail(k.rps) = <<>> /\ n = Return(rest, TRUE)
        BY <2>9, <4>1, ReturnFacts
      <4>2. CASE Tail(k.rps) # <<>> /\ n = Goto(rest, "credBegin")
        BY <2>8, <2>9, <4>2, GotoFacts
      <4> QED
        BY <3>2, <4>1, <4>2
    <3>4. /\ Same(k, n) /\ n.rps = Tail(k.rps) /\ n.out = out /\ n.op.kind = "List"
          /\ n.seen = k.seen /\ n.held = k.held /\ n.crossed = k.crossed
      BY <1>1, <2>9, <3>3 DEF Same, SameLists
    <3>5. Listed(n) = Listed(k) \cup {r.item} /\ Listed(n) \subseteq n.seen
      BY <2>10, <3>4
    <3>6. ASSUME ~n.crossed PROVE Exact(n, r.auth)
      <4>1. ~k.crossed
        BY <3>4, <3>6
      <4>2. Sound(n) /\ \A i \in DOMAIN n.out : n.out[i].rp \notin Elements(n.rps)
        BY <2>12, <3>4, <4>1
      <4>3. r.auth.cursor.left = {}
        <5>1. IsFiniteSet(r.auth.cursor.left) /\ left = Cardinality(r.auth.cursor.left)
          BY <2>11, <4>1
        <5>2. left = 0
          <6>1. left \in Nat
            BY <5>1, FS_CardinalityType, SMT
          <6> QED
            BY <2>14, <6>1, SMT
        <5> QED
          BY <5>1, <5>2, FS_EmptySet
      <4>4. Covered(n) /\ Distinct(n.rps)
        BY <1>1, <2>3, <2>11, <3>4, <3>5, <4>1, <4>3 DEF Covered
      <4>5. Tail(k.rps) = <<>> => n.held \subseteq Listed(n)
        BY <3>4, <4>4, EmptyFacts DEF Covered
      <4> QED
        BY <3>3, <4>2, <4>4, <4>5 DEF Exact
    <3>7. Listing(n, r.auth)
      BY <3>3, <3>4, <3>5, <3>6 DEF Listing, Early
    <3> QED
      BY <1>1, <3>3, <3>4, <3>7 DEF Continued, Fits, Early, Changing, Enumerating, n
  <2> QED
    BY <2>13, <2>14
<1> QED
  BY <1>3, <1>4

\* What Continue makes of any answer.
LEMMA ContinueFacts ==
  ASSUME auth \in Auth, CursorInv(auth), NEW k \in Calls, k.op \in Requests, Asked(k),
         k.pc \notin Early \cup {"done"}, Listing(k, auth), Watched(k, auth), NEW r, Exchanged(k, r)
  PROVE  Continued(k, r, Continue(k, r)) /\ Listing(Continue(k, r), r.auth)
<1> DEFINE n == Continue(k, r)
<1>1. r \in Reply
  BY DEF Exchanged
<1>2. CASE r.st # "ok"
  <2>1. Continued(k, r, n) /\ ListGivenUp(n)
    BY <1>1, <1>2, RefusedFacts
  <2> HIDE DEF n
  <2>2. Listing(n, r.auth)
    BY <2>1 DEF ListGivenUp, Listing, Exact, Early
  <2> QED
    BY <2>1, <2>2 DEF n
<1>3. CASE r.st = "ok" /\ k.pc \in {"key", "token"}
  <2>1. Continued(k, r, n) /\ (k.op.kind = "List" => ListKept(k, n))
    BY <1>1, <1>3, KeyTokenFacts
  <2> HIDE DEF n
  <2>2. n.op = k.op
    BY <2>1 DEF Continued, Same
  <2>3. k.op.kind = "List" => k.rps = <<>> /\ k.out = <<>>
    BY <1>3 DEF Listing, Lists
  <2>4. Listing(n, r.auth)
    BY <2>1, <2>2, <2>3 DEF ListKept, Listing, Exact, Lists, Early
  <2> QED
    BY <2>1, <2>4 DEF n
<1>4. CASE r.st = "ok" /\ k.pc \in {"set", "change", "delete", "make", "assert", "reset", "u2f", "retries"}
  <2>1. Continued(k, r, n) /\ k.op.kind # "List"
    BY <1>1, <1>4, FinalFacts
  <2> HIDE DEF n
  <2>2. Listing(n, r.auth)
    BY <2>1 DEF Continued, Same, Listing, Lists
  <2> QED
    BY <2>1, <2>2 DEF n
<1>5. CASE r.st = "ok" /\ k.pc = "metadata"
  BY <1>5, MetadataFacts
<1>6. CASE r.st = "ok" /\ k.pc \in {"rpBegin", "rpNext"}
  BY <1>6, RpFacts
<1>7. CASE r.st = "ok" /\ k.pc \in {"credBegin", "credNext"}
  BY <1>7, CredFacts
<1>8. k.pc \in Pcs
  BY DEF Calls
<1> QED
  BY <1>2, <1>3, <1>4, <1>5, <1>6, <1>7, <1>8 DEF Pcs, Early, Enumerating

-----------------------------------------------------------------------------
(* What a step leaves of the invariant of a call.                          *)

\* A call of which only what is recorded about the device differs.
Observed(k, n) ==
  /\ n \in Calls
  /\ n.op = k.op /\ n.pc = k.pc /\ n.info = k.info /\ n.rps = k.rps /\ n.left = k.left
  /\ n.out = k.out /\ n.ok = k.ok /\ n.crossed = k.crossed
  /\ n.held \subseteq k.held /\ k.seen \subseteq n.seen

\* Observe records which credentials the device has, and changes nothing else of a call.
LEMMA ObserveFacts ==
  ASSUME NEW k \in Calls, NEW a \in Auth
  PROVE  /\ Observed(k, Observe(k, a)) /\ Observe(k, a).spent = k.spent
         /\ Observe(k, a).applied = k.applied /\ Observe(k, a).lost = k.lost
         /\ Watched(Observe(k, a), a)
<1>1. a.creds \in SUBSET Credentials
  BY DEF Auth
<1>2. Observe(k, a) \in Calls
  BY <1>1 DEF Observe, Calls
<1>3. Observe(k, a).held = k.held \cap a.creds /\ Observe(k, a).seen = k.seen \cup a.creds
  BY DEF Observe, Calls
<1> QED
  BY <1>2, <1>3 DEF Observed, Watched, Observe, Calls

\* A listing is none the worse for what others did meanwhile.
LEMMA ObservedListing ==
  ASSUME NEW k, NEW n, NEW a, Observed(k, n), Listing(k, a)
  PROVE  Listing(n, a)
<1> SUFFICES ASSUME Lists(n) PROVE Listing(n, a)
  BY DEF Listing
<1>1. Lists(k) /\ Listed(n) = Listed(k)
  BY DEF Observed, Lists, Listed
<1>2. Sound(k) => Sound(n)
  BY <1>1 DEF Observed, Sound
<1>3. Covered(k) => Covered(n)
  BY <1>1 DEF Observed, Covered
<1>4. k.held \subseteq Listed(k) => n.held \subseteq Listed(n)
  BY <1>1 DEF Observed
<1>5. (RpsOpen(k, a) => RpsOpen(n, a)) /\ (CredsOpen(k, a) => CredsOpen(n, a))
  BY <1>1 DEF Observed, RpsOpen, CredsOpen
<1>6. Exact(k, a) => Exact(n, a)
  BY <1>2, <1>3, <1>4, <1>5 DEF Observed, Exact
<1> QED
  BY <1>1, <1>6 DEF Observed, Listing

\* An exchange of another call closes the enumeration.
LEMMA SettledListing ==
  ASSUME NEW k, NEW a, NEW b, Listing(k, a), b.cursor = NoCursor
  PROVE  Listing(k, b)
<1>1. b.cursor.kind = "none"
  BY SMT DEF NoCursor
<1>2. RpsOpen(k, b) /\ CredsOpen(k, b)
  BY <1>1 DEF RpsOpen, CredsOpen
<1>3. Exact(k, a) => Exact(k, b)
  BY <1>2 DEF Exact
<1> QED
  BY <1>3 DEF Listing

\* An exchange that only ends the enumeration keeps the invariant of every call.
LEMMA SettledOwn ==
  ASSUME auth \in Auth, NEW k, Own(k, auth)
  PROVE  Own(k, Settled(auth))
<1>1. Settled(auth).cursor = NoCursor /\ Settled(auth).creds = auth.creds
  BY SettledFacts
<1>2. Listing(k, Settled(auth))
  BY <1>1, SettledListing DEF Own
<1> QED
  BY <1>1, <1>2 DEF Own, Watched

\* From the lock to the first exchange of the operation.
Moved(k, n) ==
  /\ n \in Calls
  /\ n.op = k.op /\ n.spent = k.spent /\ n.applied = k.applied /\ n.lost = k.lost
  /\ n.held = k.held /\ n.seen = k.seen /\ n.rps = k.rps /\ n.out = k.out
  /\ \/ n.pc \in {"probe2", "probe1"}
     \/ k.op.kind \in Changing \cup {"List", "Register", "Authenticate"} /\ n.pc = "key"
     \/ n.pc = "done" /\ n.ok = FALSE
     \/ k.op.kind \notin Changing \cup {"List"} /\ n.pc \in {"done", "retries", "reset", "assert", "u2f"}
     \/ k.op.kind = "Register" /\ n.pc = "make"

\* So does the code before the first exchange.
LEMMA MovedOwn ==
  ASSUME NEW k, NEW n, NEW a, Moved(k, n), Own(k, a), k.pc \in {"caps", "probe2", "probe1"}
  PROVE  Own(n, a)
<1>1. Asked(n)
  BY DEF Moved, Own, Asked, UnderWay, Fits, Changing, Enumerating
<1>2. Attempts(n)
  BY DEF Moved, Own, Attempts
<1>3. Reports(n)
  BY DEF Moved, Own, Reports, Changing
<1>4. Watched(n, a)
  BY DEF Moved, Own, Watched, UnderWay
<1>5. Listing(n, a)
  <2>1. CASE n.op.kind # "List"
    BY <2>1 DEF Listing, Lists
  <2>2. CASE n.op.kind = "List"
    <3>1. k.rps = <<>> /\ k.out = <<>>
      BY <2>2 DEF Moved, Own, Listing, Lists, Early
    <3>2. n.rps = <<>> /\ n.out = <<>> /\ (n.pc \in {"probe2", "probe1", "key"} \/ (n.pc = "done" /\ n.ok = FALSE))
      BY <2>2, <3>1 DEF Moved, Changing
    <3> QED
      BY <3>2 DEF Listing, Exact, Early
  <2> QED
    BY <2>1, <2>2
<1> QED
  BY <1>1, <1>2, <1>3, <1>4, <1>5 DEF Own

\* A call remembers the capabilities it was given.
LEMMA InfoFacts ==
  ASSUME NEW k \in Calls, NEW i \in Seq(InfoRecords) \cup Seq(ProbedRecords)
  PROVE  LET m == [k EXCEPT !.info = i]
         IN  /\ m \in Calls /\ m.info = i /\ m.op = k.op /\ m.pc = k.pc /\ m.spent = k.spent
             /\ m.applied = k.applied /\ m.lost = k.lost /\ m.held = k.held /\ m.seen = k.seen
             /\ m.rps = k.rps /\ m.out = k.out /\ m.ok = k.ok
BY DEF Calls

\* The step of one call that leaves the PIN and the credentials alone.
LEMMA OneMoves ==
  ASSUME ClientInv, NEW c \in Callers, NEW n, call' = [call EXCEPT ![c] = n],
         auth' = auth \/ auth' = Settled(auth),
         n \in Calls, Own(n, auth'), Probes(c)',
         \A d \in Callers \ {c} : Probes(d)',
         UNCHANGED profile, faults' \in Nat, caps' \in Seq(ProbedRecords)
  PROVE  ClientInv'
<1>1. call \in [Callers -> Calls] /\ auth \in Auth
  BY DEF ClientInv, Typed
<1>2. call'[c] = n /\ \A d \in Callers \ {c} : call'[d] = call[d]
  BY <1>1
<1>3. auth' \in Auth
  BY <1>1, SettledFacts
<1>4. Typed'
  BY <1>1, <1>3 DEF ClientInv, Typed
<1>5. CursorInv(auth')
  <2>1. CASE auth' = auth
    BY <2>1 DEF ClientInv
  <2>2. CASE auth' = Settled(auth)
    <3>1. auth'.cursor.kind = "none"
      BY <1>1, <2>2, SettledFacts, SMT DEF NoCursor
    <3> QED
      BY <3>1 DEF CursorInv
  <2> QED
    BY <2>1, <2>2
<1>6. ASSUME NEW d \in Callers \ {c} PROVE CallInv(d)'
  <2>1. Own(call[d], auth)
    BY DEF ClientInv, CallInv
  <2>2. Own(call[d], auth')
    BY <1>1, <2>1, SettledOwn
  <2> QED
    BY <1>2, <2>2 DEF CallInv
<1>7. CallInv(c)'
  BY <1>2 DEF CallInv
<1> QED
  BY <1>4, <1>5, <1>6, <1>7 DEF ClientInv

-----------------------------------------------------------------------------
(* The steps.                                                              *)

\* A caller that has not called yet.
LEMMA NoCallFacts == NoCall \in Calls
BY SMT DEF NoCall, Calls, Pcs, Early

\* Initially.
LEMMA InitInv == Init => ClientInv
<1> SUFFICES ASSUME Init PROVE ClientInv
  OBVIOUS
<1> DEFINE stored == {x \in Credentials : \A r \in Requests : r.kind = "Register" => r.cred # x}
<1>1. PICK pin \in {NoPin} \cup {r.pin : r \in Requests} :
         auth = [pin |-> pin, retries |-> maxRetries, token |-> [by |-> Nobody, perm |-> "any"],
                 creds |-> stored, cursor |-> NoCursor]
  BY DEF Init
<1>2. auth \in Auth
  <2>1. /\ pin \in Pins /\ maxRetries \in 0 .. maxRetries /\ stored \in SUBSET Credentials
        /\ [by |-> Nobody, perm |-> "any"] \in
             [by : Callers \cup {Nobody}, perm : {"any", "cm", "mc", "ga"}]
        /\ NoCursor \in [kind : {"none", "rp", "cred"}, left : SUBSET Items]
    BY AuthenticatorAssumption, SMT DEF Pins, NoCursor
  <2> HIDE DEF stored
  <2> QED
    BY <1>1, <2>1 DEF Auth
<1>3. Typed
  BY <1>2, NoCallFacts, SMT DEF Init, Typed
<1>4. \A c \in Callers : call[c].pc = "idle" /\ call[c].spent = 0 /\ call[c].op = <<>>
  BY DEF Init, NoCall
<1>5. CursorInv(auth)
  <2>1. auth.cursor.kind = "none"
    BY <1>1, SMT DEF NoCursor
  <2> QED
    BY <2>1 DEF CursorInv
<1>6. ASSUME NEW c \in Callers PROVE CallInv(c)
  <2> DEFINE k == call[c]
  <2>1. k.pc = "idle" /\ k.spent = 0 /\ k.op = <<>>
    BY <1>4
  <2> HIDE DEF k
  <2>2. Attempts(k) /\ Reports(k)
    BY <2>1, SMT DEF Attempts, Reports
  <2>3. Asked(k) /\ Watched(k, auth) /\ Listing(k, auth)
    BY <2>1 DEF Asked, UnderWay, Watched, Listing, Lists
  <2>4. Own(k, auth)
    BY <2>1, <2>2, <2>3 DEF Own
  <2>5. Probes(c)
    BY <1>4 DEF Probes, Early
  <2> QED
    BY <2>4, <2>5 DEF CallInv, k
<1> QED
  BY <1>3, <1>5, <1>6 DEF ClientInv

\* A call begins, and is refused at once or asks for the capabilities.
LEMMA BeginStep ==
  ASSUME ClientInv, NEW c \in Callers, NEW op \in Requests, Begin(c, op)
  PROVE  ClientInv'
<1> DEFINE k == [NoCall EXCEPT !.op = op, !.held = auth.creds, !.seen = auth.creds]
           n == IF RefusedAtOnce(op) THEN Fail(k) ELSE Goto(k, "caps")
<1>1. call \in [Callers -> Calls] /\ auth \in Auth
  BY DEF ClientInv, Typed
<1>2. auth.creds \in SUBSET Credentials
  BY <1>1 DEF Auth
<1>3. /\ k \in Calls /\ k.op = op /\ k.held = auth.creds /\ k.seen = auth.creds /\ k.spent = 0
      /\ k.applied = 0 /\ k.info = <<>> /\ k.rps = <<>> /\ k.out = <<>>
  <2>1. k \in Calls
    BY <1>2, NoCallFacts DEF Calls
  <2> QED
    BY <2>1 DEF NoCall
<1> HIDE DEF k
<1>4. call' = [call EXCEPT ![c] = n]
  BY DEF Begin, k
<1>5. /\ n \in Calls /\ n.op = op /\ n.spent = 0 /\ n.applied = 0 /\ n.info = <<>>
      /\ n.held = auth.creds /\ n.seen = auth.creds /\ n.rps = <<>> /\ n.out = <<>>
      /\ \/ n.pc = "caps" /\ ~RefusedAtOnce(op)
         \/ n.pc = "done" /\ n.ok = FALSE
  <2>1. CASE RefusedAtOnce(op)
    <3>1. Same(k, n) /\ SameLists(k, n) /\ n.pc = "done" /\ n.ok = FALSE
      BY <1>3, <2>1, FailFacts
    <3> HIDE DEF n
    <3> QED
      BY <1>3, <3>1 DEF Same, SameLists
  <2>2. CASE ~RefusedAtOnce(op)
    <3>1. Same(k, n) /\ SameLists(k, n) /\ n.pc = "caps"
      BY <1>3, <2>2, GotoFacts DEF Pcs, Early
    <3> HIDE DEF n
    <3> QED
      BY <1>3, <2>2, <3>1 DEF Same, SameLists
  <2> QED
    BY <2>1, <2>2
<1> HIDE DEF n
<1>6. Own(n, auth)
  <2>1. Asked(n)
    BY <1>5 DEF Asked, UnderWay, Fits, Enumerating
  <2>2. Attempts(n) /\ Reports(n)
    BY <1>5, SMT DEF Attempts, Reports
  <2>3. Watched(n, auth)
    BY <1>5 DEF Watched
  <2>4. Listing(n, auth)
    BY <1>5 DEF Listing, Exact, Early
  <2> QED
    BY <2>1, <2>2, <2>3, <2>4 DEF Own
<1>7. call'[c] = n /\ \A d \in Callers \ {c} : call'[d] = call[d]
  BY <1>1, <1>4
<1>8. UNCHANGED <<profile, auth, caps, capsMu, faults>>
  BY DEF Begin
<1>9. Typed'
  BY <1>1, <1>4, <1>5, <1>8 DEF ClientInv, Typed
<1>10. CursorInv(auth')
  BY <1>8 DEF ClientInv
<1>11. ASSUME NEW d \in Callers PROVE CallInv(d)'
  <2>1. CASE d = c
    <3>1. Probes(c)'
      BY <1>5, <1>7 DEF Probes, Early
    <3> QED
      BY <1>6, <1>7, <1>8, <2>1, <3>1 DEF CallInv
  <2>2. CASE d # c
    BY <1>7, <1>8, <2>2 DEF ClientInv, CallInv, Probes
  <2> QED
    BY <2>1, <2>2
<1> QED
  BY <1>9, <1>10, <1>11 DEF ClientInv

\* Dispatch, with the capabilities the call has got.
LEMMA DispatchMoves ==
  ASSUME NEW k \in Calls, k.op \in Requests, NEW i \in Seq(ProbedRecords), NEW probed
  PROVE  /\ Moved(k, Dispatch([k EXCEPT !.info = i], probed))
         /\ Dispatch([k EXCEPT !.info = i], probed).info = i
         /\ Dispatch([k EXCEPT !.info = i], probed).pc \notin Early
<1> DEFINE m == [k EXCEPT !.info = i]
           n == Dispatch(m, probed)
<1>1. /\ m \in Calls /\ m.info = i /\ m.op = k.op /\ m.pc = k.pc /\ m.spent = k.spent
      /\ m.applied = k.applied /\ m.lost = k.lost /\ m.held = k.held /\ m.seen = k.seen
      /\ m.rps = k.rps /\ m.out = k.out
  BY InfoFacts
<1> HIDE DEF m
<1>2. Dispatched(m, n)
  BY <1>1, DispatchFacts
<1> HIDE DEF n
<1>3. Moved(k, n)
  BY <1>1, <1>2 DEF Dispatched, Same, SameLists, Moved
<1>4. n.info = i /\ n.pc \notin Early
  BY <1>1, <1>2 DEF Dispatched, Same, Early
<1> QED
  BY <1>3, <1>4 DEF n, m

\* A call gets the lock: it finds the capabilities, or probes.
LEMMA LockStep ==
  ASSUME ClientInv, NEW c \in Callers, LockCapabilities(c)
  PROVE  ClientInv'
<1> DEFINE k == call[c]
           got == Dispatch([k EXCEPT !.info = caps], caps[1])
<1>1. /\ call \in [Callers -> Calls] /\ k \in Calls /\ caps \in Seq(ProbedRecords) /\ faults \in Nat
      /\ k.pc = "caps" /\ capsMu = Nobody /\ Own(k, auth) /\ k.op \in Requests
      /\ UNCHANGED <<profile, auth, caps, faults>>
  BY DEF ClientInv, Typed, CallInv, LockCapabilities, Own, Asked
<1>2. \A d \in Callers : call[d].pc \notin {"probe2", "probe1"}
  BY <1>1, ClientAssumption DEF ClientInv, CallInv, Probes
<1>3. CASE caps # <<>>
  <2>1. call' = [call EXCEPT ![c] = got] /\ capsMu' = capsMu
    BY <1>3 DEF LockCapabilities
  <2>2. Moved(k, got) /\ got.info = caps /\ got.pc \notin Early
    BY <1>1, DispatchMoves
  <2> HIDE DEF got
  <2>3. Own(got, auth') /\ got \in Calls
    BY <1>1, <2>2, MovedOwn DEF Moved
  <2>4. call'[c] = got /\ \A d \in Callers \ {c} : call'[d] = call[d]
    BY <1>1, <2>1
  <2>5. Probes(c)'
    BY <1>1, <2>2, <2>4 DEF Probes, Early
  <2>6. \A d \in Callers \ {c} : Probes(d)'
    BY <1>1, <2>1, <2>4 DEF ClientInv, CallInv, Probes
  <2> HIDE DEF k
  <2> QED
    BY <1>1, <2>1, <2>3, <2>5, <2>6, OneMoves
<1>4. CASE caps = <<>>
  <2> DEFINE n == Goto(k, "probe2")
  <2>1. call' = [call EXCEPT ![c] = n] /\ capsMu' = c
    BY <1>4 DEF LockCapabilities
  <2>2. Same(k, n) /\ SameLists(k, n) /\ n.pc = "probe2"
    BY <1>1, GotoFacts DEF Pcs, Early
  <2> HIDE DEF n
  <2>3. Moved(k, n)
    BY <2>2 DEF Same, SameLists, Moved
  <2>4. Own(n, auth') /\ n \in Calls
    BY <1>1, <2>3, MovedOwn DEF Moved
  <2>5. call'[c] = n /\ \A d \in Callers \ {c} : call'[d] = call[d]
    BY <1>1, <2>1
  <2>6. Probes(c)'
    BY <1>1, <1>4, <2>1, <2>2, <2>5 DEF Probes, Early
  <2>7. \A d \in Callers \ {c} : Probes(d)'
    BY <1>1, <1>2, <2>5 DEF ClientInv, CallInv, Probes
  <2> HIDE DEF k
  <2> QED
    BY <1>1, <2>1, <2>4, <2>6, <2>7, OneMoves
<1> QED
  BY <1>3, <1>4

\* A failed exchange is counted.
LEMMA FaultFacts ==
  ASSUME faults \in Nat, NEW failed, Fault(failed)
  PROVE  faults' \in Nat
BY SMT DEF Fault

\* The answer to getInfo.
LEMMA GetInfoFacts ==
  ASSUME profile \in Profiles
  PROVE  GetInfo \in InfoRecords
BY DEF GetInfo, InfoRecords

\* The probe of CTAP2.
LEMMA ProbeCTAP2Step ==
  ASSUME ClientInv, NEW c \in Callers, NEW failed \in BOOLEAN, ProbeCTAP2(c, failed)
  PROVE  ClientInv'
<1> DEFINE k == call[c]
           i == IF profile.ctap2 /\ ~failed THEN <<GetInfo>> ELSE <<>>
           g == Goto(k, "probe1")
           n == [g EXCEPT !.info = i]
<1>1. /\ call \in [Callers -> Calls] /\ k \in Calls /\ caps \in Seq(ProbedRecords)
      /\ k.pc = "probe2" /\ capsMu = c /\ caps = <<>> /\ Own(k, auth) /\ k.op \in Requests
      /\ UNCHANGED <<profile, caps, capsMu>> /\ auth \in Auth /\ auth' = Settled(auth)
      /\ faults' \in Nat /\ call' = [call EXCEPT ![c] = n] /\ profile \in Profiles
  <2>1. faults \in Nat /\ Fault(failed)
    BY DEF ClientInv, Typed, ProbeCTAP2
  <2>2. faults' \in Nat
    BY <2>1, FaultFacts
  <2> QED
    BY <2>2 DEF ClientInv, Typed, CallInv, ProbeCTAP2, Own, Asked, Probes
<1>2. i \in Seq(InfoRecords)
  <2>1. GetInfo \in InfoRecords
    BY <1>1, GetInfoFacts
  <2> QED
    BY <2>1, SMT
<1>3. Same(k, g) /\ SameLists(k, g) /\ g.pc = "probe1" /\ g \in Calls
  BY <1>1, GotoFacts, SMT DEF Pcs, Early, Same
<1> HIDE DEF g, i
<1>4. /\ n \in Calls /\ n.info = i /\ n.op = g.op /\ n.pc = g.pc /\ n.spent = g.spent
      /\ n.applied = g.applied /\ n.lost = g.lost /\ n.held = g.held /\ n.seen = g.seen
      /\ n.rps = g.rps /\ n.out = g.out
  BY <1>2, <1>3, InfoFacts, SMT
<1> HIDE DEF n
<1>5. Moved(k, n)
  BY <1>3, <1>4 DEF Same, SameLists, Moved
<1>6. Own(n, auth) /\ n \in Calls
  BY <1>1, <1>5, MovedOwn DEF Moved
<1>7. Own(n, auth')
  BY <1>1, <1>6, SettledOwn
<1>8. call'[c] = n /\ \A d \in Callers \ {c} : call'[d] = call[d]
  BY <1>1
<1>9. Probes(c)'
  BY <1>1, <1>2, <1>3, <1>4, <1>8 DEF Probes, Early
<1>10. \A d \in Callers \ {c} : Probes(d)'
  BY <1>1, <1>8 DEF ClientInv, CallInv, Probes
<1> HIDE DEF k
<1> QED
  BY <1>1, <1>6, <1>7, <1>9, <1>10, OneMoves

\* The probe of CTAP1: the result is cached if one of the two answered, and the lock is
\* given back.
LEMMA ProbeCTAP1Step ==
  ASSUME ClientInv, NEW c \in Callers, NEW failed \in BOOLEAN, ProbeCTAP1(c, failed)
  PROVE  ClientInv'
<1> DEFINE k == call[c]
           probed == buildCapabilities(k.info, profile.ctap1 /\ ~failed)
           empty == probed.ctap2 = <<>> /\ ~probed.ctap1
           n == IF empty THEN Fail([k EXCEPT !.info = <<>>])
                         ELSE Dispatch([k EXCEPT !.info = <<probed>>], probed)
<1>1. /\ call \in [Callers -> Calls] /\ k \in Calls
      /\ k.pc = "probe1" /\ capsMu = c /\ caps = <<>> /\ Own(k, auth) /\ k.op \in Requests
      /\ k.info \in Seq(InfoRecords)
      /\ UNCHANGED profile /\ capsMu' = Nobody /\ auth \in Auth /\ auth' = Settled(auth)
      /\ faults' \in Nat
  <2>1. faults \in Nat /\ Fault(failed)
    BY DEF ClientInv, Typed, ProbeCTAP1
  <2>2. faults' \in Nat
    BY <2>1, FaultFacts
  <2> QED
    BY <2>2 DEF ClientInv, Typed, CallInv, ProbeCTAP1, Own, Asked, Probes
<1>2. probed \in ProbedRecords
  BY <1>1 DEF buildCapabilities, ProbedRecords
<1>3. /\ call' = [call EXCEPT ![c] = n]
      /\ empty => caps' = <<>>
      /\ ~empty => caps' = <<probed>>
  <2>1. CASE empty
    BY <1>1, <2>1 DEF ProbeCTAP1
  <2>2. CASE ~empty
    BY <1>1, <2>2 DEF ProbeCTAP1
  <2> QED
    BY <2>1, <2>2
<1> HIDE DEF probed
<1>4. /\ <<probed>> \in Seq(ProbedRecords) /\ <<>> \in Seq(ProbedRecords)
      /\ <<>> \in Seq(InfoRecords) \cup Seq(ProbedRecords)
  BY <1>2, SMT
<1>5. Moved(k, n) /\ n.pc \notin Early /\ (empty => n.info = <<>>) /\ (~empty => n.info = <<probed>>)
  <2>1. CASE empty
    <3> DEFINE m == [k EXCEPT !.info = <<>>]
    <3>1. /\ m \in Calls /\ m.info = <<>> /\ m.op = k.op /\ m.spent = k.spent
          /\ m.applied = k.applied /\ m.lost = k.lost /\ m.held = k.held /\ m.seen = k.seen
          /\ m.rps = k.rps /\ m.out = k.out
      BY <1>1, <1>4, InfoFacts, ZenonT(40)
    <3>2. n = Fail(m)
      BY <2>1
    <3> HIDE DEF m, n
    <3>3. Same(m, n) /\ SameLists(m, n) /\ n.pc = "done" /\ n.ok = FALSE
      BY <3>1, <3>2, FailFacts
    <3> QED
      BY <2>1, <3>1, <3>3 DEF Same, SameLists, Moved, Early
  <2>2. CASE ~empty
    <3>1. n = Dispatch([k EXCEPT !.info = <<probed>>], probed)
      BY <2>2
    <3>2. Moved(k, n) /\ n.info = <<probed>> /\ n.pc \notin Early
      <4> DEFINE i == <<probed>>
      <4>1. i \in Seq(ProbedRecords) /\ n = Dispatch([k EXCEPT !.info = i], probed)
        BY <1>4, <3>1
      <4> HIDE DEF n, empty, i
      <4>2. Moved(k, n) /\ n.info = i /\ n.pc \notin Early
        BY <1>1, <4>1, DispatchMoves, SMT
      <4> QED
        BY <4>2 DEF i
    <3> HIDE DEF n
    <3> QED
      BY <2>2, <3>2
  <2> QED
    BY <2>1, <2>2
<1> HIDE DEF n
<1>6. Own(n, auth) /\ n \in Calls
  BY <1>1, <1>5, MovedOwn DEF Moved
<1>7. Own(n, auth')
  BY <1>1, <1>6, SettledOwn
<1>8. call'[c] = n /\ \A d \in Callers \ {c} : call'[d] = call[d]
  BY <1>1, <1>3
<1>9. Probes(c)'
  BY <1>3, <1>5, <1>8 DEF Probes, Early
<1>10. \A d \in Callers \ {c} : Probes(d)'
  BY <1>1, <1>8 DEF ClientInv, CallInv, Probes
<1>11. caps' \in Seq(ProbedRecords)
  BY <1>3, <1>4
<1> HIDE DEF k, empty
<1> QED
  BY <1>1, <1>3, <1>6, <1>7, <1>9, <1>10, <1>11, OneMoves

\* A count that begins at zero.
LEMMA OneMore ==
  ASSUME NEW b, b = 0
  PROVE  b + 1 = 1 /\ b + 0 = 0
BY SMT

\* A count, and what one exchange adds to it.
LEMMA CountGrows ==
  ASSUME NEW b \in Nat, NEW p
  PROVE  b + (IF p THEN 1 ELSE 0) \in Nat
BY SMT

\* What is counted of an exchange.
LEMMA CountedOwn ==
  ASSUME auth \in Auth, NEW k \in Calls, Own(k, auth), k.pc \notin Early \cup {"done"},
         NEW r, Exchanged(k, r), NEW n, Continued(k, r, n), Listing(n, r.auth),
         NEW f, Observed(n, f), Watched(f, r.auth),
         f.lost = (n.lost \/ r.st = "lost"),
         f.spent = n.spent + (IF r.auth.retries < auth.retries THEN 1 ELSE 0),
         f.applied = n.applied + (IF k.pc \in Mutations /\ Changes(r) THEN 1 ELSE 0)
  PROVE  Own(f, r.auth)
<1>1. /\ n.op = k.op /\ n.spent = k.spent /\ n.applied = k.applied /\ n.lost = k.lost
      /\ f.op = k.op /\ f.pc = n.pc /\ f.ok = n.ok /\ k.op \in Requests /\ k.spent = 0
      /\ UnderWay(k) /\ f.pc \notin Early
  BY DEF Continued, Same, Observed, Own, Asked, Attempts, UnderWay, Early
<1>2. Asked(f)
  <2>1. ~RefusedAtOnce(k.op)
    BY <1>1 DEF Own, Asked
  <2>2. n.pc # "done" => Fits(f)
    BY DEF Continued, Observed, Fits
  <2> QED
    BY <1>1, <2>1, <2>2 DEF Asked, UnderWay
<1>3. Attempts(f)
  <2>1. CASE r.auth.retries < auth.retries
    <3>1. r.st \in {"refused", "lost"}
      BY <2>1 DEF Exchanged
    <3>2. n.pc = "done"
      BY <3>1 DEF Continued
    <3>3. f.pc = "done"
      BY <1>1, <3>2
    <3>4. f.spent = n.spent + 1
      BY <2>1
    <3>5. f.spent = 1
      BY <1>1, <3>4, OneMore
    <3> QED
      BY <3>3, <3>5, SMT DEF Attempts
  <2>2. CASE ~(r.auth.retries < auth.retries)
    <3>1. f.spent = n.spent + 0
      BY <2>2
    <3>2. f.spent = 0
      BY <1>1, <3>1, OneMore
    <3> QED
      BY <3>2, SMT DEF Attempts
  <2> QED
    BY <2>1, <2>2
<1>4. Reports(f)
  <2> SUFFICES ASSUME k.op.kind \in Changing PROVE Reports(f)
    BY <1>1 DEF Reports
  <2>1. k.applied = 0 /\ Fits(k)
    BY <1>1 DEF Own, Reports, UnderWay, Asked
  <2>2. k.pc \in Mutations => k.pc \in Final
    BY <2>1 DEF Fits, Mutations, Final, Changing
  <2>3. CASE r.st = "ok" /\ k.pc \in Final
    <3>1. Changes(r) /\ k.pc \in Mutations
      BY <2>3 DEF Exchanged, Tells, Final, Mutations
    <3>2. n.pc = "done" /\ n.ok = TRUE
      BY <2>3 DEF Continued
    <3>3. f.pc = "done" /\ f.ok = TRUE
      BY <1>1, <3>2
    <3>4. f.applied = n.applied + 1
      BY <3>1
    <3>5. f.applied = 1
      BY <1>1, <2>1, <3>4, OneMore
    <3> QED
      BY <3>3, <3>5 DEF Reports
  <2>4. CASE ~(r.st = "ok" /\ k.pc \in Final) /\ r.st = "lost"
    <3>1. f.pc = "done" /\ f.ok = FALSE
      BY <1>1, <2>4 DEF Continued
    <3>2. f.lost = TRUE
      BY <2>4
    <3>3. f.applied = n.applied + 1 \/ f.applied = n.applied + 0
      OBVIOUS
    <3>4. f.applied = 0 \/ f.applied = 1
      BY <1>1, <2>1, <3>3, OneMore
    <3> QED
      BY <3>1, <3>2, <3>4 DEF Reports
  <2>5. CASE ~(r.st = "ok" /\ k.pc \in Final) /\ r.st # "lost"
    <3>1. ~(k.pc \in Mutations /\ Changes(r))
      <4>1. Changes(r) => r.st = "ok" \/ r.st = "lost"
        BY DEF Exchanged
      <4> QED
        BY <2>2, <2>5, <4>1
    <3>2. f.applied = n.applied + 0
      BY <3>1
    <3>3. f.applied = 0
      BY <1>1, <2>1, <3>2, OneMore
    <3>4. f.pc = "done" => f.ok = FALSE
      BY <1>1, <2>5 DEF Continued
    <3> QED
      BY <3>3, <3>4 DEF Reports
  <2> QED
    BY <2>3, <2>4, <2>5
<1>5. Listing(f, r.auth)
  BY ObservedListing
<1> QED
  BY <1>2, <1>3, <1>4, <1>5 DEF Own

\* Cross marks a listing whose enumeration another call has moved, and changes nothing
\* else of a call.
LEMMA CrossFacts ==
  ASSUME NEW k \in Calls, NEW a
  PROVE  LET m == Cross(k, a)
         IN  /\ m \in Calls /\ m.op = k.op /\ m.pc = k.pc /\ m.info = k.info
             /\ m.spent = k.spent /\ m.applied = k.applied /\ m.lost = k.lost /\ m.ok = k.ok
             /\ m.held = k.held /\ m.seen = k.seen
             /\ m.rps = k.rps /\ m.out = k.out /\ m.left = k.left
             /\ m.crossed = (k.crossed \/ a.cursor.kind = Continues(k))
<1> DEFINE b == k.crossed \/ a.cursor.kind = Continues(k)
<1>1. b \in BOOLEAN /\ Cross(k, a) = [k EXCEPT !.crossed = b]
  BY DEF Cross, Calls
<1> HIDE DEF b
<1>2. [k EXCEPT !.crossed = b] \in Calls
  BY <1>1 DEF Calls
<1>3. Cross(k, a).crossed = b
  BY <1>1 DEF Calls
<1> QED
  BY <1>1, <1>2, <1>3, ZenonT(30) DEF Calls, b

\* A listing that is not crossed by an exchange of another call finds its own enumeration
\* closed, or has not yet opened it.
LEMMA CrossListing ==
  ASSUME NEW k \in Calls, NEW a, NEW b, Listing(k, a)
  PROVE  Listing(Cross(k, b), b)
<1> DEFINE m == Cross(k, b)
<1>1. /\ m.op = k.op /\ m.pc = k.pc /\ m.ok = k.ok /\ m.held = k.held /\ m.seen = k.seen
      /\ m.rps = k.rps /\ m.out = k.out /\ m.left = k.left
      /\ m.crossed = (k.crossed \/ b.cursor.kind = Continues(k))
  BY CrossFacts
<1> HIDE DEF m
<1>2. Listed(m) = Listed(k) /\ (Sound(k) => Sound(m)) /\ (Covered(k) => Covered(m))
  BY <1>1 DEF Listed, Sound, Covered
<1>3. ASSUME ~m.crossed, Lists(m) PROVE Exact(m, b)
  <2>1. Exact(k, a) /\ b.cursor.kind # Continues(k)
    BY <1>1, <1>3 DEF Listing, Lists
  <2>2. k.pc = "rpNext" => RpsOpen(m, b)
    BY <2>1 DEF Continues, RpsOpen
  <2>3. k.pc = "credNext" => CredsOpen(m, b)
    BY <2>1 DEF Continues, CredsOpen
  <2> QED
    BY <1>1, <1>2, <2>1, <2>2, <2>3 DEF Exact
<1> QED
  BY <1>1, <1>2, <1>3 DEF Listing, Lists, m

\* A call under way while another one makes an exchange.
LEMMA OtherOwn ==
  ASSUME NEW k \in Calls, Own(k, auth), UnderWay(k), NEW b \in Auth
  PROVE  /\ Own(Observe(Cross(k, b), b), b)
         /\ Observe(Cross(k, b), b) \in Calls
         /\ Observe(Cross(k, b), b).op = k.op /\ Observe(Cross(k, b), b).pc = k.pc
         /\ Observe(Cross(k, b), b).info = k.info
<1> DEFINE m == Cross(k, b)
           f == Observe(m, b)
<1>1. /\ m \in Calls /\ m.op = k.op /\ m.pc = k.pc /\ m.info = k.info /\ m.spent = k.spent
      /\ m.applied = k.applied /\ m.lost = k.lost /\ m.ok = k.ok
  BY CrossFacts
<1>2. Listing(m, b)
  BY CrossListing DEF Own
<1> HIDE DEF m
<1>3. /\ Observed(m, f) /\ f.spent = m.spent /\ f.applied = m.applied /\ f.lost = m.lost
      /\ Watched(f, b)
  BY <1>1, ObserveFacts
<1> HIDE DEF f
<1>4. Listing(f, b)
  BY <1>2, <1>3, ObservedListing
<1>5. f \in Calls /\ f.op = k.op /\ f.pc = k.pc /\ f.info = k.info /\ f.ok = k.ok
  BY <1>1, <1>3 DEF Observed
<1>6. Asked(f)
  BY <1>5 DEF Own, Asked, UnderWay, Fits
<1>7. Attempts(f) /\ Reports(f)
  BY <1>1, <1>3, <1>5 DEF Own, Attempts, Reports, UnderWay
<1> QED
  BY <1>3, <1>4, <1>5, <1>6, <1>7 DEF Own, f, m

\* An exchange of a call, executed or lost, its answer, and what every other call
\* observes of it.
LEMMA InvokeStep ==
  ASSUME ClientInv, NEW c \in Callers, Invoke(c)
  PROVE  ClientInv'
<1> DEFINE k == call[c]
<1>1. /\ call \in [Callers -> Calls] /\ k \in Calls /\ auth \in Auth /\ faults \in Nat
      /\ CursorInv(auth) /\ k.pc \notin Early \cup {"done"} /\ Own(k, auth) /\ UNCHANGED <<profile, caps, capsMu>>
  BY DEF ClientInv, Typed, CallInv, Invoke, Early
<1>2. k.op \in Requests /\ Asked(k) /\ Listing(k, auth) /\ Watched(k, auth)
  BY <1>1 DEF Own, Asked, Early
<1> DEFINE next(r) == [Continue(k, r) EXCEPT
                         !.lost = @ \/ r.st = "lost",
                         !.spent = @ + (IF r.auth.retries < auth.retries THEN 1 ELSE 0),
                         !.applied = @ + (IF /\ k.pc \in Mutations
                                             /\ <<r.auth.pin, r.auth.creds>> # <<auth.pin, auth.creds>>
                                          THEN 1 ELSE 0)]
<1>3. PICK r \in Replies(k, c) \cup FaultyReplies(k, c) :
         /\ Fault(r \notin Replies(k, c))
         /\ auth' = r.auth
         /\ call' = [d \in Callers |->
                       CASE d = c -> Observe(next(r), r.auth)
                         [] call[d].pc \in {"idle", "done"} -> call[d]
                         [] OTHER -> Observe(Cross(call[d], r.auth), r.auth)]
  BY DEF Invoke
<1>4. Exchanged(k, r)
  BY <1>1, <1>2, ExchangeFacts
<1>5. r.auth \in Auth /\ r \in Reply
  BY <1>4 DEF Exchanged, Reply
<1> DEFINE n == Continue(k, r)
           m == next(r)
           f == Observe(m, r.auth)
<1>6. Continued(k, r, n) /\ Listing(n, r.auth) /\ n \in Calls
  <2>1. Continued(k, r, n) /\ Listing(n, r.auth)
    BY <1>1, <1>2, <1>4, ContinueFacts
  <2> QED
    BY <2>1 DEF Continued, Same
<1> HIDE DEF n
<1>7. /\ Observed(n, m) /\ m.lost = (n.lost \/ r.st = "lost")
      /\ m.spent = n.spent + (IF r.auth.retries < auth.retries THEN 1 ELSE 0)
      /\ m.applied = n.applied + (IF k.pc \in Mutations /\ Changes(r) THEN 1 ELSE 0)
  <2> DEFINE lost == n.lost \/ r.st = "lost"
             spent == n.spent + (IF r.auth.retries < auth.retries THEN 1 ELSE 0)
             applied == n.applied + (IF k.pc \in Mutations /\ Changes(r) THEN 1 ELSE 0)
  <2>1. lost \in BOOLEAN /\ spent \in Nat /\ applied \in Nat
    <3>1. n.spent \in Nat /\ n.applied \in Nat
      BY <1>6 DEF Calls
    <3>2. spent \in Nat
      BY <3>1, CountGrows
    <3>3. applied \in Nat
      BY <3>1, CountGrows
    <3>4. lost \in BOOLEAN
      OBVIOUS
    <3> QED
      BY <3>2, <3>3, <3>4
  <2>2. m = [n EXCEPT !.lost = lost, !.spent = spent, !.applied = applied]
    BY DEF Changes, n
  <2> HIDE DEF lost, spent, applied, m
  <2>3. m \in Calls
    BY <1>6, <2>1, <2>2 DEF Calls
  <2>4. m.lost = lost /\ m.spent = spent /\ m.applied = applied
    BY <1>6, <2>2 DEF Calls
  <2>5. Observed(n, m)
    BY <1>6, <2>2, <2>3 DEF Observed, Calls
  <2> QED
    BY <2>4, <2>5 DEF lost, spent, applied
<1> HIDE DEF m
<1>8. /\ Observed(m, f) /\ f.spent = m.spent /\ f.applied = m.applied /\ f.lost = m.lost
      /\ Watched(f, r.auth)
  BY <1>5, <1>7, ObserveFacts DEF Observed
<1> HIDE DEF f
<1>9. Observed(n, f)
  BY <1>7, <1>8 DEF Observed
<1>10. Own(f, r.auth)
  BY <1>1, <1>4, <1>6, <1>7, <1>8, <1>9, CountedOwn
<1>11. /\ call'[c] = f
       /\ \A d \in Callers \ {c} :
            call'[d] = IF UnderWay(call[d]) THEN Observe(Cross(call[d], r.auth), r.auth)
                                            ELSE call[d]
  <2>1. k.pc \notin {"idle", "done"}
    BY <1>1 DEF Early
  <2> HIDE DEF next
  <2> QED
    BY <1>3, <2>1 DEF UnderWay, f, m
<1>12. /\ f \in Calls /\ f.op = k.op /\ f.info = k.info /\ f.pc \notin Early
  BY <1>6, <1>9 DEF Observed, Continued, Same
<1>13. ASSUME NEW d \in Callers \ {c}
       PROVE  /\ call'[d] \in Calls /\ call'[d].op = call[d].op /\ call'[d].pc = call[d].pc
              /\ call'[d].info = call[d].info /\ Own(call'[d], r.auth)
  <2>1. call[d] \in Calls /\ Own(call[d], auth)
    BY <1>1 DEF ClientInv, CallInv
  <2>2. CASE UnderWay(call[d])
    <3>1. call'[d] = Observe(Cross(call[d], r.auth), r.auth)
      BY <1>11, <2>2
    <3>2. \A q \in Calls : Own(q, auth) /\ UnderWay(q) =>
            LET f1 == Observe(Cross(q, r.auth), r.auth)
            IN  Own(f1, r.auth) /\ f1 \in Calls /\ f1.op = q.op /\ f1.pc = q.pc /\ f1.info = q.info
      BY <1>5, OtherOwn
    <3> QED
      BY <2>1, <2>2, <3>1, <3>2
  <2>3. CASE ~UnderWay(call[d])
    <3>1. call'[d] = call[d]
      BY <1>11, <2>3
    <3>2. Own(call[d], r.auth)
      BY <2>1, <2>3 DEF Own, Watched, Listing, Exact, Lists, UnderWay, Early
    <3> QED
      BY <2>1, <3>1, <3>2
  <2> QED
    BY <2>2, <2>3
<1>14. Typed'
  <2>1. faults' \in Nat
    BY <1>1, <1>3, FaultFacts
  <2>2. call' \in [Callers -> Calls]
    <3>1. DOMAIN call' = Callers /\ call' = [d \in Callers |-> call'[d]]
      BY <1>3, SMT
    <3>2. \A d \in Callers : call'[d] \in Calls
      BY <1>11, <1>12, <1>13
    <3> QED
      BY <3>1, <3>2
  <2> QED
    BY <1>1, <1>3, <1>5, <2>1, <2>2 DEF ClientInv, Typed
<1>15. CursorInv(auth')
  BY <1>1, <1>3, <1>4, CursorKept
<1>16. ASSUME NEW d \in Callers PROVE CallInv(d)'
  <2>1. CASE d = c
    <3>1. Probes(c)'
      BY <1>1, <1>11, <1>12 DEF ClientInv, CallInv, Probes, Early
    <3> QED
      BY <1>3, <1>10, <1>11, <2>1, <3>1 DEF CallInv
  <2>2. CASE d # c
    <3>1. Probes(d)'
      BY <1>1, <1>13, <2>2 DEF ClientInv, CallInv, Probes
    <3> QED
      BY <1>3, <1>13, <2>2, <3>1 DEF CallInv
  <2> QED
    BY <2>1, <2>2
<1> QED
  BY <1>14, <1>15, <1>16 DEF ClientInv

\* Every step keeps the invariant.
LEMMA NextInv == ClientInv /\ [Next]_vars => ClientInv'
<1> SUFFICES ASSUME ClientInv, [Next]_vars PROVE ClientInv'
  OBVIOUS
<1>1. CASE \E c \in Callers : Step(c) \/ \E op \in Requests : Begin(c, op)
  <2>1. PICK c \in Callers : Step(c) \/ \E op \in Requests : Begin(c, op)
    BY <1>1
  <2>2. CASE LockCapabilities(c)
    BY <2>2, LockStep
  <2>3. CASE \E failed \in BOOLEAN : ProbeCTAP2(c, failed) \/ ProbeCTAP1(c, failed)
    BY <2>3, ProbeCTAP2Step, ProbeCTAP1Step
  <2>4. CASE Invoke(c)
    BY <2>4, InvokeStep
  <2>5. CASE \E op \in Requests : Begin(c, op)
    BY <2>5, BeginStep
  <2> QED
    BY <2>1, <2>2, <2>3, <2>4, <2>5 DEF Step
<1>2. CASE UNCHANGED vars
  <2>1. UNCHANGED <<profile, auth, caps, capsMu, call, faults>>
    BY <1>2 DEF vars
  <2> QED
    BY <2>1 DEF ClientInv, Typed, CursorInv, CallInv, Probes
<1> QED
  BY <1>1, <1>2 DEF Next, Finished

-----------------------------------------------------------------------------
(* The theorems.                                                           *)

\* Every reachable state of the client facade (pkg/client and its CTAP2 manager)
\* satisfies the invariant, whatever the callers ask for and whatever fails.
THEOREM ClientInvariant == Spec => []ClientInv
<1>1. Init => ClientInv
  BY InitInv
<1>2. ClientInv /\ [Next]_vars => ClientInv'
  BY NextInv
<1> QED
  BY <1>1, <1>2, PTL DEF Spec

\* All operations of a client act on the outcome of one probe (Capabilities
\* holds capsMu over both exchanges).
THEOREM OneProbeHolds == Spec => []OneProbe
<1>1. ClientInv => OneProbe
  BY DEF ClientInv, CallInv, Probes, OneProbe, Early
<1> QED
  BY <1>1, ClientInvariant, PTL

\* However often ChangePIN and credential management retry, one call costs at
\* most one PIN attempt.
THEOREM OnePinAttemptHolds == Spec => []OnePinAttempt
<1>1. ClientInv => OnePinAttempt
  BY DEF ClientInv, CallInv, Own, Attempts, OnePinAttempt
<1> QED
  BY <1>1, ClientInvariant, PTL

\* SetPIN, ChangePIN and DeleteCredential report what they did: success is one
\* change of the call's own, failure none unless an answer was lost.
THEOREM OutcomeIsTrueHolds == Spec => []OutcomeIsTrue
<1>1. ClientInv => OutcomeIsTrue
  BY DEF ClientInv, CallInv, Own, Reports, OutcomeIsTrue, Changing
<1> QED
  BY <1>1, ClientInvariant, PTL

\* A listing that succeeds is exact (enumerateRelyingParties and
\* enumerateCredentials), for any number of credentials and of calls that fall
\* between its exchanges, unless another listing moves the device's cursor under
\* it; even then it names only credentials stored during the call.
THEOREM ListIsExactHolds == Spec => []ListIsExact
<1>1. ClientInv => ListIsExact
  <2> SUFFICES ASSUME ClientInv, NEW c \in Callers, Returned(c), call[c].op.kind = "List"
               PROVE  LET out == call[c].out
                          got == {out[n].cred : n \in DOMAIN out}
                      IN  /\ got \subseteq call[c].seen
                          /\ ~call[c].crossed =>
                                /\ \A n \in DOMAIN out : out[n].rp = RpOf[out[n].cred]
                                /\ Cardinality(got) = Len(out)
                                /\ call[c].held \subseteq got
    BY DEF ListIsExact
  <2>1. Listing(call[c], auth) /\ call[c].pc = "done" /\ call[c].ok
    BY DEF ClientInv, CallInv, Own, Returned
  <2>2. /\ Listed(call[c]) \subseteq call[c].seen
        /\ ~call[c].crossed => Sound(call[c]) /\ call[c].held \subseteq Listed(call[c])
    BY <2>1 DEF Listing, Exact, Lists
  <2> QED
    BY <2>2 DEF Sound, Listed
<1> QED
  BY <1>1, ClientInvariant, PTL

=============================================================================
