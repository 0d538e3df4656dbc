------------------------------- MODULE Client -------------------------------
(***************************************************************************)
(* The client facade (pkg/client) and its CTAP2 manager                    *)
(* (internal/client/ctap2) over one session.  Callers run operations of    *)
(* one client concurrently; the session serializes single exchanges and    *)
(* nothing serializes operations, so every step is one exchange followed   *)
(* by the local code up to the next one, and the steps of two calls        *)
(* interleave.  An exchange may fail with a status or without an answer,   *)
(* in the latter case also after the device has carried the command out.   *)
(***************************************************************************)
EXTENDS Authenticator, Sequences

CONSTANTS Callers,
          Requests,     \* the operations callers may ask for
          LongPin,      \* a new PIN of more than 63 bytes
          NoCred,       \* a descriptor without an ID
          Profiles,     \* what the authenticator supports
          maxFaults     \* bound on failed exchanges

OperationKinds == {"Capabilities", "Status", "SetPIN", "ChangePIN", "List", "Delete", "Reset",
                   "Register", "Authenticate"}

\* A registration makes a credential, and a change of the PIN is one.
ASSUME ClientAssumption ==
  /\ Nobody \notin Callers
  /\ maxFaults \in Nat
  /\ \A op \in Requests : /\ op.kind \in OperationKinds
                          /\ op.kind = "Register" => op.cred \in Credentials
                          /\ op.kind = "ChangePIN" => op.pin # op.newPin

VARIABLES profile,   \* the authenticator's fixed abilities
          auth,      \* the authenticator's state
          caps,      \* client.caps: <<>> or <<the probed capabilities>>
          capsMu,    \* the holder of client.capsMu, or Nobody
          call,      \* per caller: its operation and where it stands
          faults

vars == <<profile, auth, caps, capsMu, call, faults>>

clientPINChangeAttempts == 3

Mutations == {"set", "change", "delete", "reset", "make"}

NoCall == [op |-> <<>>, pc |-> "idle", info |-> <<>>, code |-> "none", tries |-> 0,
           auth |-> "none", rps |-> <<>>, left |-> 0, out |-> <<>>, ok |-> FALSE,
           verified |-> FALSE, spent |-> 0, applied |-> 0, lost |-> FALSE,
           held |-> {}, seen |-> {}, crossed |-> FALSE]

----------------------------------------------------------------------------
(* What a call does between two exchanges.                                 *)

Goto(k, pc) == [k EXCEPT !.pc = pc]
Return(k, ok) == [k EXCEPT !.pc = "done", !.ok = ok]
Fail(k) == Return(k, FALSE)
If(cond, k, pc) == IF cond THEN Goto(k, pc) ELSE Fail(k)

\* An empty list of protocols means the first one; otherwise 2 before 1.
SelectPINUVAuthProtocol(protocols) ==
  CASE protocols = {}  -> 1
    [] 2 \in protocols -> 2
    [] 1 \in protocols /\ 2 \notin protocols -> 1
    [] OTHER           -> 0

HasProtocol(i) == SelectPINUVAuthProtocol(i.protocols) # 0

credentialManagementCommandCode(i) ==
  CASE i.credMgmt -> "std"
    [] ~i.credMgmt /\ i.preview -> "preview"
    [] OTHER -> "none"

\* The one probe of both families; a family that does not answer is left out.
buildCapabilities(two, one) == [ctap2 |-> two, ctap1 |-> one]

GetPINRetries(k, i) == If(i.clientPin = "on" /\ HasProtocol(i), k, "retries")

Status(k, i) ==
  CASE i.clientPin = "absent" -> Fail(k)
    [] i.clientPin = "off"    -> Return(k, TRUE)
    [] OTHER                  -> GetPINRetries(k, i)

SetPIN(k, i) == If(HasProtocol(i), k, "key")

changePINOnce(k, i) == If(i.clientPin = "on" /\ HasProtocol(i), k, "key")

requireCredentialManagementBuiltInUV(i) == i.uv = "on" /\ i.token /\ i.credMgmt

NormalizeCredentialDescriptor(op) == op.cred # NoCred

resolveCredentialAuthorization(k, i) ==
  k.op.method = "uv" =>
    requireCredentialManagementBuiltInUV(i) /\ NormalizeCredentialDescriptor(k.op)

Reset(k) == Goto(k, "reset")

\* List and Delete: the command the device offers, then a token for it.
manageCredentials(k, i) ==
  LET code == credentialManagementCommandCode(i)
  IN  If(code # "none" /\ HasProtocol(i) /\ resolveCredentialAuthorization(k, i),
         [k EXCEPT !.code = code], "key")

resolveCTAP2UserVerification(k, i, pc) ==
  LET with(method) == [k EXCEPT !.auth = method]
  IN  IF k.op.uv = "discouraged" THEN Goto(with("none"), pc)
      ELSE IF i.uv = "on" THEN Goto(with("uv"), pc)
      ELSE IF i.clientPin = "absent" THEN If(k.op.uv # "required", with("none"), pc)
      ELSE IF k.op.pin = NoPin THEN If(k.op.uv = "preferred", with("none"), pc)
      ELSE If(HasProtocol(i), with("token"), "key")

Register(k, i) ==
  IF i.ctap2 # <<>> THEN resolveCTAP2UserVerification(k, i.ctap2[1], "make")
                    ELSE If(k.op.ctap1, k, "u2f")

Authenticate(k, i) ==
  IF i.ctap2 # <<>> THEN resolveCTAP2UserVerification(k, i.ctap2[1], "assert")
                    ELSE If(k.op.ctap1, k, "u2f")

\* From the capabilities to the first exchange of the operation.
requireCTAP2Capabilities(k, i) ==
  LET kind == k.op.kind
  IN  IF i.ctap2 = <<>> THEN Fail(k)
      ELSE CASE kind = "Status"    -> Status(k, i.ctap2[1])
             [] kind = "SetPIN"    -> SetPIN(k, i.ctap2[1])
             [] kind = "ChangePIN" -> changePINOnce(k, i.ctap2[1])
             [] kind = "Reset"     -> Reset(k)
             [] OTHER              -> manageCredentials(k, i.ctap2[1])

Dispatch(k, i) ==
  CASE k.op.kind = "Capabilities" -> Return(k, TRUE)
    [] k.op.kind = "Register"     -> Register(k, i)
    [] k.op.kind = "Authenticate" -> Authenticate(k, i)
    [] OTHER                      -> requireCTAP2Capabilities(k, i)

\* The token requests: by PIN or by built-in verification, with permissions
\* or, the older way, without.
getPINTokenWithPermissions(perm) == [by |-> "pin", perm |-> perm]
getUVTokenWithPermissions(perm) == [by |-> "uv", perm |-> perm]
getPINToken == [by |-> "pin", perm |-> "any"]

PinTokenForPermission(k) ==
  IF k.info[1].ctap2[1].token
  THEN getPINTokenWithPermissions(IF k.op.kind = "Register" THEN "mc" ELSE "ga")
  ELSE getPINToken

credentialManagementTokenSource(k) ==
  IF k.op.method = "uv" THEN getUVTokenWithPermissions("cm")
  ELSE IF k.code = "preview" THEN getPINToken
  ELSE getPINTokenWithPermissions("cm")

tokenRequest(k) ==
  IF k.op.kind \in {"Register", "Authenticate"} THEN PinTokenForPermission(k)
                                                ELSE credentialManagementTokenSource(k)

\* A new PIN that does not fit is noticed after the key agreement.
padClientPIN(pin) == pin # LongPin

getPINProtocolSession(k) ==
  CASE k.op.kind = "SetPIN"    -> If(padClientPIN(k.op.newPin), k, "set")
    [] k.op.kind = "ChangePIN" -> If(padClientPIN(k.op.newPin), k, "change")
    [] OTHER                   -> Goto(k, "token")

afterToken(k) ==
  CASE k.op.kind = "Register"     -> Goto(k, "make")
    [] k.op.kind = "Authenticate" -> Goto(k, "assert")
    [] k.op.kind = "Delete"       -> Goto(k, "delete")
    [] OTHER                      -> Goto(k, "metadata")

getCredentialMetadata(k, r) ==
  IF r.total = 0 THEN Return(k, TRUE) ELSE Goto(k, "rpBegin")

\* Zero stands for a total the device left out.
remaining(total) == IF total = 0 THEN 0 ELSE total - 1

nextRelyingParty(k) == IF k.rps = <<>> THEN Return(k, TRUE) ELSE Goto(k, "credBegin")

enumerateRelyingParties(k, r) ==
  LET got == [k EXCEPT !.rps = Append(@, r.item),
                       !.left = IF k.pc = "rpBegin" THEN remaining(r.total) ELSE @ - 1]
  IN  IF r.item = NoRp THEN Return(k, k.pc = "rpBegin")
      ELSE IF got.left > 0 THEN Goto(got, "rpNext")
      ELSE nextRelyingParty(got)

discoverableCredentialFromResponse(rp, r) == [rp |-> rp, cred |-> r.item]

enumerateCredentials(k, r) ==
  LET got == [k EXCEPT !.out = Append(@, discoverableCredentialFromResponse(Head(k.rps), r)),
                       !.left = IF k.pc = "credBegin" THEN remaining(r.total) ELSE @ - 1]
  IN  IF r.item = NoRp THEN Fail(k)
      ELSE IF got.left > 0 THEN Goto(got, "credNext")
      ELSE nextRelyingParty([got EXCEPT !.rps = Tail(@)])

RestartKeepsBroken(k, code) == [k EXCEPT !.pc = "key", !.code = code, !.tries = @ + 1]

RestartUncountedBroken(k, code) == [k EXCEPT !.pc = "key", !.code = code, !.crossed = FALSE,
                                             !.rps = <<>>, !.left = 0, !.out = <<>>]

\* Another try starts over with a fresh key agreement and token.
Restart(k, code) == [k EXCEPT !.pc = "key", !.code = code, !.tries = @ + 1, !.crossed = FALSE,
                              !.rps = <<>>, !.left = 0, !.out = <<>>]

shouldRetryClientPINChangeBroken(k, st) ==
  st # "ok" /\ k.tries + 1 < clientPINChangeAttempts

shouldRetryClientPINChange(k, st) ==
  st = "12" /\ k.tries + 1 < clientPINChangeAttempts

shouldRetryCredentialManagement(k, st) == st = "12" /\ k.tries = 0

shouldRetryCredentialManagementWithPreview(k, st) ==
  /\ k.code = "std" /\ k.op.method = "pin"
  /\ k.info[1].ctap2[1].preview
  /\ st \in {"12", "fallback"}

retryCredentialManagementBroken(k, st) ==
  CASE shouldRetryCredentialManagement(k, st) -> Restart(k, k.code)
    [] shouldRetryCredentialManagementWithPreview(k, st) -> Restart(k, "preview")
    [] OTHER -> Return(k, k.op.kind = "Delete" /\ k.tries > 0)

\* Once more with the same command, then with the preview command.
retryCredentialManagement(k, st) ==
  CASE shouldRetryCredentialManagement(k, st) -> Restart(k, k.code)
    [] /\ ~shouldRetryCredentialManagement(k, st)
       /\ shouldRetryCredentialManagementWithPreview(k, st) -> Restart(k, "preview")
    [] OTHER -> Fail(k)

retryClientPINChange(k, st) ==
  IF shouldRetryClientPINChange(k, st) THEN Restart(k, k.code) ELSE Fail(k)

Recover(k, st) ==
  CASE k.op.kind = "ChangePIN"          -> retryClientPINChange(k, st)
    [] k.op.kind \in {"List", "Delete"} -> retryCredentialManagement(k, st)
    [] OTHER                            -> Fail(k)

\* What the operation does with the answer to the exchange it is at.
Continue(k, r) ==
  IF r.st # "ok" THEN Recover(k, r.st)
  ELSE CASE k.pc = "key"       -> getPINProtocolSession(k)
         [] k.pc = "token"     -> afterToken(k)
         [] k.pc = "metadata"  -> getCredentialMetadata(k, r)
         [] k.pc \in {"rpBegin", "rpNext"}     -> enumerateRelyingParties(k, r)
         [] k.pc \in {"credBegin", "credNext"} -> enumerateCredentials(k, r)
         [] OTHER -> [Return(k, TRUE) EXCEPT
                        !.verified = k.pc \in {"make", "assert"} /\ k.auth # "none"]

----------------------------------------------------------------------------
(* What the authenticator answers.                                         *)

GetInfo == [clientPin |-> IF ~profile.clientPin THEN "absent"
                          ELSE IF auth.pin = NoPin THEN "off" ELSE "on",
            uv |-> profile.uv, token |-> profile.token, credMgmt |-> profile.credMgmt,
            preview |-> profile.preview, protocols |-> profile.protocols]

TokenReplies(k, c) ==
  LET want == tokenRequest(k)
  IN  IF want.perm # "any" /\ ~profile.token THEN {Answer("fallback", Settled(auth))}
      ELSE IF want.by = "uv" THEN {Answer("ok", IssueToken(auth, c, want.perm))}
      ELSE Checked(auth, k.op.pin, IssueToken(auth, c, want.perm))

ManageReplies(k, c) ==
  IF profile.stuck THEN {Answer("12", Settled(auth))}
  ELSE IF k.code = "std" /\ ~profile.std THEN {Answer("fallback", Settled(auth))}
  ELSE IF ~Authorized(auth, c, "cm") THEN {Answer("refused", Settled(auth))}
  ELSE CASE k.pc = "metadata" ->
              {[Answer("ok", Settled(auth)) EXCEPT !.total = Cardinality(auth.creds)]}
         [] k.pc = "rpBegin" -> EnumerateBegin(auth, "rp", Rps(auth.creds))
         [] k.pc = "credBegin" ->
              EnumerateBegin(auth, "cred", {x \in auth.creds : RpOf[x] = Head(k.rps)})
         [] k.pc = "delete" /\ k.op.cred \in auth.creds ->
              {Answer("ok", [Settled(auth) EXCEPT !.creds = @ \ {k.op.cred}])}
         [] OTHER -> {Answer("refused", Settled(auth))}

PinReplies(k) ==
  CASE k.pc = "set" /\ auth.pin = NoPin ->
         {Answer("ok", [Settled(auth) EXCEPT !.pin = k.op.newPin, !.retries = maxRetries])}
    [] k.pc = "change" /\ profile.stuck -> {Answer("12", Settled(auth))}
    [] k.pc = "change" /\ ~profile.stuck ->
         Checked(auth, k.op.pin, [Settled(auth) EXCEPT !.pin = k.op.newPin, !.token.by = Nobody])
    [] OTHER -> {Answer("refused", Settled(auth))}

UseReplies(k, c) ==
  IF k.auth = "token" /\ ~Authorized(auth, c, IF k.pc = "make" THEN "mc" ELSE "ga")
  THEN {Answer("refused", Settled(auth))}
  ELSE {Answer("ok", IF k.pc = "make" THEN [Settled(auth) EXCEPT !.creds = @ \cup {k.op.cred}]
                                      ELSE Settled(auth))}

Replies(k, c) ==
  CASE k.pc = "token" -> TokenReplies(k, c)
    [] k.pc \in {"metadata", "rpBegin", "credBegin", "delete"} -> ManageReplies(k, c)
    [] k.pc = "rpNext"   -> EnumerateNext(auth, "rp")
    [] k.pc = "credNext" -> EnumerateNext(auth, "cred")
    [] k.pc \in {"set", "change"} -> PinReplies(k)
    [] k.pc \in {"make", "assert"} -> UseReplies(k, c)
    [] k.pc = "reset" ->
         {Answer("ok", [pin |-> NoPin, retries |-> maxRetries, creds |-> {},
                        token |-> [by |-> Nobody, perm |-> "any"], cursor |-> NoCursor])}
    [] OTHER -> {Answer("ok", Settled(auth))}

\* A status instead of the effect, or an answer that never arrives.
FaultyReplies(k, c) ==
  {Answer(st, Settled(auth)) : st \in {"12", "fallback", "lost"}}
    \cup {[r EXCEPT !.st = "lost"] : r \in Replies(k, c)}

----------------------------------------------------------------------------
(* The steps.                                                              *)

Init ==
  /\ profile \in Profiles
  /\ \E pin \in {NoPin} \cup {r.pin : r \in Requests} :
       /\ ~profile.clientPin => pin = NoPin
       /\ auth = [pin |-> pin, retries |-> maxRetries, token |-> [by |-> Nobody, perm |-> "any"],
                  creds |-> {x \in Credentials : \A r \in Requests : r.kind = "Register" => r.cred # x},
                  cursor |-> NoCursor]
  /\ caps = <<>> /\ capsMu = Nobody
  /\ call = [c \in Callers |-> NoCall]
  /\ faults = 0

\* Refused before any exchange: an empty PIN, or a descriptor without an ID.
SetsEmptyPIN(op) == op.kind = "SetPIN" /\ op.newPin = NoPin

ChangesEmptyPIN(op) == op.kind = "ChangePIN" /\ NoPin \in {op.pin, op.newPin}

RefusedAtOnce(op) ==
  \/ SetsEmptyPIN(op) \/ ChangesEmptyPIN(op)
  \/ /\ op.kind \in {"List", "Delete"} /\ op.method = "pin"
     /\ op.pin = NoPin \/ ~NormalizeCredentialDescriptor(op)

Begin(c, op) ==
  /\ call[c].pc = "idle"
  /\ call' = [call EXCEPT ![c] =
                LET k == [NoCall EXCEPT !.op = op, !.held = auth.creds, !.seen = auth.creds]
                IN  IF RefusedAtOnce(op) THEN Fail(k) ELSE Goto(k, "caps")]
  /\ UNCHANGED <<profile, auth, caps, capsMu, faults>>

LockCapabilitiesBroken(c) ==
  /\ call[c].pc = "caps"
  /\ IF caps # <<>>
     THEN call' = [call EXCEPT ![c] = Dispatch([@ EXCEPT !.info = caps], caps[1])]
     ELSE call' = [call EXCEPT ![c] = Goto(@, "probe2")]
  /\ UNCHANGED <<profile, auth, caps, capsMu, faults>>

\* Capabilities holds capsMu over both probes.
LockCapabilities(c) ==
  /\ call[c].pc = "caps" /\ capsMu = Nobody
  /\ IF caps # <<>>
     THEN /\ call' = [call EXCEPT ![c] = Dispatch([@ EXCEPT !.info = caps], caps[1])]
          /\ capsMu' = capsMu
     ELSE /\ call' = [call EXCEPT ![c] = Goto(@, "probe2")]
          /\ capsMu' = c
  /\ UNCHANGED <<profile, auth, caps, faults>>

\* A probe that fails in any way leaves its family out.
Fault(failed) == faults' = IF failed THEN faults + 1 ELSE faults

ProbeCTAP2(c, failed) ==
  /\ call[c].pc = "probe2"
  /\ failed => faults < maxFaults
  /\ Fault(failed)
  /\ call' = [call EXCEPT ![c] = [Goto(@, "probe1") EXCEPT
                !.info = IF profile.ctap2 /\ ~failed THEN <<GetInfo>> ELSE <<>>]]
  /\ auth' = Settled(auth)
  /\ UNCHANGED <<profile, caps, capsMu>>

ProbeCTAP1(c, failed) ==
  LET probed == buildCapabilities(call[c].info, profile.ctap1 /\ ~failed)
      k      == [call[c] EXCEPT !.info = <<probed>>]
  IN  /\ call[c].pc = "probe1"
      /\ failed => faults < maxFaults
      /\ Fault(failed)
      /\ IF probed.ctap2 = <<>> /\ ~probed.ctap1
         THEN caps' = caps /\ call' = [call EXCEPT ![c] = Fail([@ EXCEPT !.info = <<>>])]
         ELSE caps' = <<probed>> /\ call' = [call EXCEPT ![c] = Dispatch(k, probed)]
      /\ capsMu' = Nobody
      /\ auth' = Settled(auth)
      /\ UNCHANGED profile

\* The credentials stored throughout, and at some time of, a call under way.
Observe(k, a) == [k EXCEPT !.held = @ \cap a.creds, !.seen = @ \cup a.creds]

\* A call that is about to fetch the next item of its enumeration finds another
\* one of the same kind on the device: no mutex spans the exchanges of a listing.
Continues(k) == CASE k.pc = "rpNext" -> "rp" [] k.pc = "credNext" -> "cred" [] OTHER -> "no"

Cross(k, a) == [k EXCEPT !.crossed = @ \/ a.cursor.kind = Continues(k)]

\* One exchange of the operation and the code up to the next one.
Invoke(c) ==
  /\ call[c].pc \notin {"idle", "caps", "probe2", "probe1", "done"}
  /\ \E r \in Replies(call[c], c) \cup (IF faults < maxFaults THEN FaultyReplies(call[c], c) ELSE {}) :
       LET k    == call[c]
           next == [Continue(k, r) EXCEPT
                      !.lost = @ \/ r.st = "lost",
                      !.spent = @ + (IF r.auth.retries < auth.retries THEN 1 ELSE 0),
                      !.applied = @ + (IF /\ k.pc \in Mutations
                                          /\ <<r.auth.pin, r.auth.creds>> # <<auth.pin, auth.creds>>
                                       THEN 1 ELSE 0)]
       IN  /\ Fault(r \notin Replies(k, c))
           /\ auth' = r.auth
           /\ call' = [d \in Callers |->
                         CASE d = c -> Observe(next, r.auth)
                           [] call[d].pc \in {"idle", "done"} -> call[d]
                           [] OTHER -> Observe(Cross(call[d], r.auth), r.auth)]
  /\ UNCHANGED <<profile, caps, capsMu>>

Step(c) ==
  \/ LockCapabilities(c)
  \/ \E failed \in BOOLEAN : ProbeCTAP2(c, failed) \/ ProbeCTAP1(c, failed)
  \/ Invoke(c)

Finished == /\ \A c \in Callers : call[c].pc = "done"
            /\ UNCHANGED vars

Next == \/ \E c \in Callers : Step(c) \/ \E op \in Requests : Begin(c, op)
        \/ Finished

Spec == Init /\ [][Next]_vars /\ \A c \in Callers : WF_vars(Step(c))

----------------------------------------------------------------------------
(* Properties.                                                             *)

Returned(c) == call[c].pc = "done" /\ call[c].ok

\* A listing that succeeds is exact although deletions, registrations and a
\* reset of other callers fall between its exchanges and it may have been
\* started over: it names each credential once, under its own relying party,
\* none that was not stored during the call, and all that were stored
\* throughout it (enumerateRelyingParties and enumerateCredentials).  GetNext
\* carries neither token nor relying party, so the one thing that spoils a
\* listing is a second listing that moves the device's cursor between a Begin
\* or GetNext of the first and its next GetNext; even then it names only
\* credentials that were stored during the call.
ListIsExact ==
  \A c \in Callers : Returned(c) /\ call[c].op.kind = "List" =>
    LET out == call[c].out
        got == {out[n].cred : n \in DOMAIN out}
    IN  /\ got \subseteq call[c].seen
        /\ ~call[c].crossed =>
              /\ \A n \in DOMAIN out : out[n].rp = RpOf[out[n].cred]
              /\ Cardinality(got) = Len(out)
              /\ call[c].held \subseteq got

\* Whatever is retried (ChangePIN up to three times, credential management
\* once and then with the preview command, each with a fresh token), one call
\* never costs more than one of the PIN attempts the device grants.
OnePinAttempt == \A c \in Callers : call[c].spent <= 1

\* What a call reports is what it did, although answers are lost and 0x12
\* makes ChangePIN and DeleteCredential send their request again: success
\* means its own change was carried out, once; failure means that nothing
\* changed, unless an answer was lost.
OutcomeIsTrue ==
  \A c \in Callers : call[c].pc = "done" /\ call[c].op.kind \in {"SetPIN", "ChangePIN", "Delete"} =>
    /\ call[c].ok => call[c].applied = 1
    /\ ~call[c].ok => call[c].applied = 0 \/ (call[c].lost /\ call[c].applied = 1)

\* All operations of a client act on the outcome of one probe, although
\* callers arrive while it is running and the PIN is set or changed meanwhile
\* (capsMu is held over both exchanges of Capabilities).
OneProbe ==
  \A c \in Callers : call[c].pc \notin {"idle", "caps", "probe2", "probe1"} /\ call[c].info # <<>>
                       => call[c].info = caps

\* Every call returns, also on a device that answers 0x12 for ever: the
\* retries are counted and capsMu is released on every path.
EveryCallReturns == \A c \in Callers : call[c].pc = "caps" ~> call[c].pc = "done"

\* UserVerificationRequired "requires user verification for the operation to
\* proceed": a registration or an authentication asked for with it does not
\* succeed without verification.
RequiredIsVerified ==
  \A c \in Callers : Returned(c) /\ call[c].op.kind \in {"Register", "Authenticate"}
                       /\ call[c].op.uv = "required" => call[c].verified

=============================================================================
