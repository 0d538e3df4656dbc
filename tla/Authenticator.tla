--------------------------- MODULE Authenticator ---------------------------
(***************************************************************************)
(* The authenticator behind a session, as the client code uses it: what a  *)
(* command does to the PIN, the PIN retry counter, the current             *)
(* pinUvAuthToken, the resident credentials and the one enumeration cursor *)
(* a device keeps.  It is not code of the repository; statuses are sorted  *)
(* into the classes the client tells apart.                                *)
(***************************************************************************)
EXTENDS Naturals, FiniteSets

CONSTANTS Credentials,   \* the resident credentials there can be
          RpOf,          \* the relying party each of them belongs to
          NoPin,         \* no PIN is set, or an empty PIN is supplied
          Nobody,        \* no token has been issued
          NoRp,          \* a response without a relying party
          maxRetries     \* the PIN retry counter after a correct PIN

ASSUME AuthenticatorAssumption ==
  /\ DOMAIN RpOf = Credentials
  /\ NoRp \notin Credentials \cup {RpOf[x] : x \in Credentials}
  /\ IsFiniteSet(Credentials)
  /\ maxRetries \in Nat \ {0}

NoCursor == [kind |-> "none", left |-> {}]

Rps(creds) == {RpOf[x] : x \in creds}

\* A status is ok, 12 (0x12), fallback (one on which credential management tries
\* the preview command), refused (any other), or lost: no answer arrived.
Answer(st, a) == [st |-> st, auth |-> a, item |-> NoRp, total |-> 0]

\* Every command but a GetNext ends an enumeration in progress.
Settled(a) == [a EXCEPT !.cursor = NoCursor]

\* A wrong PIN costs a retry, a right one restores the counter.
Checked(a, pin, accepted) ==
  IF a.pin = NoPin \/ a.retries = 0 THEN {Answer("refused", Settled(a))}
  ELSE IF pin # a.pin THEN {Answer("refused", [Settled(a) EXCEPT !.retries = @ - 1])}
  ELSE {Answer("ok", [accepted EXCEPT !.retries = maxRetries])}

IssueToken(a, who, perm) == [Settled(a) EXCEPT !.token = [by |-> who, perm |-> perm]]

Authorized(a, who, perm) == a.token.by = who /\ a.token.perm \in {"any", perm}

\* An enumeration over "items": Begin names the total (a device may leave out
\* a total of one), GetNext carries no authorization.
EnumerateBegin(a, kind, items) ==
  IF items = {}
  THEN {Answer("refused", Settled(a)), Answer("ok", Settled(a))}
  ELSE {[st |-> "ok", item |-> x, total |-> n,
         auth |-> [a EXCEPT !.cursor = [kind |-> kind, left |-> items \ {x}]]] :
          x \in items, n \in {Cardinality(items)} \cup (IF Cardinality(items) = 1 THEN {0} ELSE {})}

EnumerateNext(a, kind) ==
  IF a.cursor.kind # kind \/ a.cursor.left = {}
  THEN {Answer("refused", Settled(a))}
  ELSE {[st |-> "ok", item |-> x, total |-> 0,
         auth |-> [a EXCEPT !.cursor.left = @ \ {x}]] : x \in a.cursor.left}

=============================================================================
