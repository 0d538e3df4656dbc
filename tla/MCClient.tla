------------------------------ MODULE MCClient ------------------------------
(* Two calls on one client, of every pair of operations, on seven devices.  *)
EXTENDS Client, TLC

CONSTANTS ann, bob, c1, c2, c3, c4, c5, rp1, rp2, p1, p2

MCRpOf == c1 :> rp1 @@ c2 :> rp1 @@ c3 :> rp2 @@ c4 :> rp2 @@ c5 :> rp2

Plain == [kind |-> "Capabilities", pin |-> p1, newPin |-> p2, cred |-> c1,
          uv |-> "discouraged", method |-> "pin", ctap1 |-> FALSE]

Of(kind) == [Plain EXCEPT !.kind = kind]

MCRequests ==
  {Of(kind) : kind \in {"Capabilities", "Status", "SetPIN", "ChangePIN", "List", "Delete", "Reset"}}
    \cup {[Of("ChangePIN") EXCEPT !.pin = p2, !.newPin = p1],
          [Of("SetPIN") EXCEPT !.newPin = LongPin],
          [Of("List") EXCEPT !.pin = NoPin],
          [Of("Delete") EXCEPT !.cred = NoCred],
          [Of("List") EXCEPT !.method = "uv"],
          [Of("Register") EXCEPT !.cred = c5, !.uv = "required"],
          [Of("Authenticate") EXCEPT !.uv = "preferred", !.pin = NoPin, !.ctap1 = TRUE]}

Full == [ctap2 |-> TRUE, ctap1 |-> TRUE, clientPin |-> TRUE, uv |-> "off", token |-> TRUE,
         credMgmt |-> TRUE, preview |-> TRUE, protocols |-> {1, 2}, stuck |-> FALSE,
         std |-> TRUE]

MCProfiles ==
  {Full,
   [Full EXCEPT !.stuck = TRUE],
   [Full EXCEPT !.std = FALSE],
   [Full EXCEPT !.uv = "on", !.preview = FALSE],
   [Full EXCEPT !.ctap1 = FALSE, !.token = FALSE, !.credMgmt = FALSE, !.protocols = {}],
   [Full EXCEPT !.clientPin = FALSE, !.credMgmt = FALSE, !.preview = FALSE, !.protocols = {3}],
   [Full EXCEPT !.ctap2 = FALSE, !.clientPin = FALSE]}

\* For the question of RequiredIsVerified: one user-verified registration.
VerifiedRequests == {[Of("Register") EXCEPT !.cred = c5, !.uv = uv, !.ctap1 = TRUE] :
                        uv \in {"required", "preferred"}}
=============================================================================
