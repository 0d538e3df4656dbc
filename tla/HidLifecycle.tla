---------------------------- MODULE HidLifecycle -----------------------------
(***************************************************************************)
(* What a connection of pkg/hid promises about the native handle and the   *)
(* endpoint lease it owns (retireLocked in connection.go): users enter     *)
(* only while it is open, retirement is final, the handle is closed when   *)
(* the last user has left, and the lease is given back after that.         *)
(***************************************************************************)
CONSTANT Users  \* those that may use the native handle

VARIABLES phase,  \* "open", "retiring" or "closed"
          users,  \* the users of the handle
          lease   \* the endpoint is reserved

vars == <<phase, users, lease>>

TypeOK ==
    /\ phase \in {"open", "retiring", "closed"}
    /\ users \subseteq Users
    /\ lease \in BOOLEAN

Init == phase = "open" /\ users \subseteq Users /\ lease = TRUE

Enter(u) == phase = "open" /\ users' = users \cup {u} /\ UNCHANGED <<phase, lease>>

Leave(u) == u \in users /\ users' = users \ {u} /\ UNCHANGED <<phase, lease>>

Retire == phase = "open" /\ phase' = "retiring" /\ UNCHANGED <<users, lease>>

CloseHandle ==
    /\ phase = "retiring"
    /\ users = {}
    /\ phase' = "closed"
    /\ UNCHANGED <<users, lease>>

Release == phase = "closed" /\ lease /\ lease' = FALSE /\ UNCHANGED <<phase, users>>

Next ==
    \/ \E u \in Users : Enter(u) \/ Leave(u)
    \/ Retire \/ CloseHandle \/ Release

Spec == Init /\ [][Next]_vars

\* A user of a retiring connection leaves it, and the cleanup is carried out.
Fairness ==
    /\ \A u \in Users : WF_vars(phase = "retiring" /\ Leave(u))
    /\ WF_vars(CloseHandle)
    /\ WF_vars(Release)

FairSpec == Spec /\ Fairness

==============================================================================
