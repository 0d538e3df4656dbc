---------------------------- MODULE PcscBackend -----------------------------
(***************************************************************************)
(* Discovery and opening over PC/SC (pkg/transport/nfc/pcsc_backend.go):   *)
(* which resource-manager contexts and which card connections are held on  *)
(* which path.  The resource manager and the cards are external.           *)
(***************************************************************************)
EXTENDS Naturals, Sequences, FiniteSets

CONSTANTS Readers,      \* names of the readers
          Users,        \* concurrent users of the backend
          Free          \* a reader no connection is open to

VARIABLES user,       \* per user: where its Discover, Open or Close stands
          contexts,   \* the users that hold a context
          card        \* per reader: the users connected to it

pcscVars == <<user, contexts, card>>

\* What the manager says of a reader on Connect, and a card of the SELECT.
ConnectOutcomes == {"ok", "no card", "error"}
SelectOutcomes  == {"fido", "6a82", "other status", "error"}

IdleUser == [pc |-> "idle", op |-> "none", todo |-> {}, reader |-> Free,
             found |-> {}, errors |-> FALSE, ok |-> FALSE]

PcscInit ==
  /\ user = [u \in Users |-> IdleUser]
  /\ contexts = {}
  /\ card = [r \in Readers |-> {}]

Set(u, k) == user' = [user EXCEPT ![u] = k]

\* A return that releases the context.
Released(u, k, ok) ==
  /\ Set(u, [k EXCEPT !.pc = "done", !.ok = ok])
  /\ contexts' = contexts \ {u}

\* The context is established, or the call fails with nothing held.
Establish(u, op, todo) ==
  /\ user[u].pc = "idle"
  /\ \/ Set(u, [IdleUser EXCEPT !.pc = "done", !.op = op]) /\ UNCHANGED contexts
     \/ /\ Set(u, [IdleUser EXCEPT !.pc = "next", !.op = op, !.todo = todo])
        /\ contexts' = contexts \cup {u}
  /\ UNCHANGED card

\* Discover: the list of readers fails, the context ends between two readers,
\* or there is no reader left; some readers may have failed.
DiscoverReturns(u) ==
  LET k == user[u]
  IN  /\ k.pc = "next" /\ k.op = "discover"
      /\ \/ Released(u, [k EXCEPT !.found = {}], FALSE)
         \/ k.todo = {} /\ Released(u, k, ~k.errors)
      /\ UNCHANGED card

\* Connect to the next reader: of Discover, or the one Open was given.
Connect(u, r, outcome) ==
  LET k    == user[u]
      next == [k EXCEPT !.todo = @ \ {r}, !.reader = r]
  IN  /\ k.pc = "next" /\ r \in k.todo
      /\ CASE outcome = "ok" ->
                /\ card' = [card EXCEPT ![r] = @ \cup {u}]
                /\ Set(u, [next EXCEPT !.pc = "select"]) /\ UNCHANGED contexts
           [] outcome # "ok" /\ k.op = "discover" ->
                /\ Set(u, [next EXCEPT !.errors = @ \/ outcome = "error"])
                /\ UNCHANGED <<contexts, card>>
           [] OTHER -> Released(u, next, FALSE) /\ UNCHANGED card

Disconnected(u) == [card EXCEPT ![user[u].reader] = @ \ {u}]

selectFIDOAppletBroken(u, outcome) ==
  LET k == user[u]
  IN  /\ k.pc = "select"
      /\ CASE k.op = "discover" ->
                /\ card' = Disconnected(u) /\ UNCHANGED contexts
                /\ Set(u, [k EXCEPT !.pc = "next",
                                    !.found = IF outcome = "fido" THEN @ \cup {k.reader} ELSE @,
                                    !.errors = @ \/ outcome \in {"other status", "error"}])
           [] k.op = "open" /\ outcome = "fido" ->
                Set(u, [k EXCEPT !.pc = "open"]) /\ UNCHANGED <<contexts, card>>
           [] OTHER -> /\ Set(u, [k EXCEPT !.pc = "done"])
                       /\ contexts' = contexts \ {u} /\ UNCHANGED card

\* The applet is selected: Discover closes the card again whatever it says,
\* Open keeps a card that answers 9000 and gives everything back otherwise.
selectFIDOApplet(u, outcome) ==
  LET k == user[u]
  IN  /\ k.pc = "select"
      /\ CASE k.op = "discover" ->
                /\ card' = Disconnected(u) /\ UNCHANGED contexts
                /\ Set(u, [k EXCEPT !.pc = "next",
                                    !.found = IF outcome = "fido" THEN @ \cup {k.reader} ELSE @,
                                    !.errors = @ \/ outcome \in {"other status", "error"}])
           [] k.op = "open" /\ outcome = "fido" ->
                Set(u, [k EXCEPT !.pc = "open"]) /\ UNCHANGED <<contexts, card>>
           [] OTHER -> Released(u, k, FALSE) /\ card' = Disconnected(u)

\* Close: the card, then the context, whether or not the card's close failed.
CloseTransceiver(u, cardFails) ==
  /\ user[u].pc = "open"
  /\ card' = Disconnected(u)
  /\ Released(u, user[u], ~cardFails)

PcscDone == (\A u \in Users : user[u].pc = "done") /\ UNCHANGED pcscVars

PcscNext ==
  \/ \E u \in Users :
       \/ Establish(u, "discover", Readers) \/ DiscoverReturns(u)
       \/ \E r \in Readers : Establish(u, "open", {r})
       \/ \E r \in Readers, outcome \in ConnectOutcomes : Connect(u, r, outcome)
       \/ \E outcome \in SelectOutcomes : selectFIDOApplet(u, outcome)
       \/ \E fails \in BOOLEAN : CloseTransceiver(u, fails)
  \/ PcscDone

PcscSpec == PcscInit /\ [][PcscNext]_pcscVars

----------------------------------------------------------------------------
\* Whatever fails on the way (the manager, the list of readers, a connection,
\* the applet selection, the close of the card), a call that has returned
\* holds neither a context nor a card: only an open transceiver keeps both,
\* until Close.
NothingHeld ==
  \A u \in Users :
    /\ user[u].pc \in {"idle", "done"} => u \notin contexts /\ \A r \in Readers : u \notin card[r]
    /\ user[u].pc = "open" => u \in contexts /\ u \in card[user[u].reader]
=============================================================================
