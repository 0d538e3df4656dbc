---------------------------- MODULE SessionProofs ----------------------------
(***************************************************************************)
(* Proofs about the opening of authenticators at both ends: the native HID *)
(* backend (HidNative), and the fidoctl command that lists, opens and uses *)
(* an authenticator (Fidoctl).                                             *)
(*                                                                         *)
(* HidNative, for any sets of calls and endpoints and any limits: leases,  *)
(* budget and the enumeration slot stay exact in every interleaving of     *)
(* Open, Enumerate, their cancellation and the late work of their          *)
(* goroutines.  CallInv relates a call to its goroutine, LeaseInv says who *)
(* stands behind every lease, SlotInv who holds the enumeration slot; the  *)
(* budget then follows the leases and the slot step by step (BudgetInv).   *)
(*                                                                         *)
(* Fidoctl, for any set of authenticators, addresses and transports: the   *)
(* command operates on what it listed, a reset waits for the removal, and  *)
(* what is reported as done was done.                                      *)
(***************************************************************************)
EXTENDS HidNative, Fidoctl, FiniteSetTheorems, TLAPS

\* Zenon proves the leaves, except for those that cite SMT.
USE Zenon

USE NativeAssumption DEF Calls, None, resourceVars, callVars, workerVars

\* The Open stands behind the lease of its endpoint: its goroutine has not given it
\* back, or the connection it made has not.
Owns(o) == \/ wpc[o] \in {"native", "decide", "closing", "release"}
           \/ conn[o] \in {"open", "retiring", "closed"}

\* A call against its goroutine: what a returned or abandoned Open may have left.
CallInv ==
    /\ \A o \in Opens :
          /\ completed[o] <=> wpc[o] = "gone"
          /\ pc[o] \in {"start", "reserve"} => wpc[o] = "none"
          /\ abandoned[o] => pc[o] = "returned"
          /\ conn[o] # None => wpc[o] = "gone" /\ ~abandoned[o]
          /\ pc[o] = "returned" /\ ~abandoned[o] => wpc[o] \in {"none", "gone"}
          /\ handle[o] => \/ wpc[o] \in {"decide", "closing"}
                          \/ conn[o] \in {"open", "retiring"}
          /\ good[o] /\ wpc[o] = "decide" => handle[o]
    /\ \A o \in Opens : pc[o] = "returned" => (err[o] = "none" <=> conn[o] # None)
    /\ \A n \in Enums : pc[n] \in {"start", "reserve", "budget"} => wpc[n] = "none"

\* The leases are those of their owners, one owner each.
LeaseInv ==
    /\ endpoints = {target[o] : o \in {p \in Opens : Owns(p)}}
    /\ \A o, p \in Opens : Owns(o) /\ Owns(p) /\ target[o] = target[p] => o = p

\* The Enumerate holds the token of the semaphore.
Holds(n) == pc[n] = "budget" \/ Charged(n)

SlotOK == slot \in BOOLEAN

\* The token has one holder, or none.
SlotInv ==
    /\ slot <=> \E n \in Enums : Holds(n)
    /\ \A m, n \in Enums : Holds(m) /\ Holds(n) => m = n

\* A step keeps the program counters and the records of the calls in range.
LEMMA ControlStep == ControlOK /\ [Next]_vars => ControlOK'
<1> SUFFICES ASSUME ControlOK PROVE [Next]_vars => ControlOK'
  OBVIOUS
<1> USE DEF ControlOK
<1>1. ASSUME NEW c \in Calls, Check(c) PROVE ControlOK'
  BY <1>1, SMT DEF Check, Return, Goto
<1>2. ASSUME NEW c \in Calls, Expire(c) PROVE ControlOK'
  BY <1>2 DEF Expire
<1>3. ASSUME NEW c \in Calls, Wake(c) PROVE ControlOK'
  BY <1>3 DEF Wake, Woken, Goto
<1>4. ASSUME NEW o \in Opens, OpenReserve(o) PROVE ControlOK'
  BY <1>4, SMT DEF OpenReserve, Busy, NoRoom, Return, Goto
<1>5. ASSUME NEW o \in Opens, OpenReturn(o) PROVE ControlOK'
  <2>1. CASE completed[o] /\ Return(o, IF conn[o] # None THEN "none" ELSE "io")
    BY <1>5, <2>1 DEF OpenReturn, Abandon, Return
  <2>2. CASE Return(o, "ctx")
    BY <1>5, <2>2 DEF OpenReturn, Abandon, Return
  <2> QED
    BY <1>5, <2>1, <2>2 DEF OpenReturn
<1>6. ASSUME NEW o \in Opens, OpenPublish(o) PROVE ControlOK'
  BY <1>6 DEF OpenPublish, KeepsDevice
<1>7. ASSUME NEW o \in Opens, OpenDiscard(o) PROVE ControlOK'
  BY <1>7 DEF OpenDiscard, KeepsDevice
<1>8. ASSUME NEW o \in Opens, OpenRelease(o) PROVE ControlOK'
  BY <1>8 DEF OpenRelease, ReleaseEndpoint
<1>9. ASSUME NEW o \in Opens, OpenFail(o) PROVE ControlOK'
  BY <1>9 DEF OpenFail
<1>10. ASSUME NEW o \in Opens, NativeOpenReturn(o) PROVE ControlOK'
  BY <1>10, SMT DEF NativeOpenReturn
<1>11. ASSUME NEW o \in Opens, NativeDiscardReturn(o) PROVE ControlOK'
  BY <1>11 DEF NativeDiscardReturn
<1>12. ASSUME NEW o \in Opens, ConnRetire(o) PROVE ControlOK'
  BY <1>12 DEF ConnRetire
<1>13. ASSUME NEW o \in Opens, ConnClose(o) PROVE ControlOK'
  BY <1>13 DEF ConnClose
<1>14. ASSUME NEW o \in Opens, ConnRelease(o) PROVE ControlOK'
  BY <1>14 DEF ConnRelease, ReleaseEndpoint
<1>15. ASSUME NEW n \in Enums, EnumSlot(n) PROVE ControlOK'
  BY <1>15, SMT DEF EnumSlot, Return, Goto
<1>16. ASSUME NEW n \in Enums, EnumBudget(n) PROVE ControlOK'
  BY <1>16, SMT DEF EnumBudget, GiveUpSlot, Return, Goto
<1>17. ASSUME NEW n \in Enums, EnumReturn(n) PROVE ControlOK'
  BY <1>17, SMT DEF EnumReturn, LeaveSlot, Return
<1>18. ASSUME NEW n \in Enums, NativeEnumReturn(n) PROVE ControlOK'
  BY <1>18 DEF NativeEnumReturn
<1>19. ASSUME NEW n \in Enums, EnumRelease(n) PROVE ControlOK'
  BY <1>19 DEF EnumRelease, GiveUpSlot
<1>20. ASSUME NEW n \in Enums, EnumPublish(n) PROVE ControlOK'
  BY <1>20 DEF EnumPublish
<1>21. CASE UNCHANGED vars
  BY <1>21, SMTT(20) DEF vars
<1> QED
  BY <1>1, <1>2, <1>3, <1>4, <1>5, <1>6, <1>7, <1>8, <1>9, <1>10, <1>11, <1>12,
     <1>13, <1>14, <1>15, <1>16, <1>17, <1>18, <1>19, <1>20, <1>21
     DEF Next, OpenCaller, OpenWorker, OpenNative, EnumCaller, EnumWorker

\* Every action keeps CallInv: the goroutine and the caller agree under the mutex of the
\* call on which of them has the device.
LEMMA CallStep == ControlOK /\ CallInv /\ [Next]_vars => CallInv'
<1> SUFFICES ASSUME ControlOK, CallInv PROVE [Next]_vars => CallInv'
  OBVIOUS
<1> USE DEF ControlOK, CallInv
<1>1. ASSUME NEW c \in Calls, Check(c) PROVE CallInv'
  BY <1>1, SMT DEF Check, Return, Goto
<1>2. ASSUME NEW c \in Calls, Expire(c) PROVE CallInv'
  BY <1>2 DEF Expire
<1>3. ASSUME NEW c \in Calls, Wake(c) PROVE CallInv'
  BY <1>3 DEF Wake, Woken, Goto
<1>4. ASSUME NEW o \in Opens, OpenReserve(o) PROVE CallInv'
  BY <1>4, SMT DEF OpenReserve, Busy, NoRoom, Return, Goto
<1>5. ASSUME NEW o \in Opens, OpenReturn(o) PROVE CallInv'
  BY <1>5, SMT DEF OpenReturn, Abandon, Return
<1>6. ASSUME NEW o \in Opens, OpenPublish(o) PROVE CallInv'
  BY <1>6, SMT DEF OpenPublish, KeepsDevice
<1>7. ASSUME NEW o \in Opens, OpenDiscard(o) PROVE CallInv'
  BY <1>7, SMT DEF OpenDiscard, KeepsDevice
<1>8. ASSUME NEW o \in Opens, OpenRelease(o) PROVE CallInv'
  BY <1>8 DEF OpenRelease, ReleaseEndpoint
<1>9. ASSUME NEW o \in Opens, OpenFail(o) PROVE CallInv'
  BY <1>9 DEF OpenFail
<1>10. ASSUME NEW o \in Opens, NativeOpenReturn(o) PROVE CallInv'
  BY <1>10, SMT DEF NativeOpenReturn
<1>11. ASSUME NEW o \in Opens, NativeDiscardReturn(o) PROVE CallInv'
  BY <1>11, SMT DEF NativeDiscardReturn
<1>12. ASSUME NEW o \in Opens, ConnRetire(o) PROVE CallInv'
  BY <1>12, SMT DEF ConnRetire
<1>13. ASSUME NEW o \in Opens, ConnClose(o) PROVE CallInv'
  BY <1>13, SMT DEF ConnClose
<1>14. ASSUME NEW o \in Opens, ConnRelease(o) PROVE CallInv'
  BY <1>14, SMT DEF ConnRelease, ReleaseEndpoint
<1>15. ASSUME NEW n \in Enums, EnumSlot(n) PROVE CallInv'
  BY <1>15, SMT DEF EnumSlot, Return, Goto
<1>16. ASSUME NEW n \in Enums, EnumBudget(n) PROVE CallInv'
  BY <1>16, SMT DEF EnumBudget, GiveUpSlot, Return, Goto
<1>17. ASSUME NEW n \in Enums, EnumReturn(n) PROVE CallInv'
  BY <1>17, SMT DEF EnumReturn, LeaveSlot, Return
<1>18. ASSUME NEW n \in Enums, NativeEnumReturn(n) PROVE CallInv'
  BY <1>18 DEF NativeEnumReturn
<1>19. ASSUME NEW n \in Enums, EnumRelease(n) PROVE CallInv'
  BY <1>19 DEF EnumRelease, GiveUpSlot
<1>20. ASSUME NEW n \in Enums, EnumPublish(n) PROVE CallInv'
  BY <1>20 DEF EnumPublish
<1>21. CASE UNCHANGED vars
  BY <1>21, SMTT(20) DEF vars
<1> QED
  BY <1>1, <1>2, <1>3, <1>4, <1>5, <1>6, <1>7, <1>8, <1>9, <1>10, <1>11, <1>12,
     <1>13, <1>14, <1>15, <1>16, <1>17, <1>18, <1>19, <1>20, <1>21
     DEF Next, OpenCaller, OpenWorker, OpenNative, EnumCaller, EnumWorker

\* Every action keeps LeaseInv: releaseEndpoint is called once per owner, so that a
\* release by ID never takes the lease of another Open.
LEMMA LeaseStep == ControlOK /\ CallInv /\ LeaseInv /\ [Next]_vars => LeaseInv'
<1> SUFFICES ASSUME ControlOK, CallInv, LeaseInv PROVE [Next]_vars => LeaseInv'
  OBVIOUS
<1> USE DEF ControlOK, CallInv, LeaseInv, Owns
<1>1. ASSUME NEW c \in Calls, Check(c) PROVE LeaseInv'
  BY <1>1, SMT DEF Check, Return, Goto
<1>2. ASSUME NEW c \in Calls, Expire(c) PROVE LeaseInv'
  BY <1>2, SMT DEF Expire
<1>3. ASSUME NEW c \in Calls, Wake(c) PROVE LeaseInv'
  BY <1>3, SMT DEF Wake, Woken, Goto
<1>4. ASSUME NEW o \in Opens, OpenReserve(o) PROVE LeaseInv'
  BY <1>4, SMT DEF OpenReserve, Busy, NoRoom, Return, Goto
<1>5. ASSUME NEW o \in Opens, OpenReturn(o) PROVE LeaseInv'
  BY <1>5, SMT DEF OpenReturn, Abandon, Return
<1>6. ASSUME NEW o \in Opens, OpenPublish(o) PROVE LeaseInv'
  BY <1>6, SMT DEF OpenPublish, KeepsDevice
<1>7. ASSUME NEW o \in Opens, OpenDiscard(o) PROVE LeaseInv'
  BY <1>7, SMT DEF OpenDiscard, KeepsDevice
<1>8. ASSUME NEW o \in Opens, OpenRelease(o) PROVE LeaseInv'
  BY <1>8, SMT DEF OpenRelease, ReleaseEndpoint
<1>9. ASSUME NEW o \in Opens, OpenFail(o) PROVE LeaseInv'
  BY <1>9, SMT DEF OpenFail
<1>10. ASSUME NEW o \in Opens, NativeOpenReturn(o) PROVE LeaseInv'
  BY <1>10, SMT DEF NativeOpenReturn
<1>11. ASSUME NEW o \in Opens, NativeDiscardReturn(o) PROVE LeaseInv'
  BY <1>11, SMT DEF NativeDiscardReturn
<1>12. ASSUME NEW o \in Opens, ConnRetire(o) PROVE LeaseInv'
  BY <1>12, SMT DEF ConnRetire
<1>13. ASSUME NEW o \in Opens, ConnClose(o) PROVE LeaseInv'
  BY <1>13, SMT DEF ConnClose
<1>14. ASSUME NEW o \in Opens, ConnRelease(o) PROVE LeaseInv'
  BY <1>14, SMT DEF ConnRelease, ReleaseEndpoint
<1>15. ASSUME NEW n \in Enums, EnumSlot(n) PROVE LeaseInv'
  BY <1>15, SMT DEF EnumSlot, Return, Goto
<1>16. ASSUME NEW n \in Enums, EnumBudget(n) PROVE LeaseInv'
  BY <1>16, SMT DEF EnumBudget, GiveUpSlot, Return, Goto
<1>17. ASSUME NEW n \in Enums, EnumReturn(n) PROVE LeaseInv'
  BY <1>17, SMT DEF EnumReturn, LeaveSlot, Return
<1>18. ASSUME NEW n \in Enums, NativeEnumReturn(n) PROVE LeaseInv'
  BY <1>18, SMT DEF NativeEnumReturn
<1>19. ASSUME NEW n \in Enums, EnumRelease(n) PROVE LeaseInv'
  BY <1>19, SMT DEF EnumRelease, GiveUpSlot
<1>20. ASSUME NEW n \in Enums, EnumPublish(n) PROVE LeaseInv'
  BY <1>20, SMT DEF EnumPublish
<1>21. CASE UNCHANGED vars
  BY <1>21, SMTT(20) DEF vars
<1> QED
  BY <1>1, <1>2, <1>3, <1>4, <1>5, <1>6, <1>7, <1>8, <1>9, <1>10, <1>11, <1>12,
     <1>13, <1>14, <1>15, <1>16, <1>17, <1>18, <1>19, <1>20, <1>21
     DEF Next, OpenCaller, OpenWorker, OpenNative, EnumCaller, EnumWorker

\* Every action keeps SlotInv: the token goes from the caller to its goroutine.
LEMMA SlotStep == ControlOK /\ CallInv /\ SlotInv /\ [Next]_vars => SlotInv'
<1> SUFFICES ASSUME ControlOK, CallInv, SlotInv PROVE [Next]_vars => SlotInv'
  OBVIOUS
<1> USE DEF ControlOK, CallInv, SlotInv, Holds, Charged
<1>1. ASSUME NEW c \in Calls, Check(c) PROVE SlotInv'
  BY <1>1, SMT DEF Check, Return, Goto
<1>2. ASSUME NEW c \in Calls, Expire(c) PROVE SlotInv'
  BY <1>2 DEF Expire
<1>3. ASSUME NEW c \in Calls, Wake(c) PROVE SlotInv'
  BY <1>3 DEF Wake, Woken, Goto
<1>4. ASSUME NEW o \in Opens, OpenReserve(o) PROVE SlotInv'
  BY <1>4, SMT DEF OpenReserve, Busy, NoRoom, Return, Goto
<1>5. ASSUME NEW o \in Opens, OpenReturn(o) PROVE SlotInv'
  BY <1>5, SMT DEF OpenReturn, Abandon, Return
<1>6. ASSUME NEW o \in Opens, OpenPublish(o) PROVE SlotInv'
  BY <1>6, SMT DEF OpenPublish, KeepsDevice
<1>7. ASSUME NEW o \in Opens, OpenDiscard(o) PROVE SlotInv'
  BY <1>7, SMT DEF OpenDiscard, KeepsDevice
<1>8. ASSUME NEW o \in Opens, OpenRelease(o) PROVE SlotInv'
  BY <1>8, SMT DEF OpenRelease, ReleaseEndpoint
<1>9. ASSUME NEW o \in Opens, OpenFail(o) PROVE SlotInv'
  BY <1>9, SMT DEF OpenFail
<1>10. ASSUME NEW o \in Opens, NativeOpenReturn(o) PROVE SlotInv'
  BY <1>10, SMT DEF NativeOpenReturn
<1>11. ASSUME NEW o \in Opens, NativeDiscardReturn(o) PROVE SlotInv'
  BY <1>11, SMT DEF NativeDiscardReturn
<1>12. ASSUME NEW o \in Opens, ConnRetire(o) PROVE SlotInv'
  BY <1>12, SMT DEF ConnRetire
<1>13. ASSUME NEW o \in Opens, ConnClose(o) PROVE SlotInv'
  BY <1>13, SMT DEF ConnClose
<1>14. ASSUME NEW o \in Opens, ConnRelease(o) PROVE SlotInv'
  BY <1>14, SMT DEF ConnRelease, ReleaseEndpoint
<1>15. ASSUME NEW n \in Enums, EnumSlot(n) PROVE SlotInv'
  BY <1>15, SMT DEF EnumSlot, Return, Goto
<1>16. ASSUME NEW n \in Enums, EnumBudget(n) PROVE SlotInv'
  BY <1>16, SMTT(30) DEF EnumBudget, GiveUpSlot, Return, Goto
<1>17. ASSUME NEW n \in Enums, EnumReturn(n) PROVE SlotInv'
  BY <1>17, SMT DEF EnumReturn, LeaveSlot, Return
<1>18. ASSUME NEW n \in Enums, NativeEnumReturn(n) PROVE SlotInv'
  BY <1>18, SMT DEF NativeEnumReturn
<1>19. ASSUME NEW n \in Enums, EnumRelease(n) PROVE SlotInv'
  BY <1>19, SMT DEF EnumRelease, GiveUpSlot
<1>20. ASSUME NEW n \in Enums, EnumPublish(n) PROVE SlotInv'
  BY <1>20, SMT DEF EnumPublish
<1>21. CASE UNCHANGED vars
  BY <1>21, SMT DEF vars
<1> QED
  BY <1>1, <1>2, <1>3, <1>4, <1>5, <1>6, <1>7, <1>8, <1>9, <1>10, <1>11, <1>12,
     <1>13, <1>14, <1>15, <1>16, <1>17, <1>18, <1>19, <1>20, <1>21
     DEF Next, OpenCaller, OpenWorker, OpenNative, EnumCaller, EnumWorker

\* A step keeps the token Boolean.
LEMMA SlotTypeStep == SlotOK /\ [Next]_vars => SlotOK'
<1> SUFFICES ASSUME SlotOK PROVE [Next]_vars => SlotOK'
  OBVIOUS
<1> USE DEF SlotOK
<1>1. ASSUME NEW c \in Calls, Check(c) PROVE SlotOK'
  BY <1>1 DEF Check, Return, Goto
<1>2. ASSUME NEW c \in Calls, Expire(c) PROVE SlotOK'
  BY <1>2 DEF Expire
<1>3. ASSUME NEW c \in Calls, Wake(c) PROVE SlotOK'
  BY <1>3 DEF Wake, Woken, Goto
<1>4. ASSUME NEW o \in Opens, OpenReserve(o) PROVE SlotOK'
  BY <1>4 DEF OpenReserve, Busy, NoRoom, Return, Goto
<1>5. ASSUME NEW o \in Opens, OpenReturn(o) PROVE SlotOK'
  BY <1>5 DEF OpenReturn, Abandon, Return
<1>6. ASSUME NEW o \in Opens, OpenPublish(o) PROVE SlotOK'
  BY <1>6 DEF OpenPublish, KeepsDevice
<1>7. ASSUME NEW o \in Opens, OpenDiscard(o) PROVE SlotOK'
  BY <1>7 DEF OpenDiscard, KeepsDevice
<1>8. ASSUME NEW o \in Opens, OpenRelease(o) PROVE SlotOK'
  BY <1>8 DEF OpenRelease, ReleaseEndpoint
<1>9. ASSUME NEW o \in Opens, OpenFail(o) PROVE SlotOK'
  BY <1>9 DEF OpenFail
<1>10. ASSUME NEW o \in Opens, NativeOpenReturn(o) PROVE SlotOK'
  BY <1>10 DEF NativeOpenReturn
<1>11. ASSUME NEW o \in Opens, NativeDiscardReturn(o) PROVE SlotOK'
  BY <1>11 DEF NativeDiscardReturn
<1>12. ASSUME NEW o \in Opens, ConnRetire(o) PROVE SlotOK'
  BY <1>12 DEF ConnRetire
<1>13. ASSUME NEW o \in Opens, ConnClose(o) PROVE SlotOK'
  BY <1>13 DEF ConnClose
<1>14. ASSUME NEW o \in Opens, ConnRelease(o) PROVE SlotOK'
  BY <1>14 DEF ConnRelease, ReleaseEndpoint
<1>15. ASSUME NEW n \in Enums, EnumSlot(n) PROVE SlotOK'
  BY <1>15 DEF EnumSlot, Return, Goto
<1>16. ASSUME NEW n \in Enums, EnumBudget(n) PROVE SlotOK'
  BY <1>16 DEF EnumBudget, GiveUpSlot, Return, Goto
<1>17. ASSUME NEW n \in Enums, EnumReturn(n) PROVE SlotOK'
  BY <1>17 DEF EnumReturn, LeaveSlot, Return
<1>18. ASSUME NEW n \in Enums, NativeEnumReturn(n) PROVE SlotOK'
  BY <1>18 DEF NativeEnumReturn
<1>19. ASSUME NEW n \in Enums, EnumRelease(n) PROVE SlotOK'
  BY <1>19 DEF EnumRelease, GiveUpSlot
<1>20. ASSUME NEW n \in Enums, EnumPublish(n) PROVE SlotOK'
  BY <1>20 DEF EnumPublish
<1>21. CASE UNCHANGED vars
  BY <1>21 DEF vars
<1> QED
  BY <1>1, <1>2, <1>3, <1>4, <1>5, <1>6, <1>7, <1>8, <1>9, <1>10, <1>11, <1>12,
     <1>13, <1>14, <1>15, <1>16, <1>17, <1>18, <1>19, <1>20, <1>21
     DEF Next, OpenCaller, OpenWorker, OpenNative, EnumCaller, EnumWorker

------------------------------------------------------------------------------
(* The budget. *)

\* The cost of one more lease.
LEMMA OneMore ==
    ASSUME NEW c \in Nat, NEW k \in Nat
    PROVE  c * (k + 1) = c * k + c
BY SMT

\* Fewer leases cost no more.
LEMMA ProductGrows ==
    ASSUME NEW c \in Nat, NEW k \in Nat, NEW m \in Nat, k <= m
    PROVE  c * k <= c * m /\ c * k \in Nat /\ c * m \in Nat
BY SMT

\* What the running enumeration costs.
EnumCost == IF \E n \in Enums : Charged(n) THEN enumerationBytes ELSE 0

\* The budget follows the leases and the enumeration, within its limits.
BudgetInv ==
    /\ IsFiniteSet(endpoints)
    /\ bytes \in Int
    /\ bytes = connectionBytes * Cardinality(endpoints) + EnumCost
    /\ bytes <= maxNativeBytes
    /\ Cardinality(endpoints) <= maxConnections

\* Taking a lease that is free costs connectionBytes.
LEMMA TakeLease ==
    ASSUME BudgetInv, NEW id, id \notin endpoints,
           Cardinality(endpoints) < maxConnections,
           bytes <= maxNativeBytes - connectionBytes,
           endpoints' = endpoints \cup {id},
           bytes' = bytes + connectionBytes,
           EnumCost' = EnumCost
    PROVE  BudgetInv'
<1>1. /\ IsFiniteSet(endpoints')
      /\ Cardinality(endpoints') = Cardinality(endpoints) + 1
  BY FS_AddElement DEF BudgetInv
<1>2. Cardinality(endpoints) \in Nat
  BY FS_CardinalityType DEF BudgetInv
<1>3. EnumCost \in Nat
  BY DEF EnumCost
<1>4. connectionBytes * Cardinality(endpoints')
        = connectionBytes * Cardinality(endpoints) + connectionBytes
  BY <1>1, <1>2, OneMore
<1>5. connectionBytes * Cardinality(endpoints) \in Nat
  BY <1>2, ProductGrows, SMT
<1> QED
  BY <1>1, <1>2, <1>3, <1>4, <1>5, SMT DEF BudgetInv

\* Giving back a lease that is held frees connectionBytes.
LEMMA GiveLease ==
    ASSUME BudgetInv, NEW id, id \in endpoints,
           endpoints' = endpoints \ {id},
           bytes' = bytes - connectionBytes,
           EnumCost' = EnumCost
    PROVE  BudgetInv'
<1>1. /\ IsFiniteSet(endpoints')
      /\ Cardinality(endpoints') = Cardinality(endpoints) - 1
  BY FS_RemoveElement DEF BudgetInv
<1>2. Cardinality(endpoints) \in Nat /\ Cardinality(endpoints') \in Nat
  BY <1>1, FS_CardinalityType DEF BudgetInv
<1>3. EnumCost \in Nat
  BY DEF EnumCost
<1>4. connectionBytes * Cardinality(endpoints)
        = connectionBytes * Cardinality(endpoints') + connectionBytes
  <2>1. Cardinality(endpoints) = Cardinality(endpoints') + 1
    BY <1>1, <1>2, SMT
  <2> QED
    BY <1>2, <2>1, OneMore
<1>5. connectionBytes * Cardinality(endpoints') \in Nat
  BY <1>2, ProductGrows, SMT
<1> QED
  BY <1>1, <1>2, <1>3, <1>4, <1>5, SMT DEF BudgetInv

\* Every action keeps BudgetInv: a lease or an enumeration is charged when it is taken
\* and once only, and refunded when it is given back and once only.
LEMMA BudgetStep ==
    ControlOK /\ CallInv /\ LeaseInv /\ SlotInv /\ BudgetInv /\ [Next]_vars => BudgetInv'
<1> SUFFICES ASSUME ControlOK, CallInv, LeaseInv, SlotInv, BudgetInv
             PROVE  [Next]_vars => BudgetInv'
  OBVIOUS
<1>0. ASSUME endpoints' = endpoints, bytes' = bytes, EnumCost' = EnumCost PROVE BudgetInv'
  BY <1>0 DEF BudgetInv
<1>1. ASSUME \A n \in Enums : wpc'[n] = wpc[n] PROVE EnumCost' = EnumCost
  BY <1>1, SMTT(20) DEF EnumCost, Charged
<1>2. ASSUME NEW c \in Calls, Check(c) \/ Expire(c) \/ Wake(c) PROVE BudgetInv'
  BY <1>0, <1>1, <1>2 DEF Check, Expire, Wake
<1>3. ASSUME NEW o \in Opens, OpenReserve(o) PROVE BudgetInv'
  <2>1. EnumCost' = EnumCost
    BY <1>1, <1>3 DEF OpenReserve, ControlOK
  <2>2. CASE UNCHANGED resourceVars
    BY <1>0, <2>1, <2>2
  <2>3. CASE /\ ~Busy(target[o]) /\ ~NoRoom
             /\ endpoints' = endpoints \cup {target[o]}
             /\ bytes' = bytes + connectionBytes
    <3>1. Cardinality(endpoints) \in Nat /\ bytes \in Int
      BY FS_CardinalityType DEF BudgetInv
    <3>2. /\ target[o] \notin endpoints
          /\ Cardinality(endpoints) < maxConnections
          /\ bytes <= maxNativeBytes - connectionBytes
      BY <2>3, <3>1, SMT DEF Busy, NoRoom
    <3> QED
      BY <2>1, <2>3, <3>2, TakeLease
  <2> QED
    BY <1>3, <2>2, <2>3 DEF OpenReserve
<1>4. ASSUME NEW o \in Opens, OpenReturn(o) \/ OpenPublish(o) \/ OpenDiscard(o) \/ OpenFail(o)
      PROVE  BudgetInv'
  <2>1. EnumCost' = EnumCost
    BY <1>1, <1>4, SMT DEF OpenReturn, OpenPublish, OpenDiscard, OpenFail, ControlOK
  <2> QED
    BY <1>0, <1>4, <2>1 DEF OpenReturn, OpenPublish, OpenDiscard, OpenFail
<1>5. ASSUME NEW o \in Opens, NativeOpenReturn(o) \/ NativeDiscardReturn(o) PROVE BudgetInv'
  <2>1. EnumCost' = EnumCost
    BY <1>1, <1>5 DEF NativeOpenReturn, NativeDiscardReturn, ControlOK
  <2> QED
    BY <1>0, <1>5, <2>1 DEF NativeOpenReturn, NativeDiscardReturn
<1>6. ASSUME NEW o \in Opens, ConnRetire(o) \/ ConnClose(o) PROVE BudgetInv'
  BY <1>0, <1>1, <1>6 DEF ConnRetire, ConnClose
<1>7. ASSUME NEW o \in Opens, OpenRelease(o) \/ ConnRelease(o) PROVE BudgetInv'
  <2>1. EnumCost' = EnumCost
    BY <1>1, <1>7 DEF OpenRelease, ConnRelease, ControlOK
  <2>2. /\ endpoints' = endpoints \ {target[o]}
        /\ bytes' = bytes - connectionBytes
    BY <1>7 DEF OpenRelease, ConnRelease, ReleaseEndpoint
  <2>3. target[o] \in endpoints
    BY <1>7 DEF OpenRelease, ConnRelease, LeaseInv, Owns
  <2> QED
    BY <2>1, <2>2, <2>3, GiveLease
<1>8. ASSUME NEW n \in Enums, EnumSlot(n) \/ EnumReturn(n) PROVE BudgetInv'
  BY <1>0, <1>1, <1>8 DEF EnumSlot, EnumReturn
<1>9. ASSUME NEW n \in Enums, EnumBudget(n) PROVE BudgetInv'
  <2>1. CASE bytes' = bytes /\ wpc' = wpc
    BY <1>0, <1>1, <1>9, <2>1 DEF EnumBudget
  <2>2. CASE /\ ~NoMemory
             /\ bytes' = bytes + enumerationBytes
             /\ wpc' = [wpc EXCEPT ![n] = "native"]
    <3>1. EnumCost = 0
      BY <1>9 DEF EnumBudget, EnumCost, SlotInv, Holds, CallInv, Charged
    <3>2. EnumCost' = enumerationBytes
      BY <2>2 DEF EnumCost, Charged, ControlOK
    <3>3. endpoints' = endpoints
      BY <1>9 DEF EnumBudget
    <3>4. connectionBytes * Cardinality(endpoints) \in Nat
      BY FS_CardinalityType, ProductGrows DEF BudgetInv
    <3> QED
      BY <2>2, <3>1, <3>2, <3>3, <3>4, SMT DEF BudgetInv, NoMemory
  <2> QED
    BY <1>9, <2>1, <2>2 DEF EnumBudget
<1>10. ASSUME NEW n \in Enums, NativeEnumReturn(n) PROVE BudgetInv'
  <2>1. EnumCost' = EnumCost
    BY <1>10 DEF NativeEnumReturn, EnumCost, Charged, ControlOK
  <2> QED
    BY <1>0, <1>10, <2>1 DEF NativeEnumReturn
<1>11. ASSUME NEW n \in Enums, EnumRelease(n) PROVE BudgetInv'
  <2>1. EnumCost = enumerationBytes
    BY <1>11 DEF EnumRelease, EnumCost, Charged
  <2>2. EnumCost' = 0
    BY <1>11 DEF EnumRelease, EnumCost, Charged, ControlOK, SlotInv, Holds
  <2>3. endpoints' = endpoints /\ bytes' = bytes - enumerationBytes
    BY <1>11 DEF EnumRelease
  <2>4. connectionBytes * Cardinality(endpoints) \in Nat
    BY FS_CardinalityType, ProductGrows DEF BudgetInv
  <2> QED
    BY <2>1, <2>2, <2>3, <2>4, SMT DEF BudgetInv
<1>12. ASSUME NEW n \in Enums, EnumPublish(n) PROVE BudgetInv'
  <2>1. EnumCost' = EnumCost
    BY <1>12 DEF EnumPublish, EnumCost, Charged, ControlOK
  <2> QED
    BY <1>0, <1>12, <2>1 DEF EnumPublish
<1>13. CASE UNCHANGED vars
  BY <1>0, <1>1, <1>13 DEF vars
<1> QED
  BY <1>2, <1>3, <1>4, <1>5, <1>6, <1>7, <1>8, <1>9, <1>10, <1>11, <1>12, <1>13
     DEF Next, OpenCaller, OpenWorker, OpenNative, EnumCaller, EnumWorker

------------------------------------------------------------------------------
(* The properties of HidNative. *)

NativeInv == ControlOK /\ CallInv /\ LeaseInv /\ SlotOK /\ SlotInv /\ BudgetInv

\* The inductive invariant of the backend holds in every reachable state.
LEMMA NativeInvHolds == Spec => []NativeInv
<1>1. Init => NativeInv
  <2> SUFFICES ASSUME Init PROVE NativeInv
    OBVIOUS
  <2>1. ControlOK
    BY DEF Init, ControlOK
  <2>2. CallInv
    BY DEF Init, CallInv
  <2>3. LeaseInv
    BY DEF Init, LeaseInv, Owns
  <2>4. SlotOK /\ SlotInv
    BY DEF Init, SlotOK, SlotInv, Holds, Charged
  <2>5. BudgetInv
    <3>1. IsFiniteSet(endpoints) /\ Cardinality(endpoints) = 0
      BY FS_EmptySet DEF Init
    <3>2. EnumCost = 0
      BY DEF Init, EnumCost, Charged
    <3>3. connectionBytes * 0 = 0
      BY SMT
    <3> QED
      BY <3>1, <3>2, <3>3, SMT DEF Init, BudgetInv
  <2> QED
    BY <2>1, <2>2, <2>3, <2>4, <2>5 DEF NativeInv
<1>2. NativeInv /\ [Next]_vars => NativeInv'
  BY ControlStep, CallStep, LeaseStep, SlotTypeStep, SlotStep, BudgetStep DEF NativeInv
<1> QED
  BY <1>1, <1>2, PTL DEF Spec

\* Every variable stays in its range, the budget between zero and its bound.
THEOREM TypeCorrect == Spec => []TypeOK
<1>1. NativeInv => TypeOK
  <2> SUFFICES ASSUME NativeInv PROVE TypeOK
    OBVIOUS
  <2>1. endpoints \subseteq Endpoints
    BY SMT DEF NativeInv, LeaseInv, ControlOK
  <2>2. bytes \in 0..maxNativeBytes
    <3>1. connectionBytes * Cardinality(endpoints) \in Nat
      BY FS_CardinalityType, ProductGrows DEF NativeInv, BudgetInv
    <3>2. EnumCost \in Nat
      BY DEF EnumCost
    <3> QED
      BY <3>1, <3>2, SMT DEF NativeInv, BudgetInv
  <2>3. slot \in BOOLEAN
    BY DEF NativeInv, SlotOK
  <2> QED
    BY <2>1, <2>2, <2>3 DEF NativeInv, TypeOK
<1> QED
  BY NativeInvHolds, <1>1, PTL

\* One native device or native open per endpoint, under its lease.
THEOREM ExclusiveEndpointHolds == Spec => []ExclusiveEndpoint
<1>1. NativeInv => ExclusiveEndpoint
  <2> SUFFICES ASSUME NativeInv PROVE ExclusiveEndpoint
    OBVIOUS
  <2>1. \A o \in Opens : UsesNative(o) => Owns(o)
    BY DEF NativeInv, CallInv, UsesNative, Owns
  <2> QED
    BY <2>1 DEF NativeInv, LeaseInv, ExclusiveEndpoint
<1> QED
  BY NativeInvHolds, <1>1, PTL

\* The budget is what the leases and the running enumeration cost, within the limits,
\* and refuses only what would break them.
THEOREM BudgetIsExactHolds == Spec => []BudgetIsExact
<1>1. NativeInv => BudgetIsExact
  <2> SUFFICES ASSUME BudgetInv PROVE BudgetIsExact
    BY DEF NativeInv
  <2>1. bytes = Reserved
    BY DEF BudgetInv, EnumCost, Reserved
  <2>2. Cardinality(endpoints) \in Nat
    BY FS_CardinalityType DEF BudgetInv
  <2>3. bytes > maxNativeBytes - connectionBytes => bytes + connectionBytes > maxNativeBytes
    BY SMT DEF BudgetInv
  <2>4. bytes > maxNativeBytes - enumerationBytes => bytes + enumerationBytes > maxNativeBytes
    BY SMT DEF BudgetInv
  <2>5. Cardinality(endpoints) >= maxConnections => Cardinality(endpoints) + 1 > maxConnections
    BY <2>2, SMT
  <2> QED
    BY <2>1, <2>3, <2>4, <2>5 DEF BudgetInv, BudgetIsExact, NoRoom, NoMemory
<1> QED
  BY NativeInvHolds, <1>1, PTL

\* Native inventory traversals never overlap.
THEOREM OneTraversalHolds == Spec => []OneTraversal
<1>1. NativeInv => OneTraversal
  BY DEF NativeInv, SlotInv, Holds, Charged, OneTraversal
<1> QED
  BY NativeInvHolds, <1>1, PTL

\* An Open leaves a connection exactly when it returns one.
THEOREM NoOrphanConnectionHolds == Spec => []NoOrphanConnection
<1>1. NativeInv => NoOrphanConnection
  BY DEF NativeInv, CallInv, NoOrphanConnection
<1> QED
  BY NativeInvHolds, <1>1, PTL

\* After the last call and the last connection nothing stays reserved.
THEOREM NothingLeaksHolds == Spec => []NothingLeaks
<1>1. NativeInv => NothingLeaks
  <2> SUFFICES ASSUME NativeInv, Quiet PROVE endpoints = {} /\ bytes = 0 /\ ~slot
    BY DEF NothingLeaks
  <2>1. endpoints = {}
    BY DEF NativeInv, LeaseInv, Owns, Quiet
  <2>2. ~slot
    BY DEF NativeInv, SlotInv, Holds, Charged, Quiet
  <2>3. EnumCost = 0
    BY DEF EnumCost, Charged, Quiet
  <2>4. Cardinality(endpoints) = 0
    BY <2>1, FS_EmptySet
  <2>5. connectionBytes * 0 = 0
    BY SMT
  <2> QED
    BY <2>1, <2>2, <2>3, <2>4, <2>5, SMT DEF NativeInv, BudgetInv
<1> QED
  BY NativeInvHolds, <1>1, PTL

\* The bound covers the largest number of leases and one enumeration.
Covered == maxConnections * connectionBytes + enumerationBytes <= maxNativeBytes

\* With a bound that covers the limits, at most maxConnections leases and their bytes
\* leave room for an enumeration.
LEMMA RoomForEnum ==
    ASSUME BudgetInv, Covered, EnumCost = 0
    PROVE  bytes <= maxNativeBytes - enumerationBytes
<1>1. Cardinality(endpoints) \in Nat /\ Cardinality(endpoints) <= maxConnections
  BY FS_CardinalityType DEF BudgetInv
<1>2. /\ connectionBytes * Cardinality(endpoints) <= connectionBytes * maxConnections
      /\ connectionBytes * maxConnections \in Nat
      /\ connectionBytes * Cardinality(endpoints) \in Nat
  BY <1>1, ProductGrows
<1>3. connectionBytes * maxConnections = maxConnections * connectionBytes
  BY SMT
<1> QED
  BY <1>2, <1>3, SMT DEF BudgetInv, Covered

\* And fewer leave room for another lease beside a running enumeration.
LEMMA RoomForLease ==
    ASSUME BudgetInv, Covered, Cardinality(endpoints) < maxConnections
    PROVE  bytes <= maxNativeBytes - connectionBytes
<1>1. Cardinality(endpoints) \in Nat /\ Cardinality(endpoints) + 1 <= maxConnections
  BY FS_CardinalityType, SMT DEF BudgetInv
<1>2. /\ connectionBytes * (Cardinality(endpoints) + 1) <= connectionBytes * maxConnections
      /\ connectionBytes * maxConnections \in Nat
      /\ connectionBytes * Cardinality(endpoints) \in Nat
  BY <1>1, ProductGrows, SMT
<1>3. connectionBytes * (Cardinality(endpoints) + 1)
        = connectionBytes * Cardinality(endpoints) + connectionBytes
  BY <1>1, OneMore
<1>4. connectionBytes * maxConnections = maxConnections * connectionBytes
  BY SMT
<1>5. EnumCost \in Nat /\ EnumCost <= enumerationBytes
  BY SMT DEF EnumCost
<1> QED
  BY <1>2, <1>3, <1>4, <1>5, SMT DEF BudgetInv, Covered

\* With limits like those of resources.go the memory bound never refuses a call.
THEOREM BudgetCoversLimitsHolds == Spec => []BudgetCoversLimits
<1> DEFINE NoLimit == Covered => \A n \in Enums : err[n] # "limit"
<1>1. Init => NoLimit
  BY SMTT(20) DEF Init
<1>2. NativeInv /\ NoLimit /\ [Next]_vars => NoLimit'
  <2> SUFFICES ASSUME ControlOK, CallInv, SlotInv, BudgetInv, Covered,
                      \A n \in Enums : err[n] # "limit"
               PROVE  [Next]_vars => \A n \in Enums : err'[n] # "limit"
    BY DEF NativeInv, Covered
  <2> DEFINE Goal == \A n \in Enums : err'[n] # "limit"
  <2>1. ASSUME NEW n \in Enums, EnumBudget(n) PROVE Goal
    <3>1. EnumCost = 0
      BY <2>1 DEF EnumBudget, EnumCost, SlotInv, Holds, CallInv, Charged
    <3>2. ~NoMemory
      BY <3>1, RoomForEnum, SMT DEF BudgetInv, NoMemory
    <3> QED
      BY <2>1, <3>2 DEF EnumBudget, Goto
  <2>2. ASSUME NEW c \in Calls, Check(c) \/ Expire(c) \/ Wake(c) PROVE Goal
    BY <2>2 DEF Check, Expire, Wake, Goto, Return, ControlOK
  <2>3. ASSUME NEW o \in Opens, OpenReserve(o) \/ OpenReturn(o) PROVE Goal
    BY <2>3, SMT DEF OpenReserve, OpenReturn, Goto, Return, ControlOK
  <2>4. ASSUME NEW o \in Opens, OpenWorker(o) \/ OpenNative(o) PROVE Goal
    BY <2>4 DEF OpenWorker, OpenPublish, OpenDiscard, OpenRelease, OpenFail, OpenNative,
                NativeOpenReturn, NativeDiscardReturn
  <2>5. ASSUME NEW o \in Opens, ConnRetire(o) \/ ConnClose(o) \/ ConnRelease(o) PROVE Goal
    BY <2>5 DEF ConnRetire, ConnClose, ConnRelease
  <2>6. ASSUME NEW n \in Enums, EnumSlot(n) \/ EnumReturn(n) PROVE Goal
    BY <2>6 DEF EnumSlot, EnumReturn, Goto, Return, ControlOK
  <2>7. ASSUME NEW n \in Enums, EnumWorker(n) \/ NativeEnumReturn(n) PROVE Goal
    BY <2>7 DEF EnumWorker, EnumRelease, EnumPublish, NativeEnumReturn
  <2>8. CASE UNCHANGED vars
    BY <2>8 DEF vars
  <2> QED
    BY <2>1, <2>2, <2>3, <2>4, <2>5, <2>6, <2>7, <2>8 DEF Next, OpenCaller, EnumCaller
<1>3. NativeInv /\ NoLimit => BudgetCoversLimits
  <2> SUFFICES ASSUME BudgetInv, NoLimit, Covered, NoRoom,
                      ~(Cardinality(endpoints) >= maxConnections)
               PROVE  FALSE
    BY DEF NativeInv, BudgetCoversLimits, Covered
  <2>1. Cardinality(endpoints) \in Nat
    BY FS_CardinalityType DEF BudgetInv
  <2>2. bytes <= maxNativeBytes - connectionBytes
    BY <2>1, RoomForLease, SMT
  <2> QED
    BY <2>2, SMT DEF NoRoom, BudgetInv
<1> QED
  BY NativeInvHolds, <1>1, <1>2, <1>3, PTL DEF Spec

-----------------------------------------------------------------------------
(* A command of fidoctl.                                                   *)

Waiting == {"reconnect", "removal", "reinsert", "look", "settle", "returned"}

\* The states of a run: before its operation has returned.
Running == {"open", "select", "connect", "operate"}

CommandTyped ==
    /\ command \in [kind : Kinds, interactive : BOOLEAN, deviceID : IDs \cup {AnyID}]
    /\ stage \in Running \cup Waiting
    /\ round \in {1, 2}
    /\ paused \in BOOLEAN /\ (paused => stage \in {"reconnect", "removal", "reinsert", "settle"})
    /\ session \in Keys \cup {NoKey, LostKey}
    /\ rejected \in Keys \cup {NoKey}
    /\ at \in [Keys -> IDs \cup {NoID}]
    /\ effects \in [Keys -> Nat]

\* What was asked for, listed, looked up and opened fits together.
Matched ==
    /\ stage \in {"select", "connect", "operate"} => command.deviceID \in {AnyID, listed.id}
    /\ stage = "select" => listed.transport = "usb"
    /\ stage = "connect" /\ listed.transport = "usb" => DescriptorMatches(listed, selected)
    /\ OpensWhatItListed

\* The open session and the key that rejected a reset have not been removed, and are
\* where the command looks for its device.
Held ==
    /\ stage = "operate" => session # NoKey
    /\ session \in Keys => stage = "operate" /\ at[session] = listed.id /\ session \in Present
    /\ rejected \in Keys => rejected \in Present /\ command.deviceID \in {AnyID, at[rejected]}

\* A run has at most one effect, and a command that is never run again stays in its
\* first run.
Counted ==
    /\ \A k \in Keys : effects[k] <= IF stage \in Running THEN round - 1 ELSE round
    /\ stage \in {"look", "settle"} \/ (stage = "returned" /\ result = "none") =>
          \E k \in Keys : effects[k] > 0
    /\ stage \in {"reconnect", "removal", "reinsert"} => round = 1
    /\ RunsOnce => round = 1 /\ stage \notin {"reconnect", "removal", "reinsert"}
    /\ Total <= IF stage \in Running THEN round - 1 ELSE round

FidoctlInv == CommandTyped /\ Matched /\ Held /\ ResetNeedsRemoval /\ Counted

\* Total is a number, the same one while no key is affected.
LEMMA TotalType == /\ Total \in Nat
                   /\ effects' = effects => Total' = Total
  <1>1. /\ IsFiniteSet({k \in Keys : effects[k] = 1})
        /\ IsFiniteSet({k \in Keys : effects[k] = 2})
    BY FidoctlAssumption, FS_Subset
  <1>2. /\ Cardinality({k \in Keys : effects[k] = 1}) \in Nat
        /\ Cardinality({k \in Keys : effects[k] = 2}) \in Nat
    BY <1>1, FS_CardinalityType
  <1>3. \A m, n \in Nat : m + 2 * n \in Nat
    BY SMT
  <1> QED
    BY <1>2, <1>3 DEF Total

\* One more effect on a key that had less than two.
LEMMA TotalGrows ==
    ASSUME effects \in [Keys -> Nat], NEW s \in Keys, effects[s] <= 1,
           effects' = [effects EXCEPT ![s] = @ + 1]
    PROVE  Total' = Total + 1
  <1> DEFINE Ones  == {k \in Keys : effects[k] = 1}
             Twos  == {k \in Keys : effects[k] = 2}
             Ones1 == {k \in Keys : effects'[k] = 1}
             Twos1 == {k \in Keys : effects'[k] = 2}
  <1>1. IsFiniteSet(Ones) /\ IsFiniteSet(Twos)
    BY FidoctlAssumption, FS_Subset
  <1>2. /\ Total = Cardinality(Ones) + 2 * Cardinality(Twos)
        /\ Total' = Cardinality(Ones1) + 2 * Cardinality(Twos1)
    BY DEF Total
  <1>3. effects[s] = 0 => Ones1 = Ones \cup {s} /\ s \notin Ones /\ Twos1 = Twos
    <2> SUFFICES ASSUME effects[s] = 0
                 PROVE  Ones1 = Ones \cup {s} /\ s \notin Ones /\ Twos1 = Twos
      OBVIOUS
    <2>1. effects'[s] = 1
      BY SMT
    <2>2. \A k \in Keys : k # s => effects'[k] = effects[k]
      OBVIOUS
    <2>3. 0 # 1 /\ 0 # 2 /\ 1 # 2
      BY SMT
    <2> QED
      BY <2>1, <2>2, <2>3
  <1>4. effects[s] = 1 => /\ Ones1 = Ones \ {s} /\ s \in Ones
                          /\ Twos1 = Twos \cup {s} /\ s \notin Twos
    <2> SUFFICES ASSUME effects[s] = 1
                 PROVE  /\ Ones1 = Ones \ {s} /\ s \in Ones
                        /\ Twos1 = Twos \cup {s} /\ s \notin Twos
      OBVIOUS
    <2>1. effects'[s] = 2
      BY SMT
    <2>2. \A k \in Keys : k # s => effects'[k] = effects[k]
      OBVIOUS
    <2>3. 1 # 2
      BY SMT
    <2> QED
      BY <2>1, <2>2, <2>3
  <1>5. effects[s] \in {0, 1}
    BY SMT
  <1> HIDE DEF Ones, Twos, Ones1, Twos1
  <1>6. Cardinality(Ones) \in Nat /\ Cardinality(Twos) \in Nat
    BY <1>1, FS_CardinalityType
  <1>7. CASE effects[s] = 0
    <2>1. Cardinality(Ones1) = Cardinality(Ones) + 1
      BY <1>1, <1>3, <1>7, FS_AddElement
    <2> QED
      BY <1>2, <1>3, <1>6, <1>7, <2>1, SMT
  <1>8. CASE effects[s] = 1
    <2>1. Cardinality(Ones1) = Cardinality(Ones) - 1
      BY <1>1, <1>4, <1>8, FS_RemoveElement
    <2>2. Cardinality(Twos1) = Cardinality(Twos) + 1
      BY <1>1, <1>4, <1>8, FS_AddElement
    <2> QED
      BY <1>2, <1>6, <2>1, <2>2, SMT
  <1> QED
    BY <1>5, <1>7, <1>8

\* Initially.
LEMMA FidoctlInitInv == CommandInit => FidoctlInv
  <1> SUFFICES ASSUME CommandInit PROVE FidoctlInv
    OBVIOUS
  <1>1. CommandTyped
    BY FidoctlAssumption DEF CommandInit, CommandTyped, Running, Waiting, NoKey, NoID, LostKey
  <1>2. Matched /\ Held /\ ResetNeedsRemoval
    BY FidoctlAssumption
    DEF CommandInit, Matched, OpensWhatItListed, Held, ResetNeedsRemoval, NoKey
  <1>3. Counted
    <2>1. /\ {k \in Keys : effects[k] = 1} = {}
          /\ {k \in Keys : effects[k] = 2} = {}
      BY SMT DEF CommandInit
    <2>2. Total = 0
      BY <2>1, FS_EmptySet, SMT DEF Total
    <2> QED
      BY <2>2, SMT DEF CommandInit, Counted, Running
  <1> QED
    BY <1>1, <1>2, <1>3 DEF FidoctlInv

\* A failed run goes on to wait, or ends with an error.
LEMMA RunFailsFacts ==
    ASSUME NEW e, NEW d, RunFails(e, d), CommandTyped, e # "none"
    PROVE  /\ stage' \in {"reconnect", "removal", "returned"}
           /\ stage' # "returned" => round = 1
           /\ stage' = "returned" => result' # "none"
           /\ RunsOnce => stage' = "returned"
  BY DEF RunFails, CommandReturns, Retries, RetriesReset, RunsOnce, Kinds, ResetWindow,
         CommandTyped

\* A run that fails before its session is open keeps the invariant.
LEMMA FailsBeforeOpen ==
    ASSUME FidoctlInv, NEW e, RunFails(e, NoDevice), e # "none",
           stage \in {"open", "select", "connect"},
           UNCHANGED <<commandVars, worldVars, round, paused, session, effects>>
    PROVE  FidoctlInv'
  <1> USE DEF commandVars, worldVars
  <1>1. /\ stage' \in {"reconnect", "removal", "returned"}
        /\ stage' # "returned" => round = 1
        /\ stage' = "returned" => result' # "none"
        /\ RunsOnce => stage' = "returned"
    BY RunFailsFacts DEF FidoctlInv
  <1>2. CommandTyped'
    BY <1>1 DEF FidoctlInv, CommandTyped, Waiting
  <1>3. Matched'
    BY <1>1 DEF FidoctlInv, Matched, OpensWhatItListed
  <1>4. Held' /\ ResetNeedsRemoval'
    BY <1>1 DEF FidoctlInv, Held, Present, ResetNeedsRemoval
  <1>5. Counted'
    BY <1>1, TotalType, SMT DEF FidoctlInv, CommandTyped, Counted, Running, RunsOnce
  <1> QED
    BY <1>2, <1>3, <1>4, <1>5 DEF FidoctlInv

\* What Chosen returns was listed, and is what the command asked for.
LEMMA ChosenFacts ==
    ASSUME NEW failed, NEW d \in Chosen(Discover(failed)), CommandTyped
    PROVE  /\ \E k \in Present : d = Descriptor(k)
           /\ command.deviceID \in {AnyID, d.id}
           /\ d.transport \in {"usb", "nfc"}
  <1>1. d \in Discover(failed)
    BY DEF Chosen, First
  <1>2. PICK k \in Present : d = Descriptor(k)
    BY <1>1 DEF Discover
  <1>3. command.deviceID \in {AnyID, d.id}
    BY DEF Chosen
  <1>4. d.transport \in {"usb", "nfc"}
    BY <1>2, FidoctlAssumption DEF Present, Descriptor
  <1> QED
    BY <1>2, <1>3, <1>4

\* transportLocator.Open.
LEMMA LocatorOpenInv == FidoctlInv /\ LocatorOpen => FidoctlInv'
  <1> SUFFICES ASSUME FidoctlInv, LocatorOpen PROVE FidoctlInv'
    OBVIOUS
  <1>0. stage = "open" /\ UNCHANGED <<commandVars, worldVars, round, paused, selected, session, effects>>
    BY DEF LocatorOpen
  <1>1. CASE \E e \in Failures : RunFails(e, NoDevice)
    BY <1>0, <1>1, FailsBeforeOpen DEF Failures
  <1>2. CASE RunFails("lost", NoDevice)
    BY <1>0, <1>2, FailsBeforeOpen
  <1>3. ASSUME NEW failed \in SUBSET Faulty, NEW d \in Chosen(Discover(failed)), listed' = d,
               stage' = IF d.transport = "usb" THEN "select" ELSE "connect", UNCHANGED <<previous, result>>
        PROVE  FidoctlInv'
    <2>1. command.deviceID \in {AnyID, d.id} /\ d.transport \in {"usb", "nfc"}
      BY ChosenFacts DEF FidoctlInv
    <2>2. CommandTyped'
      BY <1>0, <1>3 DEF FidoctlInv, CommandTyped, Running, commandVars, worldVars
    <2>3. Matched'
      BY <1>0, <1>3, <2>1 DEF Matched, OpensWhatItListed, commandVars
    <2>4. Held' /\ ResetNeedsRemoval'
      BY <1>0, <1>3 DEF FidoctlInv, Held, ResetNeedsRemoval, Present, commandVars, worldVars
    <2>5. Counted'
      BY <1>0, <1>3, TotalType DEF FidoctlInv, Counted, Running, RunsOnce, commandVars
    <2> QED
      BY <2>2, <2>3, <2>4, <2>5 DEF FidoctlInv
  <1> QED
    BY <1>1, <1>2, <1>3 DEF LocatorOpen

\* HIDBackend.Open, up to the native open.
LEMMA SelectEndpointInv == FidoctlInv /\ SelectEndpoint => FidoctlInv'
  <1> SUFFICES ASSUME FidoctlInv, SelectEndpoint PROVE FidoctlInv'
    OBVIOUS
  <1>0. stage = "select" /\ UNCHANGED <<commandVars, worldVars, round, paused, listed, session, effects>>
    BY DEF SelectEndpoint
  <1>1. CASE \E e \in Failures : RunFails(e, NoDevice)
    BY <1>0, <1>1, FailsBeforeOpen DEF Failures
  <1>2. CASE RunFails("lost", NoDevice) \/ RunFails("other", NoDevice)
    BY <1>0, <1>2, FailsBeforeOpen
  <1>3. ASSUME NEW k \in Present, DescriptorMatches(listed, Descriptor(k)),
               selected' = Descriptor(k), stage' = "connect", UNCHANGED <<previous, result>>
        PROVE  FidoctlInv'
    <2>1. CommandTyped'
      BY <1>0, <1>3 DEF FidoctlInv, CommandTyped, Running, commandVars, worldVars
    <2>2. Matched'
      BY <1>0, <1>3 DEF FidoctlInv, Matched, OpensWhatItListed, DescriptorMatches, commandVars
    <2>3. Held' /\ ResetNeedsRemoval'
      BY <1>0, <1>3 DEF FidoctlInv, Held, ResetNeedsRemoval, Present, commandVars, worldVars
    <2>4. Counted'
      BY <1>0, <1>3, TotalType DEF FidoctlInv, Counted, Running, RunsOnce, commandVars
    <2> QED
      BY <2>1, <2>2, <2>3, <2>4 DEF FidoctlInv
  <1> QED
    BY <1>1, <1>2, <1>3 DEF SelectEndpoint

\* The native open, or the connection to a card.
LEMMA ConnectInv == FidoctlInv /\ Connect => FidoctlInv'
  <1> SUFFICES ASSUME FidoctlInv, Connect PROVE FidoctlInv'
    OBVIOUS
  <1>0. stage = "connect" /\ UNCHANGED <<commandVars, worldVars, round, paused, listed, effects>>
    BY DEF Connect
  <1>1. CASE (\E e \in Failures : RunFails(e, NoDevice)) /\ UNCHANGED session
    BY <1>0, <1>1, FailsBeforeOpen DEF Failures
  <1>2. ASSUME NEW k \in Present, Connectable(k), session' = k, selected' = Device(k),
               stage' = "operate", UNCHANGED <<previous, result>>
        PROVE  FidoctlInv'
    <2>0. k \in Keys /\ at[k] = listed.id /\ Transport[k] = listed.transport
      BY <1>2 DEF Connectable, Present
    <2>1. CommandTyped'
      BY <1>0, <1>2, <2>0 DEF FidoctlInv, CommandTyped, Running, commandVars, worldVars
    <2>2. Transport[k] = "usb" => listed.product = Product[k] /\ listed.serial \in {NoSerial, Serial[k]}
      BY <1>0, <1>2, <2>0
      DEF FidoctlInv, Matched, DescriptorMatches, Connectable, MatchesEndpoint, Descriptor
    <2>3. Matched'
      BY <1>0, <1>2, <2>2 DEF FidoctlInv, Matched, OpensWhatItListed, commandVars
    <2>4. Held' /\ ResetNeedsRemoval'
      BY <1>0, <1>2, <2>0, FidoctlAssumption
      DEF FidoctlInv, Held, ResetNeedsRemoval, Present, commandVars, worldVars, NoKey
    <2>5. Counted'
      BY <1>0, <1>2, TotalType DEF FidoctlInv, Counted, Running, RunsOnce, commandVars
    <2> QED
      BY <2>1, <2>3, <2>4, <2>5 DEF FidoctlInv
  <1> QED
    BY <1>1, <1>2 DEF Connect

\* The operation, its effect counted.
LEMMA OperateInv == FidoctlInv /\ Operate => FidoctlInv'
  <1> SUFFICES ASSUME FidoctlInv, Operate PROVE FidoctlInv'
    OBVIOUS
  <1>0. /\ stage = "operate" /\ session' = NoKey
        /\ UNCHANGED <<commandVars, at, window, plugs, round, paused, listed, selected>>
    BY DEF Operate
  <1>1. CommandTyped /\ Held /\ Counted
    BY DEF FidoctlInv
  <1>2. rejected' = rejected \/ (session \in Keys /\ rejected' = session)
    BY <1>0, <1>1 DEF Operate, Rejects, CommandTyped, Held, NoKey
  <1>3. \/ UNCHANGED effects
        \/ session \in Keys /\ effects' = [effects EXCEPT ![session] = @ + 1]
    BY <1>0, <1>1 DEF Operate, CommandTyped, Held, NoKey
  <1>4. \/ RunSucceeds(selected) /\ session \in Keys
             /\ effects' = [effects EXCEPT ![session] = @ + 1]
        \/ \E e \in {"lost", "other", "notAllowed"} : RunFails(e, selected)
    BY <1>0, <1>1 DEF Operate, Failures, CommandTyped, Held, NoKey
  <1>5. /\ stage' \in {"reconnect", "removal", "returned", "look"}
        /\ stage' \in {"reconnect", "removal"} => round = 1
        /\ RunsOnce => stage' \in {"returned", "look"}
        /\ stage' = "look" \/ (stage' = "returned" /\ result' = "none") =>
              session \in Keys /\ effects' = [effects EXCEPT ![session] = @ + 1]
    <2>1. CASE RunSucceeds(selected) /\ session \in Keys
                 /\ effects' = [effects EXCEPT ![session] = @ + 1]
      BY <2>1 DEF RunSucceeds, CommandReturns, RunsOnce
    <2>2. CASE \E e \in {"lost", "other", "notAllowed"} : RunFails(e, selected)
      BY <1>1, <2>2, RunFailsFacts
    <2> QED
      BY <1>4, <2>1, <2>2
  <1>6. CommandTyped'
    BY <1>0, <1>1, <1>2, <1>3, <1>5, SMT DEF CommandTyped, Waiting, commandVars
  <1>7. Matched'
    BY <1>0, <1>5 DEF Matched, OpensWhatItListed
  <1>8. Held'
    <2>1. session' \notin Keys
      BY <1>0, FidoctlAssumption DEF NoKey
    <2>2. session \in Keys => command.deviceID \in {AnyID, at[session]} /\ session \in Present
      BY <1>0, <1>1 DEF FidoctlInv, Matched, Held
    <2> QED
      BY <1>0, <1>1, <1>2, <1>5, <2>1, <2>2 DEF Held, Present, commandVars
  <1>9. ResetNeedsRemoval'
    BY <1>5 DEF ResetNeedsRemoval
  <1>10. Counted'
    <2>1. \A k \in Keys : effects[k] \in Nat /\ effects[k] <= round - 1 /\ round \in {1, 2}
      BY <1>0, <1>1 DEF CommandTyped, Counted, Running
    <2>2. \A k \in Keys : effects'[k] \in Nat /\ effects'[k] <= round
      BY <1>1, <1>3, <2>1, SMT DEF CommandTyped
    <2>3. session \in Keys /\ effects' = [effects EXCEPT ![session] = @ + 1] =>
             \E k \in Keys : effects'[k] > 0
      BY <1>1, <2>1, SMT DEF CommandTyped
    <2>4. Total' <= round
      <3>1. Total \in Nat /\ Total <= round - 1
        BY <1>0, <1>1, TotalType DEF Counted, Running
      <3>2. Total' \in {Total, Total + 1}
        <4>1. \A k \in Keys : effects[k] <= 1
          BY <2>1, SMT
        <4> QED
          BY <1>1, <1>3, <4>1, TotalType, TotalGrows DEF CommandTyped
      <3>3. round \in {1, 2}
        BY <1>1 DEF CommandTyped
      <3> QED
        BY <3>1, <3>2, <3>3, SMT
    <2>5. RunsOnce' => round' = 1 /\ stage' \notin {"reconnect", "removal", "reinsert"}
      BY <1>0, <1>1, <1>5 DEF Counted, RunsOnce, commandVars
    <2> QED
      BY <1>0, <1>5, <2>2, <2>3, <2>4, <2>5 DEF Counted, Running
  <1> QED
    BY <1>6, <1>7, <1>8, <1>9, <1>10 DEF FidoctlInv

\* The key that rejected a reset is seen by every listing that can see its transport.
LEMMA RejectedIsListed ==
    ASSUME FidoctlInv, rejected # NoKey, NEW failed \in SUBSET Faulty,
           Transport[rejected] \notin Faulty
    PROVE  Available(Discover(failed))
  <1>1. /\ rejected \in Present /\ command.deviceID \in {AnyID, at[rejected]}
        /\ Descriptor(rejected) \in Discover(failed)
    BY DEF FidoctlInv, CommandTyped, Held, Discover
  <1>2. Descriptor(rejected).id = at[rejected]
    BY DEF Descriptor
  <1> QED
    BY <1>1, <1>2 DEF Available

\* The loops that wait for a device, and the look after a PIN command.
LEMMA WaitInv == FidoctlInv /\ Wait => FidoctlInv'
  <1> SUFFICES ASSUME FidoctlInv, Wait PROVE FidoctlInv'
    OBVIOUS
  <1>0. UNCHANGED <<commandVars, worldVars, listed, selected, session, previous, effects>>
    BY DEF Wait, PollReconnect, PollRemoval, PollReinsert, PollSettle, LookOnce, Poll
  <1>1. \/ stage' = stage /\ round' = round /\ result' = result
        \/ stage \in {"reconnect", "reinsert"} /\ stage' = "open" /\ round' = 2 /\ result' = result
        \/ /\ stage = "removal" /\ stage' = "reinsert" /\ round' = round
           /\ \E failed \in SUBSET Faulty : ~Available(Discover(failed))
        \/ stage \in {"settle", "look"} /\ stage' \in {"returned", "settle"} /\ round' = round
    BY DEF Wait, PollReconnect, PollRemoval, PollReinsert, PollSettle, LookOnce, Poll, Again, CommandReturns
  <1>2. paused' \in BOOLEAN /\ (paused' => stage' \in {"reconnect", "removal", "reinsert", "settle"})
    <2>1. \/ paused' = TRUE /\ stage' = stage /\ stage \in {"reconnect", "removal", "reinsert", "settle"}
          \/ paused' = paused /\ ~paused
          \/ paused' = paused /\ stage = "look"
      BY DEF Wait, PollReconnect, PollRemoval, PollReinsert, PollSettle, LookOnce, Poll
    <2>2. paused \in BOOLEAN /\ (stage = "look" => ~paused)
      BY DEF FidoctlInv, CommandTyped
    <2>3. CASE paused' = TRUE /\ stage' = stage /\ stage \in {"reconnect", "removal", "reinsert", "settle"}
      BY <2>3
    <2>4. CASE paused' = paused /\ ~paused
      BY <2>2, <2>4
    <2> QED
      BY <2>1, <2>2, <2>3, <2>4
  <1>3. CommandTyped'
    BY <1>0, <1>1, <1>2 DEF FidoctlInv, CommandTyped, Running, Waiting, commandVars, worldVars
  <1>4. Matched'
    BY <1>0, <1>1 DEF FidoctlInv, Matched, OpensWhatItListed, commandVars
  <1>5. Held'
    BY <1>0, <1>1 DEF FidoctlInv, Held, Present, commandVars, worldVars
  <1>6. ResetNeedsRemoval'
    <2>1. CASE stage' = stage \/ stage' # "reinsert"
      BY <1>0, <2>1 DEF FidoctlInv, ResetNeedsRemoval, worldVars
    <2>2. CASE \E failed \in SUBSET Faulty : ~Available(Discover(failed))
      BY <1>0, <2>2, RejectedIsListed DEF ResetNeedsRemoval, worldVars
    <2> QED
      BY <1>1, <2>1, <2>2
  <1>7. Counted'
    <2>0. CommandTyped /\ Counted /\ command' = command /\ effects' = effects
      BY <1>0 DEF FidoctlInv, commandVars
    <2>1. CASE stage' = stage /\ round' = round /\ result' = result
      BY <2>0, <2>1, TotalType DEF Counted, RunsOnce
    <2>2. CASE stage \in {"reconnect", "reinsert"} /\ stage' = "open" /\ round' = 2
      <3>1. \A k \in Keys : effects[k] \in Nat /\ effects[k] <= round /\ round \in {1, 2}
        BY <2>0, <2>2 DEF CommandTyped, Counted, Running
      <3>2. \A k \in Keys : effects'[k] <= 1
        <4>1. round = 1
          BY <2>0, <2>2 DEF CommandTyped, Counted
        <4> QED
          BY <2>0, <3>1, <4>1
      <3> QED
        BY <2>0, <2>2, <3>2, TotalType, SMT DEF Counted, Running, RunsOnce
    <2>3. CASE stage = "removal" /\ stage' = "reinsert" /\ round' = round
      BY <2>0, <2>3, TotalType DEF Counted, Running, RunsOnce
    <2>4. CASE stage \in {"settle", "look"} /\ stage' \in {"returned", "settle"} /\ round' = round
      BY <2>0, <2>4, TotalType DEF Counted, Running, RunsOnce
    <2> QED
      BY <1>1, <2>1, <2>2, <2>3, <2>4
  <1> QED
    BY <1>3, <1>4, <1>5, <1>6, <1>7 DEF FidoctlInv

\* The ticker, the timeout and a wait that it ends.
LEMMA PauseInv == FidoctlInv /\ (Tick \/ PollCancelled \/ CommandExpires \/ CommandFinished) => FidoctlInv'
  <1> SUFFICES ASSUME FidoctlInv, Tick \/ PollCancelled \/ CommandExpires \/ CommandFinished PROVE FidoctlInv'
    OBVIOUS
  <1>0. UNCHANGED <<command, worldVars, round, listed, selected, session, effects>>
    BY DEF Tick, PollCancelled, CommandExpires, CommandFinished, fidoctlVars, commandVars
  <1>1. CASE UNCHANGED <<stage, result>> /\ (paused' = paused \/ paused' = FALSE)
    <2>0. paused' \in BOOLEAN /\ (paused' => paused)
      <3>1. paused \in BOOLEAN
        BY DEF FidoctlInv, CommandTyped
      <3>2. CASE paused' = paused
        BY <3>1, <3>2
      <3>3. CASE paused' = FALSE
        BY <3>3
      <3> QED
        BY <1>1, <3>2, <3>3
    <2>1. CommandTyped'
      BY <1>0, <1>1, <2>0 DEF FidoctlInv, CommandTyped, worldVars
    <2>2. Matched'
      BY <1>0, <1>1 DEF FidoctlInv, Matched, OpensWhatItListed
    <2>3. Held' /\ ResetNeedsRemoval'
      BY <1>0, <1>1 DEF FidoctlInv, Held, Present, ResetNeedsRemoval, worldVars
    <2>4. Counted'
      BY <1>0, <1>1, TotalType DEF FidoctlInv, Counted, RunsOnce
    <2> QED
      BY <2>1, <2>2, <2>3, <2>4 DEF FidoctlInv
  <1>2. CASE PollCancelled
    <2>0. /\ stage' = "returned" /\ (result' = "none" => stage = "settle") /\ paused' = FALSE
          /\ stage \in {"reconnect", "removal", "reinsert", "settle"}
      BY <1>2 DEF PollCancelled, Cancellable, CommandReturns, FidoctlInv, CommandTyped
    <2>1. CommandTyped'
      BY <1>0, <2>0 DEF FidoctlInv, CommandTyped, Waiting, worldVars
    <2>2. Matched' /\ Held' /\ ResetNeedsRemoval'
      BY <1>0, <2>0
      DEF FidoctlInv, Matched, OpensWhatItListed, Held, Present, ResetNeedsRemoval, worldVars
    <2>3. Counted'
      BY <1>0, <2>0, TotalType DEF FidoctlInv, Counted, Running, RunsOnce
    <2> QED
      BY <2>1, <2>2, <2>3 DEF FidoctlInv
  <1> QED
    BY <1>1, <1>2 DEF Tick, CommandExpires, CommandFinished, fidoctlVars

\* A key is removed: its session is lost, and a reset may be tried again.
LEMMA UnplugInv == \A k \in Keys : FidoctlInv /\ Unplug(k) => FidoctlInv'
  <1> SUFFICES ASSUME NEW k \in Keys, FidoctlInv, Unplug(k) PROVE FidoctlInv'
    OBVIOUS
  <1>0. /\ UNCHANGED <<commandVars, stage, round, paused, listed, selected, result, effects>>
        /\ at' = [at EXCEPT ![k] = NoID]
        /\ rejected' = (IF rejected = k THEN NoKey ELSE rejected)
        /\ session' = (IF session = k THEN LostKey ELSE session)
        /\ NoKey \notin Keys /\ LostKey \notin Keys /\ NoKey # LostKey
    BY FidoctlAssumption DEF Unplug, NoKey, LostKey
  <1>1. CommandTyped'
    BY <1>0 DEF FidoctlInv, CommandTyped, commandVars
  <1>2. \A j \in Keys : j # k => at'[j] = at[j]
    BY <1>0 DEF FidoctlInv, CommandTyped
  <1>3. session' # k /\ rejected' # k /\ (session' \in Keys => session' = session)
        /\ (rejected' \in Keys => rejected' = rejected)
    BY <1>0
  <1>4. Matched'
    BY <1>0, <1>3 DEF FidoctlInv, Matched, OpensWhatItListed, commandVars
  <1>5. Held'
    BY <1>0, <1>2, <1>3 DEF FidoctlInv, Held, Present, commandVars
  <1>6. ResetNeedsRemoval' /\ Counted'
    BY <1>0, TotalType DEF FidoctlInv, ResetNeedsRemoval, Counted, RunsOnce, commandVars
  <1> QED
    BY <1>1, <1>4, <1>5, <1>6 DEF FidoctlInv

\* A key is plugged in, or its reset window closes.
LEMMA PlugInv ==
    \A k \in Keys : FidoctlInv /\ (WindowCloses(k) \/ \E id \in Ports[k] : Plug(k, id)) => FidoctlInv'
  <1> SUFFICES ASSUME NEW k \in Keys, FidoctlInv,
                      WindowCloses(k) \/ \E id \in Ports[k] : Plug(k, id)
               PROVE  FidoctlInv'
    OBVIOUS
  <1>0. UNCHANGED <<commandVars, rejected, stage, round, paused, listed, selected, session, result, effects>>
    BY DEF WindowCloses, Plug
  <1>1. \/ at' = at
        \/ \E id \in Ports[k] : k \notin Present /\ at' = [at EXCEPT ![k] = id]
    BY DEF WindowCloses, Plug
  <1>2. \A id \in Ports[k] : id \in IDs
    BY DEF IDs
  <1>3. CommandTyped'
    BY <1>0, <1>1, <1>2, ZenonT(40) DEF FidoctlInv, CommandTyped, commandVars
  <1>4. \A j \in Present : j \in Present' /\ at'[j] = at[j]
    BY <1>1 DEF FidoctlInv, CommandTyped, Present
  <1>5. Matched' /\ ResetNeedsRemoval' /\ Counted'
    BY <1>0, TotalType
    DEF FidoctlInv, Matched, OpensWhatItListed, ResetNeedsRemoval, Counted, RunsOnce, commandVars
  <1>6. Held'
    BY <1>0, <1>4 DEF FidoctlInv, Held, commandVars
  <1> QED
    BY <1>3, <1>5, <1>6 DEF FidoctlInv

\* Every step keeps the invariant.
LEMMA FidoctlNextInv == FidoctlInv /\ [CommandNext]_fidoctlVars => FidoctlInv'
  <1> SUFFICES ASSUME FidoctlInv, [CommandNext]_fidoctlVars PROVE FidoctlInv'
    OBVIOUS
  <1>1. CASE Run
    BY <1>1, LocatorOpenInv, SelectEndpointInv, ConnectInv, OperateInv DEF Run
  <1>2. CASE Wait
    BY <1>2, WaitInv
  <1>3. CASE Tick \/ PollCancelled \/ CommandExpires \/ CommandFinished \/ UNCHANGED fidoctlVars
    <2>1. CASE UNCHANGED fidoctlVars
      <3>1. CommandTyped'
        BY <2>1 DEF FidoctlInv, CommandTyped, fidoctlVars, commandVars, worldVars
      <3>2. Matched'
        BY <2>1 DEF FidoctlInv, Matched, OpensWhatItListed, fidoctlVars, commandVars
      <3>3. Held' /\ ResetNeedsRemoval'
        BY <2>1
        DEF FidoctlInv, Held, Present, ResetNeedsRemoval, fidoctlVars, commandVars, worldVars
      <3>4. Counted'
        BY <2>1, TotalType DEF FidoctlInv, Counted, RunsOnce, fidoctlVars, commandVars
      <3> QED
        BY <3>1, <3>2, <3>3, <3>4 DEF FidoctlInv
    <2> QED
      BY <1>3, <2>1, PauseInv
  <1>4. CASE \E k \in Keys : Unplug(k) \/ WindowCloses(k) \/ \E id \in Ports[k] : Plug(k, id)
    BY <1>4, UnplugInv, PlugInv
  <1> QED
    BY <1>1, <1>2, <1>3, <1>4 DEF CommandNext

\* The invariant holds in every behaviour.
THEOREM FidoctlInvariant == CommandSpec => []FidoctlInv
  BY FidoctlInitInv, FidoctlNextInv, PTL DEF CommandSpec

\* OpensWhatItListed: the operation runs on a USB key that fits the descriptor that
\* was listed, however keys are exchanged between the listing, the fresh inventory
\* of HIDBackend.Open and the native open.
THEOREM OperationFitsListing == CommandSpec => []OpensWhatItListed
  <1>1. FidoctlInv => OpensWhatItListed
    BY DEF FidoctlInv, Matched
  <1> QED
    BY <1>1, FidoctlInvariant, PTL

\* ResetNeedsRemoval: waitForResetWindow lets a rejected reset be tried again only
\* after its device has gone, where listings can show that.
THEOREM ResetWaitsForRemoval == CommandSpec => []ResetNeedsRemoval
  <1>1. FidoctlInv => ResetNeedsRemoval
    BY DEF FidoctlInv
  <1> QED
    BY <1>1, FidoctlInvariant, PTL

\* SuccessIsReal: a command that succeeds has had an effect, a run has at most one, and
\* a PIN command, which is never run again, never has two, whatever becomes of its
\* connection.
THEOREM SuccessHadItsEffect == CommandSpec => []SuccessIsReal
  <1>1. ASSUME FidoctlInv PROVE SuccessIsReal
    <2> DEFINE Once  == {k \in Keys : effects[k] = 1}
               Twice == {k \in Keys : effects[k] = 2}
    <2>0. CommandTyped /\ Counted
      BY <1>1 DEF FidoctlInv
    <2>1. IsFiniteSet(Once) /\ IsFiniteSet(Twice)
      BY FidoctlAssumption, FS_Subset
    <2>2. Cardinality(Once) \in Nat /\ Cardinality(Twice) \in Nat
      BY <2>1, FS_CardinalityType
    <2>3. ASSUME stage = "returned", result = "none"
          PROVE  Cardinality(Once) + 2 * Cardinality(Twice) > 0
      <3>1. PICK k \in Keys : effects[k] > 0
        BY <2>0, <2>3 DEF Counted
      <3>2. effects[k] \in Nat /\ effects[k] <= 2
        BY <2>0, <2>3, SMT DEF CommandTyped, Counted, Running
      <3>3. Once # {} \/ Twice # {}
        BY <3>1, <3>2, SMT
      <3>4. Cardinality(Once) # 0 \/ Cardinality(Twice) # 0
        BY <2>1, <3>3, FS_EmptySet
      <3> HIDE DEF Once, Twice
      <3> QED
        BY <2>2, <3>4, SMT
    <2>4. Total <= round /\ (RunsOnce => round = 1)
      BY <2>0, TotalType, SMT DEF CommandTyped, Counted
    <2> QED
      BY <2>3, <2>4 DEF SuccessIsReal, Total
  <1> QED
    BY <1>1, FidoctlInvariant, PTL

==============================================================================
