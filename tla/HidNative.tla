------------------------------ MODULE HidNative ------------------------------
(***************************************************************************)
(* The entry points of pkg/hid: Native.Open and Native.Enumerate with the  *)
(* goroutine each of them starts, and the process-wide resources that they *)
(* and the opened connections share (the endpoint leases, the byte budget  *)
(* and the one-slot enumeration semaphore).                                *)
(*                                                                         *)
(* A member of Opens or Enums is one call.  An opened connection follows   *)
(* the phases of HidLifecycle, which HidConnection implements; giving the  *)
(* lease back is its call of releaseEndpoint.  The mutex of the resources  *)
(* and the mutex of a call are not variables: a critical section is one    *)
(* action.  A native call returns at any later time or never.              *)
(*                                                                         *)
(* Operators named ...Broken are plausible mistakes in the definition that *)
(* follows; the specification does not use them.                           *)
(***************************************************************************)
EXTENDS Integers, FiniteSets

CONSTANTS Opens,            \* the calls of Open
          Enums,            \* the calls of Enumerate
          Endpoints,        \* the endpoint IDs
          maxConnections, maxNativeBytes, connectionBytes, enumerationBytes

Calls == Opens \cup Enums

ASSUME NativeAssumption ==
    /\ Opens \cap Enums = {}
    /\ maxConnections \in Nat
    /\ maxNativeBytes \in Nat
    /\ connectionBytes \in Nat
    /\ enumerationBytes \in Nat

VARIABLES
    endpoints,  \* resources.endpoints
    bytes,      \* resources.bytes
    slot,       \* the channel resources.enumeration holds its one token
    pc,         \* program counter of every call
    ctx,        \* the context of the call has expired
    err,        \* the error the call returned
    target,     \* endpoint.ID of an Open
    wpc,        \* program counter of the goroutine of a call
    completed,  \* completed of a call
    abandoned,  \* abandoned of an Open
    good,       \* native open gave a device with the expected metadata and layout
    handle,     \* the native device is open
    conn        \* phase of the connection an Open made

resourceVars == <<endpoints, bytes, slot>>
callVars     == <<pc, err>>
workerVars   == <<wpc, completed, abandoned, good, handle, conn>>
vars == <<resourceVars, callVars, workerVars, target, ctx>>

None == "none"

Init ==
    /\ endpoints = {} /\ bytes = 0 /\ slot = FALSE
    /\ pc = [c \in Calls |-> "start"]
    /\ ctx = [c \in Calls |-> FALSE]
    /\ err = [c \in Calls |-> "none"]
    /\ target \in [Opens -> Endpoints]
    /\ wpc = [c \in Calls |-> "none"]
    /\ completed = [c \in Calls |-> FALSE]
    /\ abandoned = [o \in Opens |-> FALSE]
    /\ good = [o \in Opens |-> FALSE]
    /\ handle = [o \in Opens |-> FALSE]
    /\ conn = [o \in Opens |-> None]

Goto(c, l) == pc' = [pc EXCEPT ![c] = l] /\ UNCHANGED err

Return(c, e) ==
    /\ pc' = [pc EXCEPT ![c] = "returned"]
    /\ err' = [err EXCEPT ![c] = e]

\* Invalid arguments and a context that has expired end a call at once.
Check(c) ==
    /\ pc[c] = "start"
    /\ \/ Return(c, "invalid")
       \/ ctx[c] /\ Return(c, "ctx")
       \/ ~ctx[c] /\ Goto(c, "reserve")
    /\ UNCHANGED <<resourceVars, workerVars, target, ctx>>

\* The context of a call is cancelled or its deadline passes.
Expire(c) ==
    /\ ~ctx[c]
    /\ pc[c] # "returned"
    /\ ctx' = [ctx EXCEPT ![c] = TRUE]
    /\ UNCHANGED <<resourceVars, callVars, workerVars, target>>

\* The select on the worker's completion and the context.
Woken(c) == completed[c] \/ ctx[c]

Wake(c) ==
    /\ pc[c] = "select"
    /\ Woken(c)
    /\ Goto(c, "result")
    /\ UNCHANGED <<resourceVars, workerVars, target, ctx>>

------------------------------------------------------------------------------
(* Open. *)

\* A busy endpoint is not looked for.
BusyBroken(id) == FALSE

Busy(id) == id \in endpoints

\* The limits of reserveEndpoint.
NoRoom == \/ Cardinality(endpoints) >= maxConnections
          \/ bytes > maxNativeBytes - connectionBytes

\* reserveEndpoint, and the start of the worker when it succeeds.
OpenReserve(o) ==
    /\ pc[o] = "reserve"
    /\ \/ /\ Busy(target[o])
          /\ Return(o, "busy")
          /\ UNCHANGED <<resourceVars, wpc>>
       \/ /\ ~Busy(target[o])
          /\ NoRoom
          /\ Return(o, "limit")
          /\ UNCHANGED <<resourceVars, wpc>>
       \/ /\ ~Busy(target[o])
          /\ ~NoRoom
          /\ endpoints' = endpoints \cup {target[o]}
          /\ bytes' = bytes + connectionBytes
          /\ wpc' = [wpc EXCEPT ![o] = "native"]
          /\ Goto(o, "select")
          /\ UNCHANGED slot
    /\ UNCHANGED <<completed, abandoned, good, handle, conn, target, ctx>>

\* The native open returns: a device of the endpoint with a usable layout, a
\* device that is refused (another identity, an unusable layout, an error beside
\* it), or no device.
NativeOpenReturn(o) ==
    /\ wpc[o] = "native"
    /\ wpc' = [wpc EXCEPT ![o] = "decide"]
    /\ \E d, g \in BOOLEAN :
          /\ g => d
          /\ handle' = [handle EXCEPT ![o] = d]
          /\ good' = [good EXCEPT ![o] = g]
    /\ UNCHANGED <<resourceVars, callVars, completed, abandoned, conn, target, ctx>>

\* The worker does not look at abandoned.
KeepsDeviceBroken(o) == good[o]

\* The worker's decision under the mutex of the call.
KeepsDevice(o) == good[o] /\ ~abandoned[o]

\* newConnection, published in the same critical section.
OpenPublish(o) ==
    /\ wpc[o] = "decide"
    /\ KeepsDevice(o)
    /\ conn' = [conn EXCEPT ![o] = "open"]
    /\ completed' = [completed EXCEPT ![o] = TRUE]
    /\ wpc' = [wpc EXCEPT ![o] = "gone"]
    /\ UNCHANGED <<resourceVars, callVars, abandoned, good, handle, target, ctx>>

\* An abandoned or a failed open cleans up outside the mutex.
OpenDiscard(o) ==
    /\ wpc[o] = "decide"
    /\ ~KeepsDevice(o)
    /\ wpc' = [wpc EXCEPT ![o] = IF handle[o] THEN "closing" ELSE "release"]
    /\ UNCHANGED <<resourceVars, callVars, completed, abandoned, good, handle, conn,
                   target, ctx>>

\* device.Close of a discarded device returns.
NativeDiscardReturn(o) ==
    /\ wpc[o] = "closing"
    /\ wpc' = [wpc EXCEPT ![o] = "release"]
    /\ handle' = [handle EXCEPT ![o] = FALSE]
    /\ UNCHANGED <<resourceVars, callVars, completed, abandoned, good, conn, target,
                   ctx>>

\* The bytes are forgotten.
ReleaseEndpointBroken(o) ==
    /\ endpoints' = endpoints \ {target[o]}
    /\ UNCHANGED <<bytes, slot>>

\* releaseEndpoint: the lease is known by its ID, not by its holder.
ReleaseEndpoint(o) ==
    /\ endpoints' = endpoints \ {target[o]}
    /\ bytes' = bytes - connectionBytes
    /\ UNCHANGED slot

OpenRelease(o) ==
    /\ wpc[o] = "release"
    /\ ReleaseEndpoint(o)
    /\ wpc' = [wpc EXCEPT ![o] = "publish"]
    /\ UNCHANGED <<callVars, completed, abandoned, good, handle, conn, target, ctx>>

\* The second critical section of a discarded open.
OpenFail(o) ==
    /\ wpc[o] = "publish"
    /\ completed' = [completed EXCEPT ![o] = TRUE]
    /\ wpc' = [wpc EXCEPT ![o] = "gone"]
    /\ UNCHANGED <<resourceVars, callVars, abandoned, good, handle, conn, target, ctx>>

Abandon(o) == abandoned' = [abandoned EXCEPT ![o] = TRUE]

\* A completed open wins over the context; else the worker owns the cleanup.
OpenReturn(o) ==
    /\ pc[o] = "result"
    /\ \/ /\ completed[o]
          /\ Return(o, IF conn[o] # None THEN "none" ELSE "io")
          /\ UNCHANGED abandoned
       \/ /\ ~completed[o]
          /\ Abandon(o)
          /\ Return(o, "ctx")
    /\ UNCHANGED <<resourceVars, wpc, completed, good, handle, conn, target, ctx>>

OpenWorker(o) == OpenPublish(o) \/ OpenDiscard(o) \/ OpenRelease(o) \/ OpenFail(o)
OpenNative(o) == NativeOpenReturn(o) \/ NativeDiscardReturn(o)

------------------------------------------------------------------------------
(* The connection, in the phases of HidLifecycle. *)

\* The owner closes the connection or the device fails.
ConnRetire(o) ==
    /\ conn[o] = "open"
    /\ conn' = [conn EXCEPT ![o] = "retiring"]
    /\ UNCHANGED <<resourceVars, callVars, wpc, completed, abandoned, good, handle,
                   target, ctx>>

\* The last user has left and device.Close has returned.
ConnClose(o) ==
    /\ conn[o] = "retiring"
    /\ conn' = [conn EXCEPT ![o] = "closed"]
    /\ handle' = [handle EXCEPT ![o] = FALSE]
    /\ UNCHANGED <<resourceVars, callVars, wpc, completed, abandoned, good, target,
                   ctx>>

\* The supervisor gives the lease back.
ConnRelease(o) ==
    /\ conn[o] = "closed"
    /\ ReleaseEndpoint(o)
    /\ conn' = [conn EXCEPT ![o] = "released"]
    /\ UNCHANGED <<callVars, wpc, completed, abandoned, good, handle, target, ctx>>

------------------------------------------------------------------------------
(* Enumerate. *)

\* The select on the semaphore and the context.
EnumSlot(n) ==
    /\ pc[n] = "reserve"
    /\ \/ ~slot /\ slot' = TRUE /\ Goto(n, "budget")
       \/ ctx[n] /\ Return(n, "ctx") /\ UNCHANGED slot
    /\ UNCHANGED <<endpoints, bytes, workerVars, target, ctx>>

\* The token is kept when the budget refuses.
GiveUpSlotBroken == UNCHANGED slot

\* <-r.enumeration.
GiveUpSlot == slot /\ slot' = FALSE

\* The limit of reserveEnumeration.
NoMemory == bytes > maxNativeBytes - enumerationBytes

\* The budget, under the mutex of the resources; then the worker starts.
EnumBudget(n) ==
    /\ pc[n] = "budget"
    /\ \/ /\ NoMemory
          /\ GiveUpSlot
          /\ Return(n, "limit")
          /\ UNCHANGED <<bytes, wpc>>
       \/ /\ ~NoMemory
          /\ bytes' = bytes + enumerationBytes
          /\ wpc' = [wpc EXCEPT ![n] = "native"]
          /\ Goto(n, "select")
          /\ UNCHANGED slot
    /\ UNCHANGED <<endpoints, completed, abandoned, good, handle, conn, target, ctx>>

\* The native traversal returns.
NativeEnumReturn(n) ==
    /\ wpc[n] = "native"
    /\ wpc' = [wpc EXCEPT ![n] = "release"]
    /\ UNCHANGED <<resourceVars, callVars, completed, abandoned, good, handle, conn,
                   target, ctx>>

\* releaseEnumeration.
EnumRelease(n) ==
    /\ wpc[n] = "release"
    /\ bytes' = bytes - enumerationBytes
    /\ GiveUpSlot
    /\ wpc' = [wpc EXCEPT ![n] = "publish"]
    /\ UNCHANGED <<endpoints, callVars, completed, abandoned, good, handle, conn,
                   target, ctx>>

\* The waiting caller is not told.
EnumPublishBroken(n) ==
    /\ wpc[n] = "publish"
    /\ wpc' = [wpc EXCEPT ![n] = "gone"]
    /\ UNCHANGED <<resourceVars, callVars, completed, abandoned, good, handle, conn,
                   target, ctx>>

\* The snapshot is published after the slot is free again.
EnumPublish(n) ==
    /\ wpc[n] = "publish"
    /\ completed' = [completed EXCEPT ![n] = TRUE]
    /\ wpc' = [wpc EXCEPT ![n] = "gone"]
    /\ UNCHANGED <<resourceVars, callVars, abandoned, good, handle, conn, target, ctx>>

\* The cancelled caller leaves the slot and the bytes with the worker.
LeaveSlot == UNCHANGED slot

\* A completed snapshot wins over the context.
EnumReturn(n) ==
    /\ pc[n] = "result"
    /\ \/ completed[n] /\ Return(n, "none") /\ UNCHANGED slot
       \/ ~completed[n] /\ Return(n, "ctx") /\ LeaveSlot
    /\ UNCHANGED <<endpoints, bytes, workerVars, target, ctx>>

EnumWorker(n) == EnumRelease(n) \/ EnumPublish(n)

------------------------------------------------------------------------------

OpenCaller(o) == Wake(o) \/ OpenReturn(o) \/ OpenReserve(o)
EnumCaller(n) == Wake(n) \/ EnumReturn(n) \/ EnumBudget(n)

\* No call and no worker is in progress, and every connection has been closed by
\* its owner.
Quiet ==
    /\ \A c \in Calls : pc[c] \in {"start", "returned"} /\ wpc[c] \in {"none", "gone"}
    /\ \A o \in Opens : conn[o] \in {None, "released"}

Next ==
    \/ \E c \in Calls : Check(c) \/ Expire(c)
    \/ \E o \in Opens : OpenCaller(o) \/ OpenWorker(o) \/ OpenNative(o)
    \/ \E o \in Opens : ConnRetire(o) \/ ConnClose(o) \/ ConnRelease(o)
    \/ \E n \in Enums : EnumSlot(n) \/ EnumCaller(n) \/ EnumWorker(n) \/ NativeEnumReturn(n)
    \/ Quiet /\ UNCHANGED vars

Spec == Init /\ [][Next]_vars

\* The scheduler runs every goroutine that can run.
SchedulerFairness ==
    /\ \A o \in Opens : WF_vars(OpenCaller(o)) /\ WF_vars(OpenWorker(o))
    /\ \A n \in Enums : WF_vars(EnumCaller(n)) /\ WF_vars(EnumWorker(n))

\* A sender on a channel is served in its turn; ready contexts end a select.
SlotFairness == \A n \in Enums : SF_vars(EnumSlot(n))

\* Native open, close and traversal return.
NativeFairness ==
    /\ \A o \in Opens : WF_vars(OpenNative(o))
    /\ \A n \in Enums : WF_vars(NativeEnumReturn(n))

FairSpec == Spec /\ SchedulerFairness /\ SlotFairness

------------------------------------------------------------------------------
(* Properties. *)

ControlOK ==
    /\ pc \in [Calls -> {"start", "reserve", "budget", "select", "result", "returned"}]
    /\ ctx \in [Calls -> BOOLEAN]
    /\ err \in [Calls -> {"none", "invalid", "ctx", "busy", "limit", "io"}]
    /\ target \in [Opens -> Endpoints]
    /\ wpc \in [Calls -> {"none", "native", "decide", "closing", "release", "publish",
                          "gone"}]
    /\ completed \in [Calls -> BOOLEAN]
    /\ abandoned \in [Opens -> BOOLEAN]
    /\ good \in [Opens -> BOOLEAN]
    /\ handle \in [Opens -> BOOLEAN]
    /\ conn \in [Opens -> {None, "open", "retiring", "closed", "released"}]

\* Every variable stays in its range; the budget is neither exceeded nor negative.
TypeOK ==
    /\ endpoints \subseteq Endpoints
    /\ bytes \in 0..maxNativeBytes
    /\ slot \in BOOLEAN
    /\ ControlOK

\* The Open is inside a native call or holds a native device.
UsesNative(o) == wpc[o] = "native" \/ handle[o]

\* One native device or native open per endpoint at a time, and only under its
\* lease, whoever was cancelled meanwhile (reserveEndpoint against the late
\* cleanup of an abandoned Open and of a retired connection).
ExclusiveEndpoint ==
    /\ \A o \in Opens : UsesNative(o) => target[o] \in endpoints
    /\ \A o, p \in Opens :
          UsesNative(o) /\ UsesNative(p) /\ target[o] = target[p] => o = p

\* The worker of an Enumerate holds its reservation.
Charged(n) == wpc[n] \in {"native", "release"}

\* What the live leases and the running enumeration cost.
Reserved == connectionBytes * Cardinality(endpoints)
            + (IF \E n \in Enums : Charged(n) THEN enumerationBytes ELSE 0)

\* The budget is exactly what the live leases and the running enumeration cost,
\* and stays within its bound: no path releases twice, forgets a release or
\* passes a check that another call has made stale.  And a call is refused only
\* where it would break a limit: the last connection and the last byte can be had
\* (resources).
BudgetIsExact ==
    /\ bytes = Reserved
    /\ bytes <= maxNativeBytes
    /\ Cardinality(endpoints) <= maxConnections
    /\ NoRoom => \/ Cardinality(endpoints) + 1 > maxConnections
                 \/ Reserved + connectionBytes > maxNativeBytes
    /\ NoMemory => Reserved + enumerationBytes > maxNativeBytes

\* Two native inventory traversals never overlap, although a cancelled caller
\* returns while its traversal runs (the one-slot semaphore).
OneTraversal ==
    \A m, n \in Enums : wpc[m] = "native" /\ wpc[n] = "native" => m = n

\* A connection is made exactly when its caller gets it: an Open that returned an
\* error leaves no open connection behind, and one that returned nil has one.
NoOrphanConnection ==
    \A o \in Opens : pc[o] = "returned" => (err[o] = "none" <=> conn[o] # None)

\* Whenever nothing is in progress and everything has been closed, nothing stays
\* reserved: neither a lease nor bytes nor the semaphore, after any mix of failed,
\* cancelled and refused calls.
NothingLeaks == Quiet => endpoints = {} /\ bytes = 0 /\ ~slot

\* With a bound that covers maxConnections leases and one enumeration, as the
\* constants of resources.go do, no Enumerate is ever refused for memory and an
\* Open is refused only when maxConnections leases are held.
BudgetCoversLimits ==
    maxConnections * connectionBytes + enumerationBytes <= maxNativeBytes =>
        /\ \A n \in Enums : err[n] # "limit"
        /\ NoRoom => Cardinality(endpoints) >= maxConnections

\* A caller whose context has expired returns, though no native call ever does.
CancelledCallReturns ==
    \A c \in Calls : (pc[c] # "start" /\ ctx[c]) ~> pc[c] = "returned"

\* A call whose context has expired returns, an Enumerate that queues for the slot of
\* a traversal that never ends included; and when native calls return, whoever queues
\* for the slot gets an answer, whatever the callers before it did (Native.Enumerate,
\* reserveEnumeration).
WaitingEnumReturns ==
    /\ CancelledCallReturns
    /\ NativeFairness => \A n \in Enums : pc[n] = "reserve" ~> pc[n] = "returned"

==============================================================================
