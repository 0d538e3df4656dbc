------------------------------- MODULE Fidoctl -------------------------------
(***************************************************************************)
(* One command of fidoctl (internal/cli/fidoctl, App) from the discovery   *)
(* of authenticators to its result: the registry and the locator, the      *)
(* opening of a USB endpoint, the operation, and what the command does     *)
(* after a lost connection, after a rejected reset and after a PIN was     *)
(* set: it polls the list of devices until a device is gone or back, and   *)
(* runs the operation a second time.                                       *)
(*                                                                         *)
(* Authenticators are plugged in and removed at any time, possibly at      *)
(* another address.  What an operation does on an authenticator is one     *)
(* step here; it may take effect and still fail.                           *)
(***************************************************************************)
EXTENDS Naturals, FiniteSets

CONSTANTS Keys,       \* authenticators
          Ports,      \* of a key: the endpoint IDs it may have
          Transport,  \* of a key: "usb" or "nfc"
          Product,    \* of a key: vendor, product, manufacturer
          Serial,     \* of a key, NoSerial if it has none
          NoSerial,
          Faulty,     \* the transports whose listing may fail
          MaxPlugs    \* bound on the number of times a key is plugged in

IDs == UNION {Ports[k] : k \in Keys}

ASSUME FidoctlAssumption ==
    /\ Transport \in [Keys -> {"usb", "nfc"}]
    /\ Faulty \subseteq {"usb", "nfc"}
    /\ MaxPlugs \in Nat
    /\ IsFiniteSet(Keys) /\ "none" \notin Keys \cup IDs /\ "lost" \notin Keys

VARIABLES
    command,   \* kind, interactive and deviceID
    stage,     \* the control of the command
    round,     \* the number of the run
    paused,    \* in the select of a polling loop
    expired,   \* the command's context has expired
    listed,    \* the descriptor that the locator selected
    selected,  \* the endpoint that the backend selected, then the session's
    session,   \* the key whose session is open
    previous,  \* the descriptor of the first run's session
    result,    \* the result of the command
    at,        \* the address of each key
    window,    \* the keys that were plugged in just now: a reset is allowed
    effects,   \* how often the operation took effect on a key
    rejected,  \* the key that rejected a reset and was not removed since
    plugs

commandVars == <<command, expired>>
worldVars   == <<at, window, rejected, plugs>>
fidoctlVars == <<commandVars, worldVars, stage, round, paused, listed, selected, session, previous,
                 result, effects>>

NoID     == "none"
AnyID    == "any"   \* deviceID = ""
NoKey    == "none"
LostKey  == "lost"  \* the key of the open session was removed
NoDevice == [id |-> NoID]

Descriptor(k) == [id |-> at[k], transport |-> Transport[k], product |-> Product[k],
                  serial |-> Serial[k]]

Present == {k \in Keys : at[k] # NoID}

Kinds == {"query", "setPIN", "reset"}

CommandInit ==
    /\ command \in [kind : Kinds, interactive : BOOLEAN, deviceID : IDs \cup {AnyID}]
    /\ stage = "open" /\ round = 1 /\ paused = FALSE /\ expired = FALSE
    /\ listed = NoDevice /\ selected = NoDevice /\ previous = NoDevice
    /\ session = NoKey /\ result = "none"
    /\ at \in [Keys -> IDs \cup {NoID}]
    /\ \A k \in Keys : at[k] \in Ports[k] \cup {NoID}
    /\ \A j, k \in Present : at[j] = at[k] => j = k
    /\ window \in SUBSET Present /\ rejected = NoKey /\ plugs = 0
    /\ effects = [k \in Keys |-> 0]

------------------------------------------------------------------------------
(* The result of a run, and what follows it. *)

CommandReturns(e) == stage' = "returned" /\ result' = e

\* A PIN command is run again like the others.
RetriesBroken(e) == e = "lost" /\ command.interactive

\* shouldWaitForReconnect, for the commands that ask it: DeviceNotFoundError,
\* ErrDisconnected and ErrTemporary are "lost".
Retries(e) == e = "lost" /\ command.interactive /\ command.kind # "setPIN"

\* shouldRetryResetAfterPowerCycle.
RetriesReset(e) == e = "notAllowed" /\ command.interactive /\ command.kind = "reset"

\* The reset is tried again as soon as the device is there.
ResetWindowBroken(d) == "reinsert"

\* waitForResetWindow has to see the device go first.
ResetWindow(d) == IF d = NoDevice THEN "reconnect" ELSE "removal"

\* The error of a run with the descriptor d of its session, or none.
RunFails(e, d) ==
    /\ previous' = d
    /\ \/ round = 1 /\ Retries(e) /\ stage' = "reconnect" /\ UNCHANGED result
       \/ round = 1 /\ RetriesReset(e) /\ stage' = ResetWindow(d) /\ UNCHANGED result
       \/ (round = 2 \/ ~(Retries(e) \/ RetriesReset(e))) /\ CommandReturns(e)

\* waitForPostMutationReconnect follows a PIN command only.
RunSucceeds(d) ==
    /\ previous' = d
    /\ \/ command.kind = "setPIN" /\ command.interactive /\ stage' = "look" /\ UNCHANGED result
       \/ ~(command.kind = "setPIN" /\ command.interactive) /\ CommandReturns("none")

\* The errors of native calls, classified: also a listing may fail with ErrRemoved
\* or a temporary error.
Failures == {"lost", "other"}

------------------------------------------------------------------------------
(* Discovery and opening. *)

\* Registry.Discover: the devices of the backends that did not fail.
Discover(failed) == {Descriptor(k) : k \in {j \in Present : Transport[j] \notin failed}}

\* devices[0]: backends are asked in their order, USB first.
First(devices) ==
    LET usb == {d \in devices : d.transport = "usb"} IN IF usb # {} THEN usb ELSE devices

\* The devices that Open may take: the first, or the one with the ID.
Chosen(devices) ==
    IF command.deviceID = AnyID THEN First(devices)
    ELSE {d \in devices : d.id = command.deviceID}

\* transportLocator.Open up to the backend.
LocatorOpen ==
    /\ stage = "open"
    /\ \E failed \in SUBSET Faulty :
          LET devices == Discover(failed)
          IN  \/ /\ devices = {} /\ failed # {}
                 /\ \E e \in Failures : RunFails(e, NoDevice)
                 /\ UNCHANGED listed
              \/ /\ Chosen(devices) = {}
                 /\ devices # {} \/ failed = {}
                 /\ RunFails("lost", NoDevice)
                 /\ UNCHANGED listed
              \/ \E d \in Chosen(devices) :
                    /\ listed' = d
                    /\ stage' = IF d.transport = "usb" THEN "select" ELSE "connect"
                    /\ UNCHANGED <<previous, result>>
    /\ UNCHANGED <<commandVars, worldVars, round, paused, selected, session, effects>>

\* The descriptor is not compared with the fresh inventory.
DescriptorMatchesBroken(d, e) == TRUE

\* descriptorMatches: unknown fields of the request match anything.
DescriptorMatches(d, e) == d.product = e.product /\ d.serial \in {NoSerial, e.serial}

\* HIDBackend.Open: the endpoint is looked up in a fresh inventory, which fails, is
\* complete or is not.  An incomplete one may lack the endpoint and is an error
\* then, classified by its warnings.
SelectEndpoint ==
    /\ stage = "select"
    /\ \/ \E e \in Failures : RunFails(e, NoDevice) /\ UNCHANGED selected
       \/ /\ \A k \in Present : at[k] # listed.id
          /\ RunFails("lost", NoDevice)
          /\ UNCHANGED selected
       \/ \E k \in Present :
             /\ at[k] = listed.id
             /\ \/ /\ DescriptorMatches(listed, Descriptor(k))
                   /\ selected' = Descriptor(k)
                   /\ stage' = "connect"
                   /\ UNCHANGED <<previous, result>>
                \/ /\ ~DescriptorMatches(listed, Descriptor(k))
                   /\ RunFails("other", NoDevice)
                   /\ UNCHANGED selected
    /\ UNCHANGED <<commandVars, worldVars, round, paused, listed, session, effects>>

\* matchesEndpoint of Native.Open, which compares what it asked for with what it
\* opened.
MatchesEndpoint(e, f) == e.product = f.product /\ e.serial \in {NoSerial, f.serial}

\* The NFC backend connects to whatever card is on the reader.
Connectable(k) ==
    /\ at[k] = listed.id
    /\ Transport[k] = listed.transport
    /\ Transport[k] = "usb" => MatchesEndpoint(selected, Descriptor(k))

\* Device of the session: USB reads it from the connection, NFC keeps the request.
Device(k) == IF Transport[k] = "usb" THEN Descriptor(k) ELSE listed

Connect ==
    /\ stage = "connect"
    /\ \/ (\E e \in Failures : RunFails(e, NoDevice)) /\ UNCHANGED <<session, selected>>
       \/ \E k \in Present : /\ Connectable(k)
                             /\ session' = k
                             /\ selected' = Device(k)
                             /\ stage' = "operate"
                             /\ UNCHANGED <<previous, result>>
    /\ UNCHANGED <<commandVars, worldVars, round, paused, listed, effects>>

------------------------------------------------------------------------------
(* The operation on the open session, which is closed after it. *)

\* external: the authenticator.  A reset outside its window is rejected.
Rejects(k) == command.kind = "reset" /\ k \notin window

Operate ==
    /\ stage = "operate"
    /\ session' = NoKey
    /\ \/ /\ session = LostKey
          /\ \E e \in Failures : RunFails(e, selected)
          /\ UNCHANGED <<effects, rejected>>
       \/ /\ session # LostKey /\ Rejects(session)
          /\ RunFails("notAllowed", selected)
          /\ rejected' = session
          /\ UNCHANGED effects
       \/ /\ session # LostKey /\ ~Rejects(session)
          /\ RunSucceeds(selected)
          /\ effects' = [effects EXCEPT ![session] = @ + 1]
          /\ UNCHANGED rejected
       \/ /\ session # LostKey
          /\ \E e \in Failures : RunFails(e, selected)
          /\ \/ UNCHANGED effects
             \/ ~Rejects(session) /\ effects' = [effects EXCEPT ![session] = @ + 1]
          /\ UNCHANGED rejected
    /\ UNCHANGED <<commandVars, at, window, plugs, round, paused, listed, selected>>

------------------------------------------------------------------------------
(* Polling. *)

\* The fields that hold the address are not compared: it changes with the port.
samePhysicalDevice(l, r) ==
    /\ l.transport = r.transport
    /\ l.product = r.product
    /\ l.serial # NoSerial /\ r.serial # NoSerial => l.serial = r.serial

\* Only the address is looked at.
AvailableBroken(devices) ==
    \E d \in devices : d.id \in {command.deviceID, previous.id}

\* reconnectTargetAvailable.
Available(devices) ==
    \/ previous # NoDevice /\ \E d \in devices : samePhysicalDevice(d, previous)
    \/ command.deviceID = AnyID /\ devices # {}
    \/ \E d \in devices : d.id = command.deviceID

\* One pass of a loop that waits until Available is wanted: listDevices, which has no
\* devices if the listing failed; then the loop ends, or the select is entered.
Poll(wanted, found) ==
    /\ ~paused
    /\ \E failed \in SUBSET Faulty :
          \/ (Available(Discover(failed)) <=> wanted) /\ found /\ UNCHANGED paused
          \/ ~(Available(Discover(failed)) <=> wanted) /\ paused' = TRUE
             /\ UNCHANGED <<stage, result, round>>
    /\ UNCHANGED <<commandVars, worldVars, listed, selected, session, previous, effects>>

\* The second run.
Again == stage' = "open" /\ round' = 2 /\ UNCHANGED result

\* waitForReconnect; waitForResetWindow waits for the removal first.
PollReconnect == stage = "reconnect" /\ Poll(TRUE, Again)
PollRemoval   == stage = "removal"
                 /\ Poll(FALSE, stage' = "reinsert" /\ UNCHANGED <<result, round>>)
PollReinsert  == stage = "reinsert" /\ Poll(TRUE, Again)
PollSettle    == stage = "settle" /\ Poll(TRUE, CommandReturns("none") /\ UNCHANGED round)

\* The wait after a PIN command looks at the list once before it starts waiting.
LookOnce ==
    /\ stage = "look"
    /\ \E failed \in SUBSET Faulty :
          \/ Available(Discover(failed)) /\ CommandReturns("none")
          \/ ~Available(Discover(failed)) /\ stage' = "settle" /\ UNCHANGED result
    /\ UNCHANGED <<commandVars, worldVars, round, paused, listed, selected, session,
                   previous, effects>>

\* The ticker.
Tick ==
    /\ paused
    /\ paused' = FALSE
    /\ UNCHANGED <<commandVars, worldVars, stage, round, listed, selected, session, previous,
                   result, effects>>

\* The wait for a removal has no timeout.
CancellableBroken == paused /\ expired /\ stage # "removal"

Cancellable == paused /\ expired

\* The command's timeout; a PIN command has succeeded before its wait.
PollCancelled ==
    /\ Cancellable
    /\ paused' = FALSE
    /\ CommandReturns(IF stage = "settle" THEN "none" ELSE "ctx")
    /\ UNCHANGED <<commandVars, worldVars, round, listed, selected, session, previous,
                   effects>>

------------------------------------------------------------------------------
(* The world. *)

CommandExpires ==
    /\ ~expired /\ stage # "returned"
    /\ expired' = TRUE
    /\ UNCHANGED <<command, worldVars, stage, round, paused, listed, selected, session,
                   previous, result, effects>>

Unplug(k) ==
    /\ stage # "returned"
    /\ k \in Present
    /\ at' = [at EXCEPT ![k] = NoID]
    /\ window' = window \ {k}
    /\ rejected' = IF rejected = k THEN NoKey ELSE rejected
    /\ session' = IF session = k THEN LostKey ELSE session
    /\ UNCHANGED <<commandVars, plugs, stage, round, paused, listed, selected, previous, result,
                   effects>>

Plug(k, id) ==
    /\ stage # "returned" /\ plugs < MaxPlugs
    /\ k \notin Present
    /\ \A j \in Present : at[j] # id
    /\ at' = [at EXCEPT ![k] = id]
    /\ window' = window \cup {k}
    /\ plugs' = plugs + 1
    /\ UNCHANGED <<commandVars, rejected, stage, round, paused, listed, selected, session,
                   previous, result, effects>>

WindowCloses(k) ==
    /\ k \in window
    /\ window' = window \ {k}
    /\ UNCHANGED <<commandVars, at, rejected, plugs, stage, round, paused, listed, selected,
                   session, previous, result, effects>>

CommandFinished == stage = "returned" /\ UNCHANGED fidoctlVars

Run  == LocatorOpen \/ SelectEndpoint \/ Connect \/ Operate
Wait == PollReconnect \/ PollRemoval \/ PollReinsert \/ LookOnce \/ PollSettle

CommandNext ==
    \/ Run \/ Wait \/ Tick \/ PollCancelled
    \/ CommandExpires
    \/ \E k \in Keys : Unplug(k) \/ WindowCloses(k) \/ \E id \in Ports[k] : Plug(k, id)
    \/ CommandFinished

CommandSpec == CommandInit /\ [][CommandNext]_fidoctlVars

\* Listings, opens and operations return, the ticker ticks, and a select that meets
\* an expired context again and again takes it: it chooses at random.
FairCommandSpec ==
    /\ CommandSpec
    /\ WF_fidoctlVars(Run) /\ WF_fidoctlVars(Wait) /\ WF_fidoctlVars(Tick)
    /\ SF_fidoctlVars(PollCancelled)

------------------------------------------------------------------------------
(* Properties. *)

Descriptors == [id : IDs, transport : {"usb", "nfc"}, product : {Product[k] : k \in Keys},
                serial : {Serial[k] : k \in Keys}] \cup {NoDevice}

CommandTypeOK ==
    /\ command \in [kind : Kinds, interactive : BOOLEAN, deviceID : IDs \cup {AnyID}]
    /\ stage \in {"open", "select", "connect", "operate", "reconnect", "removal", "reinsert",
               "look", "settle", "returned"}
    /\ round \in 1..2 /\ paused \in BOOLEAN /\ expired \in BOOLEAN
    /\ {listed, selected, previous} \subseteq Descriptors
    /\ session \in Keys \cup {NoKey, LostKey}
    /\ result \in {"none", "lost", "other", "notAllowed", "ctx"}
    /\ at \in [Keys -> IDs \cup {NoID}]
    /\ window \subseteq Present
    /\ rejected \in Keys \cup {NoKey}
    /\ effects \in [Keys -> 0..2]
    /\ plugs \in 0..MaxPlugs

\* Keys may be exchanged at an address between the listing, the fresh inventory and
\* the native open: the operation still runs on a key that fits the descriptor
\* that was listed (HIDBackend.Open, descriptorMatches, matchesEndpoint).
OpensWhatItListed ==
    stage = "operate" /\ session \in Keys /\ Transport[session] = "usb" =>
        listed.product = Product[session] /\ listed.serial \in {NoSerial, Serial[session]}

\* A PIN command, and a command without interaction, has one run.
RunsOnce == command.kind = "setPIN" \/ ~command.interactive

\* How often the operation took effect, on whatever key.
Total == Cardinality({k \in Keys : effects[k] = 1})
         + 2 * Cardinality({k \in Keys : effects[k] = 2})

\* A successful command took effect.  A command that lost its connection may have
\* taken effect before it is run again: it takes effect at most once in a run, twice
\* at most in all, and a PIN command or one without interaction, which are not run
\* again, at most once, on whichever keys (SetPIN, ChangePIN, withClient).
SuccessIsReal ==
    /\ stage = "returned" /\ result = "none" => Total > 0
    /\ Total <= IF RunsOnce THEN 1 ELSE round

\* A rejected reset is tried again only after its device was removed, provided that
\* the device's transport can be listed (waitForResetWindow).
ResetNeedsRemoval ==
    stage = "reinsert" /\ rejected # NoKey => Transport[rejected] \in Faulty

\* A listing that failed does not establish the removal of a device.
RemovalIsProved == stage = "reinsert" => rejected = NoKey

\* A command whose timeout has passed returns, whatever it is waiting for.
CancelledCommandReturns == expired ~> stage = "returned"

\* A device that is not known to fail its listing is the one that was used before.
Back ==
    \E k \in Present : /\ Transport[k] \notin Faulty
                       /\ previous # NoDevice
                       /\ Transport[k] = previous.transport
                       /\ Product[k] = previous.product
                       /\ Serial[k] = previous.serial

\* No command keeps waiting for a device that is there, at its old address or at
\* another one, nor for the removal of one that is gone (reconnectTargetAvailable).
PollingEnds ==
    /\ ~<>[](stage \in {"reconnect", "reinsert", "settle"} /\ Back)
    /\ ~<>[](stage = "removal" /\ Present = {})

==============================================================================
