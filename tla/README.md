# A verification of fido-go

fido-go talks to FIDO authenticators: over USB HID with a HID library of its own,
over NFC and over BLE, up to a client that registers, authenticates and manages
PINs and credentials, and a command-line tool. This directory models the parts of
it that are hard to test because several goroutines, threads, native calls, timeouts
and a device meet in them. TLC checks the models on small instances. TLAPS proves, for
every value of the constants, every safety property that TLC checks: of the HID library
with its three platform drivers and its descriptor parser, of the CTAPHID session above it,
of the wire formats and the packet sessions, of the client, of fidoctl's commands, of the
PC/SC backend and of the diagnostics.

All paths below are relative to `src/`.

## The system and its parts

| part | code | state | operations | model |
|---|---|---|---|---|
| HID connection | `pkg/hid/connection.go`, `read.go`, `write.go` | the ring of input reports and its wake-up token, busy flags, the wait group, retirement, native handle, endpoint lease | `Read`, `Write`, `Close`, pump, write worker, supervisor | `HidConnection`, abstractly `HidLifecycle` |
| HID backend | `pkg/hid/native.go`, `resources.go` | endpoint leases, byte budget, the enumeration slot | `Open`, `Enumerate` and their goroutines | `HidNative` |
| driver contract | `pkg/hid/internal/driver/driver.go` | one handle | `Read`, `Write`, `Close` | `HidDriver` |
| macOS driver | `pkg/hid/internal/darwin` | reader and writer thread, input queue, a posted write result | `hid_connect`, `hid_read`, `hid_write`, `hid_disconnect`, callbacks | `DarwinDriver` |
| Windows driver | `pkg/hid/internal/windows` | the native handle, overlapped requests | `transfer`, `Open`, `Close` | `WindowsDriver` |
| Linux driver | `pkg/hid/internal/linux` | a sysfs entry, a descriptor | `openWithSystem`, `Read`, `Write`, `Close` | `LinuxOpen`, `LinuxDriver` |
| CTAPHID session | `pkg/transport/usb/hid_session.go`, `hid_init.go`, `hid_exchange.go`, `hid_lifetime.go`, `hid_error.go` | exchange gate, channel, delivery progress, closing | `Exchange`, `ExchangeHID`, `Close`, `CloseContext` | `UsbSession` |
| message reader | `pkg/transport/usb/hid_protocol.go` | the assembler | `readHIDMessage` | `HidMessage` |
| framing | `pkg/wire/hid`, `pkg/wire/nfc`, `pkg/wire/ble` | an assembler | `Fragment`, `Add`, `Payload` | `WireHid`, `WireNfc`, `WireBle` |
| NFC, BLE and injected USB sessions | `pkg/transport/nfc`, `pkg/transport/ble`, `pkg/transport/usb/backend.go` | a mutex, a connection | `Exchange`, `Close` | `PacketSession` |
| PC/SC backend | `pkg/transport/nfc/pcsc_backend.go` | contexts and card connections | `Discover`, `Open`, `Close` | `PcscBackend` |
| client and CTAP2 manager | `pkg/client`, `internal/client/ctap2` | the capability cache; the authenticator's PIN, token and enumeration | capabilities, status, registration, authentication, PIN and credential calls | `Client`, `Authenticator` |
| discovery, locator and fidoctl | `pkg/transport/registry.go`, `pkg/client/locator.go`, `pkg/transport/usb/hid_backend.go`, `internal/cli/fidoctl/app.go` | an inventory, the command's session | `Discover`, `Open`, the commands with reconnect, reset window and retry | `Fidoctl` |
| report descriptors | `pkg/hid/internal/reportdesc` | the parser's globals, locals and collections | `Inventory`: `Parse` with `finish`, `scanUsages` | `ReportDescriptor` |
| diagnostics runner | `internal/diagnostics/runner.go`, `selection.go` | the scope of a scenario, the report | `Select`, `Run`, `Scope`'s methods | `DiagnosticsRunner` |
| power observer | `internal/diagnostics/power` | a registration, a snapshot, an owner thread | `New`, `Arm`, `Wait`, `WaitSleep`, `Close` | `PowerObserver` |

How they interact: fidoctl and other programs open a client through the locator. The
client calls a transport session. A USB session exchanges messages through the HID
connection that the HID backend opened. The connection runs the driver's blocking
calls in goroutines so that a context can abandon a call but never a native
operation. Closing goes the other way: a session retires itself, closes its
connection, and the connection's supervisor closes the native handle and gives the
endpoint lease back to the backend's resources.

`PROJECT.json` lists every part, with the reason where it is not modelled, and the
hazards of the code at the line where they bite.

## Modules

`HidConnection`. One connection. A call of `Read`, `Write` or `Close` is identified
with its context: it is made at any time or never, and its context may expire at any
time. Every critical section of `c.mu` is one action; what the code does outside the
lock (a `select`, a native call, a deferred second lock) is an action of its own.
The wait group is the set of goroutines it counts. The driver is external: a native
call returns at any later time, or never, with any result its contract allows,
layout mismatches and out-of-range outcomes included. Reports are numbered in the
order of the device, so that order and loss can be stated.

`HidLifecycle`. What a connection promises to its backend: users enter only while it
is open, retirement is final, the handle is closed when the last user has left and
the lease is given back after that. `HidConnection` implements it with
`phase` read off the supervisor and `users` the wait group.

`HidNative`. `Open` and `Enumerate` with the goroutine each starts, over the shared
resources. An opened connection follows the phases of `HidLifecycle`.

`HidDriver`. What `driver.go` demands of a `Device`, as a specification `Contract` with
the calls the core makes: successive Reads return the device's reports in order
without gap or repetition across timeouts, and a write outcome is true. The three
platform modules extend it and share its variables.

- `DarwinDriver`: the reader thread with its run loop callbacks, the writer thread, the
  queue, and `hid_connect`, `hid_read`, `hid_write`, `hid_disconnect`. What happens
  under the connection's lock is one step.
- `WindowsDriver`: `openWithSystem` call by call (the check of the endpoint, `find`, the
  native open, the metadata, the match, the layout), where every error after the native
  open closes the handle; and the overlapped `transfer` that Read and Write share (submit, wait,
  `CancelIoEx`, blocking join), with an I/O manager that completes, fails or aborts a
  request at any time while it is pending.
- `LinuxOpen`: `openWithSystem` system call by system call, while the device behind the
  class entry may be unplugged and another one take its name and minor between any two
  of them. `LinuxDriver` adds `poll`, `read` and `write`.

`UsbSession`. The exchange gate, the INIT and PING handshake with its retries and fresh
channels, the request packet by packet, the response, `ExchangeError` evidence,
retirement and `Close`. The authenticator is external: it answers a command at most
once, late or never, with a result, BUSY or an error. A report whose write had an
unknown outcome may arrive at any later time. A session that ended may be opened again
on the same authenticator, so answers of the earlier session are still to come.

`WireHid` and `HidMessage`. The frames of the codec, with the size of a byte as a
constant so that the wrap of the sequence number and the limit of the length field are
within reach; and the reader that takes one answer out of packets of two channels. The
authenticator sends its messages one after the other (`SendNext`, external): the packets of
a message are on their way only when those of the last one are through.

`WireNfc`, `WireBle`, `PacketSession`. APDU chaining with GET RESPONSE, BLE fragments as
their bytes with the checks of their size (longer than the MTU, shorter than the length
field), and the sessions that hold a mutex over all packets of an exchange while `Close` takes
none. The device is external; it executes what it takes for a request. Nothing in this
code resynchronises the device after an exchange that failed half way, and the variable
`spoiled` says when that has happened.

`PcscBackend`. Which contexts and cards `Discover`, `Open` and `Close` hold on which
path.

`Client` and `Authenticator`. Operations of two callers on one client. A step is one
exchange and the local code up to the next one; the steps of two operations
interleave, since only single exchanges are serialised. The authenticator is external,
modelled from the answers the manager tells apart: it has one PIN, one token and one
enumeration that a second caller's commands replace. An exchange may fail after the
device has carried it out. Nothing in the client keeps two listings apart, so the model
does not either; a listing whose next item would come out of another one's enumeration is
marked `crossed`.

`Fidoctl`. One command from the discovery of authenticators to its result, with the
registry, the locator and the USB backend underneath, and the polling loops after a
lost connection, a rejected reset and a set PIN. Keys are plugged in and removed at any
time, possibly at another address.

`ReportDescriptor`. The strict parser and the fallback scan read the same items side by
side, an item (a tag and a value) at a step; `finish` is a step per collection. Which
reports a collection declares, and how many bits, is kept; the bytes of an item are not.

`DiagnosticsRunner`. `Select` and `Run`, scenario by scenario: requirements, the callback
with the goroutines it may leave behind, cleanups in reverse order, the copy of the
evidence, validation. Every critical section of `Scope.mu` is one action, so a helper may
record or register at any point after its callback has returned.

`PowerObserver`. The owner thread with its power registration, the callback's reducer
and the calls around it. Notifications queue up at a registration and arrive late.

`MC...` modules name the sets and the combinations that the configurations use.
Definitions named `...Broken` state plausible mistakes in the definition after them. No
specification uses them; each of them, put in its place, breaks the property it is
listed with.

## Runs

| run | configuration | what it shows |
|---|---|---|
| `hid_connection` | two calls of any kinds; three reports on two slots, none beside a Write | `FifoDelivery`, `RetiredForCause`, `OneNativeWrite`, `WriteEvidence`, `CloseMeansClean`; the connection implements `HidLifecycle` (`ImplementsLifecycle`) |
| `hid_progress` | a Read or a Write, beside a Close; native calls may hang | `CancelledCallReturns`; `ParkedCallReturns`: queued input is read, and if native calls return so do accepted Writes; the liveness of `HidLifecycle` (`ImplementsFairLifecycle`) |
| `hid_native` | three of two Opens and two Enumerates on one endpoint, a budget too small for all | `ExclusiveEndpoint`, `NoOrphanConnection`, `BudgetIsExact`, `NothingLeaks`, `WaitingEnumReturns` |
| `drivers` | one of the three platforms; three reports of three kinds, a macOS queue of two; a key, another product on its port, the key again | the drivers implement `Contract`; `CallsReturn`, `NativeEnds`, `OpensThePinned` |
| `usb_session` | two exchanges of two packets over two sessions with a message of other traffic, two exchanges and a Close, or a handshake with two retries up to its request | `ResponseIsOwn`, `EvidenceIsSound`, `NoStaleEcho`, `SessionEndsForCause` |
| `usb_progress` | two exchanges and a Close, a device that may never answer | `ExchangesEnd`: handshakes end, and a Close ends every exchange |
| `wire` | the message reader, or two callers on a packet session, or two users of two card readers, or a descriptor of up to four fragments | `ReadsItsAnswer` (and leaves the rest), `AnswerIsOwn`, `NothingHeld`, `ReadingsAgree`, `SupportedAreUnambiguous` |
| `client` | two calls, any pair of fourteen requests, two listings included, on seven kinds of authenticator, one failed exchange | `ListIsExact`, `OnePinAttempt`, `OutcomeIsTrue`, `OneProbe`, `EveryCallReturns` |
| `client_verification` | a registration that requires or prefers verification | a violation of `RequiredIsVerified`, see below |
| `fidoctl` | every command; two USB keys of one product, one without a serial number, and a card; card listings may fail | `OpensWhatItListed`, `SuccessIsReal`, `ResetNeedsRemoval`, `CancelledCommandReturns`, `PollingEnds` |
| `fidoctl_reset` | the two USB keys; USB listings may fail | a violation of `RemovalIsProved`, see below |
| `diagnostics` | four notifications, two Arms, two observers one after the other on one slot; or five catalogs of one or two scenarios with four selections | `CycleIsReal`, `ResultsAreEarned`; no call hangs, which the deadlock check shows |

What the properties mean that are not plain from their names:

- `FifoDelivery`: reports are delivered in order, to one Read at a time. The busy flag stays
  set until the Read that set it clears it, whatever Reads are refused in between.
- `CloseMeansClean`: a Close that waited for the cleanup saw it complete, and every such
  Close, however late, reports a failure exactly if the native close failed.
- `BudgetIsExact`: the byte counter is the sum of what is reserved and stays within its
  limit, and the tests of `reserveEndpoint` and `reserveEnumeration` refuse only a
  reservation that would exceed one.
- `WaitingEnumReturns`: an Enumerate whose context expires returns, although the traversal
  that holds the slot may never end; and when native calls return, one that waits for the
  slot returns in any case.
- `EvidenceIsSound`: the packets of a request reach the authenticator in order and at most
  once, since only the handshake is retried; and the `ExchangeError` is true about them.
- `SuccessIsReal`: a command takes effect at most once in a run. One that is run again after
  a lost connection may take effect twice; a PIN command, or one without interaction, not.
- `NativeEnds`: the threads and run loop of macOS end before the connection is freed. On
  Windows a refused or closed device has no native handle left, an open one has the handle
  whose metadata matched, and no native request outlives the call that owns its buffer.
- `ListIsExact`: a listing names only credentials that were stored during the call. Unless
  it was crossed, it names each once, under its relying party, and all that were stored
  throughout. `GetNext` carries no relying party and the device has one cursor. So when a
  second listing begins the credentials of `rp1` while the first one is at those of `rp2`, the
  next `GetNext` of the first returns a credential of `rp1`; `enumerateCredentials` files it
  under `rp2` and reports success. No documentation promises otherwise: of concurrent
  calls `pkg/transport/session.go` speaks for a single `Exchange` only.
- `AnswerIsOwn`: up to the first exchange that fails where the next one meets its remains
  (`spoiled`). A card drops the rest of an old answer at the next command, so that a failed
  GET RESPONSE does not count; a chain of commands that breaks off does. BLE and injected USB
  sessions stay open after any failure, and the next exchange reads what is left.

### Two disagreements

`fidoctl_reset`. `hid_backend.go:97` says that an incomplete snapshot "is an error and
cannot establish device removal". `listDevices` in `app.go` turns a failed listing into
an empty one, and `waitForResetWindow` takes the empty list for the removal: the reset
is repeated although the key was never unplugged. `ResetNeedsRemoval` of the run
`fidoctl` is what does hold: it needs a transport whose listings do not fail.

`client_verification`. `operations.go:35` says that `UserVerificationRequired` "requires
user verification for the operation to proceed". The CTAP1 paths of `Register` and
`Authenticate` do not look at the policy, and succeed with `UserVerified` false.

### Bounds

A call of a connection is used once, so two calls show every pair of overlapping calls;
the busy flags and the gate let no more than one of a kind inside. Three reports on two
slots reach the overflow and the wrap of the ring. Reads with Writes and input, and
more than two calls at once, are covered by the proofs only. Two Opens of one endpoint
reach the conflict; a budget of six against costs of three and four reaches the
refusals for memory. Two-packet requests have a first, a last and a point between. Two
sessions are enough for an answer that arrives in the session after its own. With a
byte of four values the sequence number wraps after four packets and the length field
ends at fifteen; the code's 256 values and 128 packets are far from a small instance.
The requests and answers of the packet sessions are empty, end in a packet of one byte, end
in a full one, or are one byte too long for the BLE length field. The three incarnations of the Linux entry include one that cannot be told
from the first except by its identity. The seven authenticator profiles differ in what
the client branches on: protocols, PIN, built-in verification, token and management
commands, and one that answers 0x12 for ever; `maxRetries` is what its PIN retry counter
starts from. In fidoctl one key can be plugged in again, which is enough for a removal
and a return to either port. Four notifications make a
whole cycle, with a question before it and one event too many. Two scenarios let the
first leave a helper behind and the second run; two cleanups show their order, and one
observation tells evidence that was validated from evidence that came later.
Descriptors are put together from up to four fragments of items; one usage per item, two
levels of nesting, three collections and reports of two bytes put every limit of the
parser within reach.

The constraints `Mixes` name the combinations of calls in the table: the calls that
have begun are one of them, the others are never made. For liveness a constraint would
cut behaviours off. `OneKindSpec`, `ThreeCallsSpec` and `LoneRetrySpec` restrict the
next-state relation instead, and only in the beginning of calls, which no fairness
demands, and in a second attempt of a handshake, whose deadline may always pass
instead. Calls of a kind are interchangeable, so safety runs use symmetry; the liveness
runs do not.

### Fairness

Goroutines are scheduled fairly: the Go runtime runs every runnable goroutine in the
end, and a `select` with a ready case proceeds. The HID library and the session assume
no more (`SchedulerFairness`): native calls, and the authenticator, may hang for ever.
The properties that need more say so. `NativeFairness` is a hypothesis of theirs: native
calls return, which the drivers ensure by bounded polls, and which the code needs
because it never releases a handle under a call. `WaitingEnumReturns` also needs that a
waiter for the enumeration slot is served when the slot is free again and again
(`SlotFairness`): Go channels serve waiters in order.

The drivers: threads run, system calls return, and the I/O manager of Windows ends an
output request and one that was cancelled. That a wait or a native call fails is
never assumed. `CallsReturn` exempts a Windows Read whose `CancelIoEx` failed, which
keeps its buffer until the native request ends by itself. A Linux Read that always
finds a foreign report still meets its deadline (`SF` of `DeadlinePassed`).

The client: an exchange returns, with an answer or an error, and a goroutine that can
take `capsMu` does so. fidoctl: listings, opens and operations return, the ticker ticks,
and a `select` that meets an expired context again and again takes it, since it chooses
at random (`SF` of `PollCancelled`). Nothing assumes that a device answers or that a user
acts.

Deadlock is checked in every run. A stuttering action marks the states in which every
call that began has returned, or no observer can be created any more.

## Theorems

The theorems hold for any sets of calls, callers, keys, credentials and endpoints, any
queue size above zero, any limits and costs, and any number of reports, packets, retries,
sessions, scenarios and notifications. The assumptions on constants:

- `ConnectionAssumption`, `NativeAssumption`, `SessionAssumption`, `QueueAssumption`,
  `OpenAssumption`: kinds of calls are disjoint, queues have a slot, numbers are naturals,
  devices have attributes.
- `AuthenticatorAssumption`, `ClientAssumption`: finitely many credentials, each of one
  relying party; a request is of a known kind, and a `ChangePIN` asks for another PIN, as
  otherwise the device's state does not show whether it took place.
- `FidoctlAssumption`: finitely many keys, each of one transport.
- `RunnerAssumption`: catalogs and selections are lists.
- `WireAssumption`, `BleAssumption`, `NfcAssumption`: a report has more than seven
  bytes, an MTU is above two and a chunk above zero, which `pkg/wire/hid/codec.go:41`,
  `pkg/wire/ble/codec.go:34` and `pkg/wire/nfc/apdu.go:55` enforce.
- `MessageAssumption`, and the `SessionAssumption` of `PacketSession`: channels and commands
  are different, payloads of the device fit, nobody is not a caller.
- `DescriptorAssumption`: limits are naturals, a descriptor is a list of items.

`BudgetCoversLimitsHolds` has the arithmetic of `resources.go` as its hypothesis.
`MCDrivers` chooses the platform, so the theorems about all three are about its
specification, with the constants still arbitrary.

None of the properties is inductive. Each proof strengthens it, and shows the
strengthening action by action; frame lemmas say what the steps of an actor leave alone.
Most leaves are first-order reasoning about sets and functions and go to Zenon
(`USE Zenon` at the head of each module); those with arithmetic, records or sequences cite
`SMT`.

**Connection** (`HidConnectionProofs`, data and control). The invariant is `TypeOK /\ SafetyInv`:

- `AnsweredInv`: a worker evaluates a native answer only when there is one. Without it
  the published outcome has no type.
- `LifeInv`: retirement, supervisor, lease and wait group go together. The supervisor
  passes its wait only with an empty wait group, and the pump and every live worker are
  in it. This gives `HandleLifetime`, `NoLateWorker` and the refinement.
- `WriteInv`: at most one Write is engaged and at most one worker is live, and a worker
  that outlived its call belongs to a retiring connection. The last conjunct is why
  clearing `writeBusy` early is safe: nobody is admitted after it. This gives
  `OneNativeWrite`.
- `EvidenceInv`: what the worker published and what the call returned agree with the
  answer of the device. This gives `WriteEvidence`.
- `ReadInv`: one Read at a time, with the busy flag set, and a parked Read beside queued
  input has a token. This gives `NoLostWakeup` and the part of `FifoDelivery` about Reads.
- `CloseInv`: a Close that waited for the cleanup returned its result, which no longer
  changes. With `LifeInv` it gives `CloseMeansClean`.
- `CauseInv` and `CountInv`: whoever is about to retire the connection has its cause on
  record; delivered, queued and in-hand reports add up, so an overflow means that more
  than `QueueSize` reports were undelivered. These give `RetiredForCause`.
- `FifoInv`: the delivered reports, followed by the ring read from its head, count on
  from one. With the arithmetic of the ring index it gives `FifoDelivery`.

`LifecycleRefined` is the step simulation: each action of the connection is an action
of `HidLifecycle` or leaves its state alone.

**Backend** (`SessionProofs`, first part). The invariant is `NativeInv`: `CallInv` ties a call to
its goroutine, `LeaseInv` says that the reserved endpoints are exactly those that an
Open or its connection owns, and no two own the same, `SlotInv` does so for the
enumeration slot, and `BudgetInv` says that the byte counter is the cost of the reserved
endpoints plus that of the traversal, which makes the tests of the code those of
`BudgetIsExact`.

**Drivers** (`DriverProofs`, a part each). Each driver implements
`Contract`; the mapping is the identity on the contract's variables, so the work is to
show that what a Read returns is the next report and that a write outcome is true.

- macOS: `QueueInv` says that the queue of a live connection holds, in order, every
  report of the handle's format after the last one returned. `WriteInv` says that a
  report reaches the device only between submission and posting, and that the marks
  of a posted result are true, also one of a write whose caller gave up.
  `DarwinNativeAlone`: the connection is freed only when both threads have ended.
- Windows: `ReadInv` counts what the kernel handed out against what Reads returned. A
  request that completes while it is being cancelled is the one difference, and its
  report is returned. `WindowsBufferOwned`: no native request is pending on the buffer of
  a call that has returned. `HandleInv`: the native handle is open from the native open
  to the error or the Close that ends it, and a device is returned only after its
  metadata matched.
- Linux: `PinnedInv`. An incarnation of a device never comes back, so while the pinned
  one is present it has been there all the time, and all that was opened and read
  under its name is its. The second inspection after `open` establishes presence.
  `IoInv` does for `poll` and `read` what `ReadInv` does on Windows.

`DriversInv` joins the three: the platform never changes, and the invariant of the chosen
one holds. It gives `DriversImplementContract`, `OpensThePinnedHolds` and
`NativeEndsHolds`.

**PC/SC** (`DriverProofs`, last part). `PcscInv` says for every step of a user what it
holds (`Holds`): a context from `Establish` on, and a card only of the reader it is at.
Contexts and cards belong to one user, so a step of another leaves them alone
(`OthersHold`). At rest nothing is left, which is `NothingHeld`.

**Session** (`UsbSessionProofs`). The authenticator may answer late
or never, and a report of unknown outcome may arrive at any later time.

- `GateInv`: whoever is behind the gate holds its token. It gives `SessionEndsForCause`:
  only a Close, or the one exchange inside failing without an answer of the device,
  retires a session.
- `EvidenceInv`: before its request an exchange has sent nothing. While it sends and
  waits, its progress counts exactly the packets that arrived, and none is in doubt.
  After a failure what it reported agrees with what arrived or may yet arrive; a late
  packet only turns one into the other. `ArrivedInv`: what has arrived of a request is a
  prefix of its packets, and one in doubt is the next. These give `EvidenceIsSound`.
- `FreshInv`: nothing is under way on a channel before its PING. Every attempt asks for a
  channel of its own, so a late echo is on one that was given up.
- `LiveInv`: while a session is open, at most one answer is under way on its channel or
  on the one that waits for its echo, no report there is in doubt, and an answer on the
  session's channel is for the exchange that waits. This is why every failure without an
  answer has to retire the session: the answer may still come, and only a new channel
  keeps it apart. With `GateInv` it gives `ResponseIsOwn`.
- `EchoInv`: no PING reply is under way on the chosen channel, and no PING in doubt is for
  it. It gives `NoStaleEcho`; it rests on `LiveInv` when the channel is chosen.

`WorldOK` has the types of messages, reports and channels, `ChannelInv` where each step
of the handshake stands with its channel. `SessionAssumption` also keeps the names of
exchanges apart from those of the broadcast channel and of other clients.

**Wire** (`WireProofs`). First the three framings. `HidHeld`, `BleHeld` and `NfcHeld`
describe an assembler in closed form: what it holds when it has been given the first k
packets of a payload. `HidStep`, `BleStep` and `NfcStep` show that adding packet
k + 1 leads from one description to the next; the assembler never fails, and it is done with
the last packet and not before. The fragments are functions of their index, so no induction
over the payload is needed: the induction is that of the invariant, packet by packet. The
arithmetic is that of the wrapping sequence number, of the two bytes of the length field
and of the last, shorter packet; `BleHead` takes the length field off the first BLE fragment.

- `PacketSessionInv`: until an exchange fails half way, whoever holds the mutex has sent k
  packets of its request and the device holds just these (`Sending`), or has read k packets
  of the response to its own request and the rest is what the device still has to say
  (`Receiving`); without a holder the device is at rest (`AtRest`). It gives `AnswerIsOwn`.
  A card may keep the rest of an old answer, which the next command replaces.
- `MessageInv`: all messages before the current one were keepalives, and the assembler holds
  the packets of the current one that were taken (`Within`). It gives `ReadsItsAnswer`,
  whatever the other channel sends.

**Descriptors** (`DescriptorProofs`). The invariant is `DescriptorInv`:

- `ReadingsInv`: as long as the strict parser goes on, the scan is in step with it
  (`InStep`): the same depth, usage page, saved pages, first usage and minimum. From then on
  the collections that the parser had found stay the beginning of those the scan finds
  (`Begins`). It gives `ReadingsAgree`.
- `FinishInv`: between two collections, `finish`'s maps own exactly the report IDs of the
  collections before, each by one that has it, and the collections marked so far are those
  that share an ID with another one (`Clashes`). A map keeps the first owner only; that this
  is enough is what `SupportedAreUnambiguous` rests on.

**Client** (`ClientProofs`, single calls and then the whole). The steps of two
calls interleave at every exchange, so what a call knows of the device may be out of date.
`ClientInv` has, beside the types, for every call:

- `Asked` and `Fits`: its step is one that its kind of operation has, and a request that
  is refused at once is never under way.
- `Probes`: whoever is probing holds `capsMu` and finds the cache empty, and a call past
  its probe works with what is in the cache. It gives `OneProbe`.
- `Attempts`: a call that goes on has cost no PIN attempt; one that did has returned.
  It gives `OnePinAttempt`.
- `Reports`: a change has been applied only when its call returns, once if it reports
  success, and after a failure only if the answer was lost. It gives `OutcomeIsTrue`.
- `Watched`: the device holds what was there throughout the call, and nothing but what
  was there at some time during it.
- `Listing`: the hard one. What is listed was stored during the call, since what the
  device's cursor has left is always stored on it (`CursorInv`), whoever opened the
  enumeration. As long as no other listing crossed this one (`Exact`), the cursor is where
  the client thinks it is while the enumeration is open (`RpsOpen`, `CredsOpen`). Every
  credential held throughout is listed already, or still under the cursor, or its relying
  party waits (`Covered`), and what is listed is right and listed once (`Sound`). When a
  command that is no enumeration takes the enumeration away, the next answer is an error and
  the listing fails. It gives `ListIsExact`.

**fidoctl** (`SessionProofs`, second part). `FidoctlInv`: what was asked for, listed, looked
up and opened fits together (`Matched`, which gives `OpensWhatItListed`); an open session's
key, and the key that rejected a reset, have not been unplugged (`Held`, on which
`ResetNeedsRemoval` rests); and the effects on all keys together are at most as many as the
runs, a PIN command or one without interaction is not repeated, and success is reported only
with an effect (`Counted`, which gives `SuccessIsReal`; `TotalGrows` counts the effects). The keys are removed and come back between any two steps.

**Diagnostics** (`DiagnosticsProofs`). `RunnerInv`: `Picked`, what Select made of the
catalog; `Placed`, one result for every scenario before the current one; `UnderWay`, what
has been registered, attempted and recorded at each step, where `Unwinding` says that
every registered cleanup is still to come or was attempted, in reverse order,
and `Deserved` that a result which is still PASS has had no failure. It gives
`ResultsAreEarned`. `PowerInv`: `Registered` says that notifications under way belong to
the snapshot's generation, since both change hands together; `Followed` that a log which
nothing has spoilt is the beginning of one cycle, acknowledged and of this generation. It gives `CycleIsReal`.

Only model-checked is the liveness, which the prover does not handle (fairness and
`ENABLED`): `CancelledCallReturns`, `ParkedCallReturns`, `ImplementsFairLifecycle`,
`WaitingEnumReturns`, `CallsReturn`, `ExchangesEnd`, `EveryCallReturns`,
`CancelledCommandReturns` and `PollingEnds`, and the absence of deadlock. Every other
property of a passing run is stated by a theorem.

## Not modelled

- Data: payload bytes, cryptography, CBOR, the encodings of CTAP1 and CTAP2,
  command-line handling and output. They are stateless.
- The length of time: a deadline may pass whenever it is pending.
- Panics and the loss of the process: nothing is persisted.
- The inventory walks of the platforms: sequences of property reads without shared
  state. Listings of fidoctl are taken one at a time, as its single goroutine does.
- In the drivers: the overflow of the kernel's own ring of reports, the arrival of a
  report after its write ended with an unknown outcome, and on Linux input before `open`
  has returned, which the kernel queues for no one.
- In the client: interaction callbacks, the biometric surface, and copies of values.
- The wrap of the power observer's 64-bit generation.
- In the descriptor parser: an Application collection without a usage of its own. `Parse`
  then uses an earlier usage minimum and `scanUsages` an earlier first usage. The variable
  `unnamed` records it, and `ReadingsAgree` says nothing about the usages after it.
- In the diagnostics: the syntax of selectors, the scenarios themselves, the writing of
  reports.
- The trace wrappers, the build-tagged HID probes, examples and tools: they observe or
  exercise the library and take no part in its protocols.
