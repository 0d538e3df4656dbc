---------------------------- MODULE DarwinDriver ----------------------------
(***************************************************************************)
(* The macOS driver: a hid_connection of connection_darwin.c with its      *)
(* reader thread (a run loop whose callbacks queue the input reports), its *)
(* writer thread (one report at a time, with SIGURG blocked) and the calls *)
(* hid_connect, hid_read, hid_write and hid_disconnect that darwin.go      *)
(* makes.  What happens under the connection's lock is one step.           *)
(***************************************************************************)
EXTENDS HidDriver

CONSTANT HID_QUEUE_SIZE

ASSUME QueueAssumption == HID_QUEUE_SIZE \in Nat \ {0}

VARIABLES
  opener,      \* where hid_connect stands: "create", "ready", "writer", "join"
               \* or "done"; then hid_disconnect: "stop", "join"
  reader,      \* "none", "opening", "run", "teardown" or "exited"
  writer,      \* "none", "wait", "setup", "submitted" or "exited"
  runloop,     \* c->runloop is not NULL
  ready,
  stop,
  writer_stop,
  terminal,    \* "none", "io" (with an io_error), "overflow", "format", "mask"
  queue,       \* the queued reports, as positions in sent
  pending,     \* c->write_pending
  done         \* the c->write_result posted and not yet taken, as a set

connectionVars == <<runloop, ready, stop, writer_stop, terminal, queue, pending, done>>

darwinVars == <<opener, reader, writer, connectionVars>>

DarwinInit ==
  /\ opener = "create"
  /\ reader = "none"
  /\ writer = "none"
  /\ runloop = FALSE
  /\ ready = FALSE
  /\ stop = FALSE
  /\ writer_stop = FALSE
  /\ terminal = "none"
  /\ queue = << >>
  /\ pending = FALSE
  /\ done = {}

\* The first failure is kept.
fail_locked(cause) == terminal' = IF terminal = "none" THEN cause ELSE terminal

-----------------------------------------------------------------------------
(* hid_connect. *)

CreateReader ==
  /\ opener = "create"
  /\ \/ /\ handle' = "refused"
        /\ opener' = "done"
        /\ UNCHANGED reader
     \/ /\ opener' = "ready"
        /\ reader' = "opening"
        /\ UNCHANGED handle
  /\ UNCHANGED <<sent, taken, read, write, delivered, writer, connectionVars>>

AwaitReadyUnstoppedBroken ==
  /\ opener = "ready"
  /\ ready
  /\ opener' = IF terminal = "io" THEN "join" ELSE "writer"
  /\ UNCHANGED <<contractVars, reader, writer, connectionVars>>

AwaitReady ==
  /\ opener = "ready"
  /\ ready
  /\ opener' = IF terminal = "io" THEN "join" ELSE "writer"
  /\ stop' = (terminal = "io")
  /\ UNCHANGED <<contractVars, reader, writer, runloop, ready, writer_stop, terminal,
                 queue, pending, done>>

CreateWriter ==
  /\ opener = "writer"
  /\ \/ /\ writer' = "wait"
        /\ handle' = "open"
        /\ opener' = "done"
        /\ UNCHANGED stop
     \/ /\ stop' = TRUE
        /\ opener' = "join"
        /\ UNCHANGED <<writer, handle>>
  /\ UNCHANGED <<sent, taken, read, write, delivered, reader, runloop, ready,
                 writer_stop, terminal, queue, pending, done>>

JoinReader ==
  /\ opener = "join"
  /\ handle = "opening"
  /\ reader = "exited"
  /\ handle' = "refused"
  /\ opener' = "done"
  /\ UNCHANGED <<sent, taken, read, write, delivered, reader, writer, connectionVars>>

-----------------------------------------------------------------------------
(* The reader thread and the callbacks its run loop makes. *)

ReaderOpensPublishingBroken ==
  /\ reader = "opening"
  /\ ready' = TRUE
  /\ runloop' = TRUE
  /\ \/ reader' = "run" /\ UNCHANGED terminal
     \/ reader' = "exited" /\ fail_locked("io")
  /\ UNCHANGED <<contractVars, opener, writer, stop, writer_stop, queue, pending, done>>

ReaderOpens ==
  /\ reader = "opening"
  /\ ready' = TRUE
  /\ \/ reader' = "run" /\ runloop' = TRUE /\ UNCHANGED terminal
     \/ reader' = "exited" /\ fail_locked("io") /\ UNCHANGED runloop
  /\ UNCHANGED <<contractVars, opener, writer, stop, writer_stop, queue, pending, done>>

\* A report, or the error the callback is given instead of one.
input_callback ==
  /\ reader = "run"
  /\ Send
  /\ LET kind == sent'[Len(sent')]
         ignored == stop \/ terminal # "none" \/ kind = "other"
     IN  /\ queue' = IF ~ignored /\ kind = "good" /\ Len(queue) < HID_QUEUE_SIZE
                     THEN Append(queue, Len(sent')) ELSE queue
         /\ IF ignored THEN UNCHANGED terminal
            ELSE IF kind = "bad" THEN fail_locked("format")
            ELSE IF Len(queue) = HID_QUEUE_SIZE THEN fail_locked("overflow")
            ELSE UNCHANGED terminal
  /\ UNCHANGED <<opener, reader, writer, runloop, ready, stop, writer_stop, pending, done>>

\* The input callback's error result and the removal callback fail alike.
removal_callback ==
  /\ reader = "run"
  /\ fail_locked("io")
  /\ UNCHANGED <<contractVars, opener, reader, writer, runloop, ready, stop, writer_stop,
                 queue, pending, done>>

ReaderStops ==
  /\ reader = "run"
  /\ stop
  /\ reader' = "teardown"
  /\ UNCHANGED <<contractVars, opener, writer, connectionVars>>

ReaderExits ==
  /\ reader = "teardown"
  /\ reader' = "exited"
  /\ runloop' = FALSE
  /\ UNCHANGED <<contractVars, opener, writer, ready, stop, writer_stop, terminal, queue,
                 pending, done>>

-----------------------------------------------------------------------------
(* hid_read, and Read of darwin.go around it. *)

\* The status of hid_read as the driver's result: the cause of a retirement, a
\* wait that failed and a stop are errors, only ETIMEDOUT is a timeout.
darwinRead(status) ==
  CASE status = "0"         -> Returned("report")
    [] status = "ETIMEDOUT" -> Returned("timeout")
    [] OTHER                -> Returned("error")

hid_read ==
  /\ read.busy
  /\ IF terminal # "none" \/ stop
     THEN /\ read' = darwinRead(IF terminal # "none" THEN terminal ELSE "-5")
          /\ UNCHANGED <<taken, queue>>
     ELSE IF queue # << >>
     THEN /\ read' = darwinRead("0")
          /\ taken' = Head(queue)
          /\ queue' = Tail(queue)
     ELSE /\ \E status \in {"ETIMEDOUT", "EINVAL"} : read' = darwinRead(status)
          /\ UNCHANGED <<taken, queue>>
  /\ UNCHANGED <<handle, sent, write, delivered, opener, reader, writer, runloop, ready,
                 stop, writer_stop, terminal, pending, done>>

-----------------------------------------------------------------------------
(* hid_write with Write of darwin.go around it, and the writer thread. *)

\* The marks protected_write left, as the driver's outcome.
darwinWrite(result) ==
  CASE result.completed                      -> "Completed"
    [] result.submitted /\ ~result.completed -> "Unknown"
    [] OTHER                                 -> "NotSubmitted"

\* A report of the wrong size, a failed allocation, or a retired connection.
hid_write_refuses ==
  /\ write.busy
  /\ ~pending
  /\ done = {}
  /\ write' = Returned("NotSubmitted")
  /\ UNCHANGED <<handle, sent, taken, read, delivered, darwinVars>>

hid_write_admits ==
  /\ write.busy
  /\ ~pending
  /\ done = {}
  /\ ~stop
  /\ terminal = "none"
  /\ pending' = TRUE
  /\ UNCHANGED <<contractVars, opener, reader, writer, runloop, ready, stop, writer_stop,
                 terminal, queue, done>>

hid_write_returns ==
  /\ write.busy
  /\ \E result \in done : write' = Returned(darwinWrite(result))
  /\ done' = {}
  /\ UNCHANGED <<handle, sent, taken, read, delivered, opener, reader, writer, runloop,
                 ready, stop, writer_stop, terminal, queue, pending>>

WriterWakes ==
  /\ writer = "wait"
  /\ pending \/ writer_stop
  /\ writer' = IF writer_stop THEN "exited" ELSE "setup"
  /\ UNCHANGED <<contractVars, opener, reader, connectionVars>>

SetupMask ==
  /\ writer = "setup"
  /\ writer' = "submitted"
  /\ UNCHANGED <<contractVars, opener, reader, connectionVars>>

DeviceReceives ==
  /\ writer = "submitted"
  /\ ~delivered
  /\ Deliver
  /\ UNCHANGED darwinVars

\* protected_write's result is posted; a mask that could not be restored
\* retires the connection and the thread.
WriterPosts ==
  /\ \E restored \in BOOLEAN :
       /\ \/ /\ writer = "setup"
             /\ restored
             /\ done' = {[submitted |-> FALSE, completed |-> FALSE]}
          \/ /\ writer = "submitted"
             /\ \E completed \in BOOLEAN :
                  /\ completed => delivered
                  /\ done' = {[submitted |-> TRUE, completed |-> completed]}
       /\ pending' = FALSE
       /\ IF restored THEN writer' = "wait" /\ UNCHANGED terminal
          ELSE writer' = "exited" /\ fail_locked("mask")
  /\ UNCHANGED <<contractVars, opener, reader, runloop, ready, stop, writer_stop, queue>>

-----------------------------------------------------------------------------
(* hid_disconnect. *)

hid_disconnect ==
  /\ handle = "closing"
  /\ opener = "done"
  /\ opener' = "join"
  /\ stop' = TRUE
  /\ writer_stop' = TRUE
  /\ UNCHANGED <<contractVars, reader, writer, runloop, ready, terminal, queue, pending,
                 done>>

Joined ==
  /\ handle = "closing"
  /\ opener = "join"
  /\ writer = "exited"
  /\ reader = "exited"
  /\ Closed
  /\ opener' = "done"
  /\ UNCHANGED <<reader, writer, connectionVars>>

-----------------------------------------------------------------------------
Opening == CreateReader \/ AwaitReady \/ CreateWriter \/ JoinReader

Reader == ReaderOpens \/ ReaderStops \/ ReaderExits

Writer == WriterWakes \/ SetupMask \/ WriterPosts

Calls == (CallRead \/ CallWrite \/ CallClose) /\ UNCHANGED darwinVars

hid_write == hid_write_refuses \/ hid_write_admits \/ hid_write_returns

DarwinNext ==
  \/ Opening
  \/ Reader
  \/ Writer
  \/ Calls
  \/ hid_read
  \/ hid_write
  \/ input_callback
  \/ removal_callback
  \/ DeviceReceives
  \/ hid_disconnect
  \/ Joined

DarwinSpec ==
  ContractInit /\ DarwinInit /\ [][DarwinNext]_<<contractVars, darwinVars>>

\* Threads run, IOHIDDeviceOpen and IOHIDDeviceSetReport return, and a bounded
\* wait ends.
DarwinFairness ==
  /\ WF_<<contractVars, darwinVars>>(platform = "darwin" /\ Opening)
  /\ WF_<<contractVars, darwinVars>>(platform = "darwin" /\ Reader)
  /\ WF_<<contractVars, darwinVars>>(platform = "darwin" /\ Writer)
  /\ WF_<<contractVars, darwinVars>>(platform = "darwin" /\ hid_read)
  /\ WF_<<contractVars, darwinVars>>(platform = "darwin" /\ hid_write)
  /\ WF_<<contractVars, darwinVars>>(platform = "darwin" /\ (hid_disconnect \/ Joined))

\* The connection is freed only once both of its threads have ended, and the
\* run loop hid_disconnect and hid_connect may stop belongs to a live thread.
NativeAlone ==
  /\ handle \in {"refused", "closed"} =>
       reader \in {"none", "exited"} /\ writer \in {"none", "exited"}
  /\ runloop => reader \in {"run", "teardown"}
=============================================================================
