----------------------------- MODULE LinuxDriver -----------------------------
(***************************************************************************)
(* The Linux driver: Read and Write of device_linux.go on a non-blocking   *)
(* hidraw descriptor.  Read polls, then reads, and starts over when it was *)
(* interrupted, found nothing or got a report with another ID; nothing is  *)
(* pending in the kernel between the two.                                  *)
(***************************************************************************)
EXTENDS LinuxOpen

VARIABLES
  readAt,    \* "poll" or "read"
  drained    \* the reports of sent that read(2) has taken

linuxVars == <<openVars, readAt, drained>>

LinuxInit ==
  /\ OpenInit
  /\ readAt = "poll"
  /\ drained = 0

openLinux == (OpenStep \/ Fails) /\ UNCHANGED <<readAt, drained>>

\* poll(2): readable, timed out, or an error, a hang-up or a bad descriptor.
Poll ==
  /\ read.busy
  /\ readAt = "poll"
  /\ \/ /\ drained < Len(sent)
        /\ readAt' = "read"
        /\ UNCHANGED read
     \/ /\ drained = Len(sent)
        /\ read' = Returned("timeout")
        /\ UNCHANGED readAt
     \/ /\ read' = Returned("error")
        /\ UNCHANGED readAt
  /\ UNCHANGED <<handle, sent, taken, write, delivered, openVars, drained>>

\* The deadline is over before the next poll.
DeadlinePassed ==
  /\ read.busy
  /\ readAt = "poll"
  /\ read' = Returned("timeout")
  /\ UNCHANGED <<handle, sent, taken, write, delivered, linuxVars>>

\* read(2) of a handle whose input has a report ID: a report of another ID is
\* passed over, one of another length is an error.
ReadNode ==
  /\ read.busy
  /\ readAt = "read"
  /\ readAt' = "poll"
  /\ drained' = drained + 1
  /\ CASE sent[drained'] = "good" -> taken' = drained' /\ read' = Returned("report")
       [] sent[drained'] = "bad" -> read' = Returned("error") /\ UNCHANGED taken
       [] sent[drained'] = "other" -> UNCHANGED <<taken, read>>
  /\ UNCHANGED <<handle, sent, write, delivered, openVars>>

\* EINTR and EAGAIN start over; any other error, and an empty read, end it.
ReadNodeFails ==
  /\ read.busy
  /\ readAt = "read"
  /\ readAt' = "poll"
  /\ read' \in {read, Returned("error")}
  /\ UNCHANGED <<handle, sent, taken, write, delivered, openVars, drained>>

\* One write(2); an error or a short count says nothing of delivery.
WriteNode ==
  /\ write.busy
  /\ delivered' \in BOOLEAN
  /\ \/ delivered' /\ write' = Returned("Completed")
     \/ write' = Returned("Unknown")
     \/ ~delivered' /\ write' = Returned("NotSubmitted")
  /\ UNCHANGED <<handle, sent, taken, read, linuxVars>>

LinuxNext ==
  \/ openLinux
  \/ Plug /\ UNCHANGED <<readAt, drained>>
  \/ (CallRead \/ CallWrite \/ CallClose \/ Closed) /\ UNCHANGED linuxVars
  \/ handle = "open" /\ Send /\ UNCHANGED linuxVars
  \/ Poll
  \/ DeadlinePassed
  \/ ReadNode
  \/ ReadNodeFails
  \/ WriteNode

LinuxSpec ==
  ContractInit /\ LinuxInit /\ [][LinuxNext]_<<contractVars, linuxVars>>

\* System calls return.  An endless run of interrupted reads is not assumed
\* away: the deadline ends it.
LinuxFairness ==
  /\ WF_<<contractVars, linuxVars>>(platform = "linux" /\ Closed /\ UNCHANGED linuxVars)
  /\ WF_<<contractVars, linuxVars>>(platform = "linux" /\ openLinux)
  /\ WF_<<contractVars, linuxVars>>(platform = "linux" /\ (Poll \/ ReadNode))
  /\ SF_<<contractVars, linuxVars>>(platform = "linux" /\ DeadlinePassed)
  /\ WF_<<contractVars, linuxVars>>(platform = "linux" /\ WriteNode)
=============================================================================
