------------------------------ MODULE MCDrivers ------------------------------
(***************************************************************************)
(* The three platform drivers against the contract of driver.Device: a     *)
(* behaviour runs one of them, the others stay at their initial states.    *)
(***************************************************************************)
EXTENDS DarwinDriver, WindowsDriver, LinuxDriver

allVars == <<platform, contractVars, darwinVars, windowsVars, linuxVars>>

Key == [sysPath |-> 1, dev |-> 1,
        metadata |-> [info |-> 1, descriptor |-> 1, unique |-> 0, strings |-> 1]]

\* A key, then another product on its port, then the key again.
MCAttributes == <<Key, [Key EXCEPT !.metadata.strings = 2], Key>>

MCInit ==
  /\ platform \in {"darwin", "windows", "linux"}
  /\ ContractInit
  /\ DarwinInit
  /\ WindowsInit
  /\ LinuxInit

MCNext ==
  /\ UNCHANGED platform
  /\ \/ platform = "darwin" /\ DarwinNext /\ UNCHANGED <<windowsVars, linuxVars>>
     \/ platform = "windows" /\ WindowsNext /\ UNCHANGED <<darwinVars, linuxVars>>
     \/ platform = "linux" /\ LinuxNext /\ UNCHANGED <<darwinVars, windowsVars>>

Stopped ==
  /\ handle \in {"refused", "closed"}
  /\ UNCHANGED allVars

MCSpec ==
  /\ MCInit
  /\ [][MCNext \/ Stopped]_allVars
  /\ DarwinFairness
  /\ WindowsFairness
  /\ LinuxFairness

\* Every call of the core into a driver returns: the opening, a bounded Read,
\* a Write, and the Close that joins the driver's threads.  The one exception is
\* a Windows Read whose CancelIoEx failed: it keeps its buffer until the native
\* request ends by itself.
CallsReturn ==
  /\ (handle = "opening") ~> (handle # "opening")
  /\ (handle = "closing") ~> (handle = "closed")
  /\ read.busy ~> (~read.busy \/ transfer["read"].uncancelled)
  /\ write.busy ~> ~write.busy

\* The native resources of a handle end with it: on macOS both threads and the
\* run loop, on Windows the native handle, whichever step of Open failed, and the
\* request that owns a buffer.
NativeEnds == NativeAlone /\ HandleOwned /\ BufferOwned
=============================================================================
