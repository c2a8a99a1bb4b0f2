------------------------------ MODULE Watchdog ------------------------------
(***************************************************************************)
(* xnbd-watchdog (xnbd_watchdog.c) beside the clients of Client: a child   *)
(* reads a block of the device again and again and writes to a pipe after  *)
(* each read; the parent reads the pipe under an alarm and invokes the     *)
(* recovery command when the alarm comes first.  Time passes in ticks, and *)
(* only when both processes wait: they are much faster than the seconds of *)
(* their alarms and sleeps.                                                *)
(***************************************************************************)
EXTENDS Client

CONSTANTS timeout, interval   \* in ticks

ASSUME TicksAssumption == timeout \in Nat \ {0} /\ interval \in Nat \ {0}

VARIABLES
  poller,     \* the child: "none", "pread", "notify", "sleep" or "exited"
  elapsed,    \* ticks since the child called pread() or sleep()
  pipe,       \* bytes in the pipe
  watcher,    \* the parent: "none", "arm", "read" or "exited"
  alarm,      \* ticks left of alarm(), or 0
  io_error,   \* a read of the device failed
  recovered   \* the watchdog invoked the recovery command

watchVars == <<poller, elapsed, pipe, watcher, alarm, io_error, recovered>>
vars == <<clientVars, watchVars>>

Init ==
  /\ ClientInit
  /\ poller = "none" /\ elapsed = 0 /\ pipe = 0
  /\ watcher = "none" /\ alarm = 0
  /\ io_error = FALSE /\ recovered = FALSE

\* make_pipe() and fork(), once the device works
StartWatchdog ==
  /\ watcher = "none" /\ device.pid # NoPid
  /\ watcher' = "arm" /\ poller' = "pread"
  /\ UNCHANGED <<clientVars, elapsed, pipe, alarm, io_error, recovered>>

\* pread() returns when the device answers: data, the end of a device that was
\* detached, or an error (the session is gone), on which the child exits.  A
\* server that does not answer is a pread() that does not return.
pread ==
  /\ poller = "pread"
  /\ \/ /\ device.pid # NoPid /\ device.up
        /\ poller' = "notify"
        /\ UNCHANGED io_error
     \/ /\ device.pid = NoPid
        /\ poller' = "exited"
        /\ UNCHANGED io_error
     \/ /\ ~device.up
        /\ poller' = "exited" /\ io_error' = TRUE
  /\ UNCHANGED <<clientVars, elapsed, pipe, watcher, alarm, recovered>>

notify ==
  /\ poller = "notify"
  /\ pipe' = pipe + 1
  /\ poller' = "sleep" /\ elapsed' = 0
  /\ UNCHANGED <<clientVars, watcher, alarm, io_error, recovered>>

wake ==
  /\ poller = "sleep" /\ elapsed = interval
  /\ poller' = "pread" /\ elapsed' = 0
  /\ UNCHANGED <<clientVars, pipe, watcher, alarm, io_error, recovered>>

arm_Timeout ==
  /\ watcher = "arm"
  /\ alarm' = timeout
  /\ watcher' = "read"
  /\ UNCHANGED <<clientVars, poller, elapsed, pipe, io_error, recovered>>

\* alarm(timeout + interval)
arm ==
  /\ watcher = "arm"
  /\ alarm' = timeout + interval
  /\ watcher' = "read"
  /\ UNCHANGED <<clientVars, poller, elapsed, pipe, io_error, recovered>>

\* read() of all there is, and alarm(0); or the end of the pipe
ReadPipe ==
  /\ watcher = "read"
  /\ \/ pipe > 0 /\ watcher' = "arm" /\ UNCHANGED elapsed
     \/ pipe = 0 /\ poller = "exited" /\ watcher' = "exited" /\ elapsed' = 0
  /\ pipe' = 0 /\ alarm' = 0
  /\ UNCHANGED <<clientVars, poller, io_error, recovered>>

SigAlarm_Restarts ==
  /\ watcher = "read" /\ alarm = 0 /\ pipe = 0 /\ poller # "exited"
  /\ UNCHANGED vars

\* SIGALRM interrupts read(): EINTR.  The child is not followed any more:
\* SIGPIPE ends it when it writes next.
SigAlarm ==
  /\ watcher = "read" /\ alarm = 0 /\ pipe = 0 /\ poller # "exited"
  /\ watcher' = "exited" /\ recovered' = TRUE
  /\ poller' = "exited" /\ elapsed' = 0
  /\ UNCHANGED <<clientVars, pipe, alarm, io_error>>

\* Nothing but pread() may take long.
Tick ==
  /\ watcher = "read" /\ pipe = 0 /\ alarm > 0
  /\ \/ poller = "sleep" /\ elapsed < interval
     \/ poller = "pread"
  /\ alarm' = alarm - 1
  /\ elapsed' = elapsed + 1
  /\ UNCHANGED <<clientVars, poller, pipe, watcher, io_error, recovered>>

WatchStep == pread \/ notify \/ wake \/ arm \/ ReadPipe \/ SigAlarm
WatchNext == StartWatchdog \/ WatchStep \/ Tick
Next == (ClientNext /\ UNCHANGED watchVars) \/ WatchNext

Spec == Init /\ [][Next]_vars

\* Processes run, and time passes; servers and users owe nothing.
FairSpec ==
  /\ Spec
  /\ \A p \in Connects : /\ WF_vars(ParentStep(p) /\ UNCHANGED watchVars)
                         /\ WF_vars(ChildStep(p) /\ UNCHANGED watchVars)
  /\ \A d \in Disconnects : WF_vars(DisconnectStep(d) /\ UNCHANGED watchVars)
  /\ WF_vars(notify \/ wake \/ arm \/ ReadPipe \/ SigAlarm \/ Tick)

-----------------------------------------------------------------------------
(* Properties                                                              *)

\* Every variable keeps its type, and no clock passes its limit.
TypeOK ==
  /\ ClientTypeOK
  /\ poller \in {"none", "pread", "notify", "sleep", "exited"}
  /\ watcher \in {"none", "arm", "read", "exited"}
  /\ pipe \in 0 .. 1 /\ alarm \in 0 .. timeout + interval
  /\ elapsed \in 0 .. timeout + interval
  /\ io_error \in BOOLEAN /\ recovered \in BOOLEAN

\* The recovery command is invoked only while a read of the device is pending,
\* or not yet reported, that has taken the timeout or more: sleeping between two reads, or a session
\* that a user ended, never looks like a hanging device.
NoFalseAlarm ==
  [][recovered # recovered' => poller \in {"pread", "notify"} /\ elapsed >= timeout]_vars

\* A read of the device that never returns is noticed: it returns, or the
\* recovery command is invoked.
HangNoticed == poller = "pread" ~> poller # "pread" \/ recovered

\* Every --connect comes to an end, success or failure, when retries are bounded.
ConnectReturns ==
  \A p \in Connects : parent[p] = "connect" ~> parent[p] \in {"success", "failed"}

\* A session that a user ended, or that was lost, leaves the device free for the
\* next one.
DeviceFreed ==
  device.sock # NoPid /\ ~device.up ~> device.sock = NoPid \/ device.up

\* A read of the device that failed makes the watchdog invoke the recovery
\* command ("invoke a specified command if polling failed").
FailureRecovers == io_error ~> recovered
=============================================================================
