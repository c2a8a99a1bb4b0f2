-------------------------- MODULE WatchdogProofs --------------------------
(***************************************************************************)
(* The alarm of xnbd-watchdog, for every timeout and interval: it never    *)
(* takes a sleeping child for a hanging device.  And xnbd-client, for every*)
(* number of invocations: a device has one owner, and the recovery command *)
(* is for lost sessions.                                                   *)
(***************************************************************************)
EXTENDS Watchdog, FiniteSetTheorems, TLAPS

\* How much of the alarm is left, given how long the child has been where it is:
\* at a read the rest of the timeout, in a sleep the timeout and the rest of
\* the interval.  A byte in the pipe makes the parent set the alarm anew.
AlarmInv ==
  /\ elapsed \in Nat /\ alarm \in Nat /\ pipe \in Nat
  /\ poller = "sleep" => elapsed <= interval
  /\ poller = "none" => watcher = "none"
  /\ watcher = "read" /\ pipe = 0 =>
       /\ poller = "sleep" => alarm + elapsed >= timeout + interval
       /\ poller \in {"pread", "notify"} => alarm + elapsed >= timeout
  /\ poller \in {"none", "pread", "notify", "sleep", "exited"}

LEMMA AlarmInit == Init => AlarmInv
  BY DEF Init, AlarmInv

LEMMA AlarmStep == AlarmInv /\ [Next]_vars => AlarmInv'
  <1> SUFFICES ASSUME AlarmInv, [Next]_vars PROVE AlarmInv'
    OBVIOUS
  <1> USE TicksAssumption DEF AlarmInv
  <1>1. CASE UNCHANGED watchVars
    BY <1>1 DEF watchVars
  <1>2. CASE StartWatchdog
    BY <1>2 DEF StartWatchdog
  <1>3. CASE pread
    BY <1>3 DEF pread
  <1>4. CASE notify
    BY <1>4 DEF notify
  <1>5. CASE wake
    BY <1>5 DEF wake
  <1>6. CASE arm
    BY <1>6 DEF arm
  <1>7. CASE ReadPipe
    BY <1>7 DEF ReadPipe
  <1>8. CASE SigAlarm
    BY <1>8 DEF SigAlarm
  <1>9. CASE Tick
    BY <1>9 DEF Tick
  <1> QED
    BY <1>1, <1>2, <1>3, <1>4, <1>5, <1>6, <1>7, <1>8, <1>9
       DEF Next, WatchNext, WatchStep, vars

\* Only the alarm makes the watchdog invoke its recovery command.
LEMMA AlarmCause ==
  ASSUME AlarmInv, [Next]_vars, recovered # recovered'
  PROVE  poller \in {"pread", "notify"} /\ elapsed >= timeout
  <1>1. SigAlarm
    BY DEF Next, WatchNext, WatchStep, vars, watchVars, StartWatchdog, pread, notify,
           wake, arm, ReadPipe, Tick
  <1> QED
    BY <1>1, TicksAssumption DEF SigAlarm, AlarmInv

\* xnbd-watchdog invokes its recovery command only while a read of the device
\* is pending, or not yet reported, that has taken the timeout or more, whatever
\* the timeout, the interval and the clients of the device do.
THEOREM AlarmsAreTrue == Spec => NoFalseAlarm
  <1>1. AlarmInv /\ [Next]_vars
          => [recovered # recovered' => poller \in {"pread", "notify"} /\ elapsed >= timeout]_vars
    BY AlarmCause
  <1> QED
    BY <1>1, AlarmInit, AlarmStep, PTL DEF Spec, NoFalseAlarm

-----------------------------------------------------------------------------
(* The clients, when a device is not attached while it is cleaned up or    *)
(* detached.                                                               *)

\* The invocation has given its socket to the device and not taken it back.
Busy(p) == parent[p] = "fork" \/ child[p] \in {"start", "doit", "return", "clear"}

ClientShape ==
  /\ DOMAIN device = {"sock", "pid", "up"} /\ device.up \in BOOLEAN
  /\ DOMAIN parent = Connects /\ DOMAIN child = Connects
  /\ usr1 \in [Connects -> BOOLEAN] /\ lost \in [Connects -> BOOLEAN]
  /\ recovery \in [Connects -> BOOLEAN]
  /\ DOMAIN disc = Disconnects
  /\ \A d \in Disconnects : DOMAIN disc[d] = {"pc", "pid"}
  /\ \A p \in Connects : parent[p] \in {"none", "connect", "attach", "fork"} => child[p] = "none"

\* Socket and pid of the device are those of the one invocation that is busy,
\* and no other one attaches while the parent still waits for its child.
OwnerInv ==
  /\ \A p, q \in Connects : Busy(p) /\ Busy(q) => p = q
  /\ \A p, q \in Connects : parent[p] \in {"wait", "look"} /\ Busy(q) => p = q
  /\ device.sock # NoPid => device.sock \in Connects /\ Busy(device.sock)
  /\ device.up => device.sock # NoPid
  /\ device.pid # NoPid => device.pid \in Connects /\ child[device.pid] = "doit"
  /\ \A p \in Connects : child[p] = "doit" => device.pid = p

\* A session that does not work was lost, or its child got SIGUSR1 before: a
\* --disconnect sends the signal to the only process that can be busy until the
\* --disconnect is over.
EndInv ==
  /\ \A p \in Connects : recovery[p] => lost[p]
  /\ \A p \in Connects : child[p] = "return" => usr1[p] \/ lost[p]
  /\ \A p \in Connects : Busy(p) /\ child[p] # "clear" /\ ~device.up => usr1[p] \/ lost[p]
  /\ \A d \in Disconnects : disc[d].pc = "kill" =>
       disc[d].pid \in Connects /\ \A p \in Connects : Busy(p) => p = disc[d].pid
  /\ \A d \in Disconnects : disc[d].pc \in {"disconnect", "clear"} =>
       \A p \in Connects : Busy(p) => usr1[p]

ClientInv == ClientShape /\ OwnerInv /\ EndInv

LEMMA ClientInitInv == Init => ClientInv
  BY DEF Init, ClientInit, ClientInv, ClientShape, OwnerInv, EndInv, Busy, NoSession

LEMMA ClientQuiet == ClientInv /\ UNCHANGED clientVars => ClientInv'
  BY DEF ClientInv, ClientShape, OwnerInv, EndInv, Busy, clientVars

LEMMA ParentInv ==
  ASSUME ~Overlap, ClientInv, NEW p \in Connects, ParentStep(p) \/ Connect(p)
  PROVE  ClientInv'
  <1> USE DEF ClientInv
  <1>1. CASE Connect(p) \/ xnbd_connect_to_remote(p) \/ PendingChild(p) \/ LookForPid(p)
    <2>1. /\ DOMAIN parent' = Connects
          /\ \A q \in Connects :
               \/ parent'[q] = parent[q]
               \/ parent[q] \in {"none", "connect"} /\ parent'[q] \in {"connect", "attach", "failed"}
               \/ parent[q] \in {"wait", "look"} /\ parent'[q] \in {"wait", "look", "success", "failed"}
      BY <1>1 DEF Connect, xnbd_connect_to_remote, PendingChild, LookForPid, ClientShape
    <2>2. UNCHANGED <<device, child, usr1, lost, recovery, disc>>
      BY <1>1 DEF Connect, xnbd_connect_to_remote, PendingChild, LookForPid
    <2>3. \A q \in Connects : Busy(q)' <=> Busy(q)
      BY <2>1, <2>2 DEF Busy, ClientShape
    <2>4. ClientShape'
      BY <2>1, <2>2 DEF ClientShape
    <2>5. OwnerInv'
      BY <2>1, <2>2, <2>3 DEF ClientShape, OwnerInv
    <2>6. EndInv'
      BY <2>2, <2>3 DEF EndInv
    <2> QED BY <2>4, <2>5, <2>6
  <1>2. CASE Attach(p)
    <2>1. UNCHANGED <<child, usr1, lost, recovery, disc>> /\ Quiet(p) /\ parent[p] = "attach"
      BY <1>2 DEF Attach
    <2>2. CASE device.sock # NoPid
      <3>1. UNCHANGED device /\ parent' = [parent EXCEPT ![p] = "failed"]
        BY <1>2, <2>2 DEF Attach
      <3>2. \A q \in Connects : Busy(q)' <=> Busy(q)
        BY <3>1, <2>1 DEF Busy, ClientShape
      <3>3. ClientShape' /\ OwnerInv'
        BY <3>1, <3>2, <2>1 DEF ClientShape, OwnerInv
      <3>4. EndInv'
        BY <3>1, <3>2, <2>1 DEF EndInv
      <3> QED BY <3>3, <3>4
    <2>3. CASE device.sock = NoPid
      <3>1. /\ device' = [sock |-> p, pid |-> NoPid, up |-> TRUE]
            /\ parent' = [parent EXCEPT ![p] = "fork"]
        BY <1>2, <2>3 DEF Attach
      <3>2. \A q \in Connects : ~Busy(q)
        BY <2>1, <2>3 DEF Quiet, Busy, ClientShape, OwnerInv
      <3>3. \A q \in Connects : Busy(q)' <=> q = p
        BY <3>1, <3>2, <2>1 DEF Busy, ClientShape
      <3>4. \A q \in Connects : child[q] \notin {"start", "doit", "return", "clear"}
        BY <3>2 DEF Busy
      <3>5. ClientShape'
        BY <3>1, <2>1 DEF ClientShape
      <3>6. OwnerInv'
        <4>1. \A q \in Connects : q # p => parent'[q] \notin {"wait", "look"}
          BY <3>1, <2>1 DEF Quiet, ClientShape
        <4> QED BY <3>1, <3>3, <3>4, <4>1, <2>1, PidsAssumption DEF OwnerInv
      <3>7. EndInv'
        <4>1. \A d \in Disconnects : disc[d].pc \in {"none", "done"}
          BY <2>1 DEF Quiet, Detaching
        <4> QED BY <3>1, <3>4, <4>1, <2>1 DEF EndInv
      <3> QED BY <3>5, <3>6, <3>7
    <2> QED BY <2>2, <2>3
  <1>3. CASE Fork(p)
    <2>1. /\ parent' = [parent EXCEPT ![p] = "wait"] /\ child' = [child EXCEPT ![p] = "start"]
          /\ UNCHANGED <<device, usr1, lost, recovery, disc>> /\ parent[p] = "fork"
      BY <1>3 DEF Fork
    <2>2. \A q \in Connects : Busy(q)' <=> Busy(q)
      BY <2>1 DEF Busy, ClientShape
    <2>3. ClientShape'
      BY <2>1 DEF ClientShape
    <2>4. OwnerInv'
      <3>1. Busy(p)
        BY <2>1 DEF Busy
      <3>2. child[p] = "none"
        BY <2>1 DEF ClientShape
      <3> QED BY <2>1, <2>2, <3>1, <3>2 DEF ClientShape, OwnerInv
    <2>5. EndInv'
      BY <2>1, <2>2 DEF EndInv, ClientShape
    <2> QED BY <2>3, <2>4, <2>5
  <1> QED BY <1>1, <1>2, <1>3 DEF ParentStep

LEMMA ChildInv ==
  ASSUME ClientInv, NEW p \in Connects, ChildStep(p)
  PROVE  ClientInv'
  <1> USE DEF ClientInv
  <1>1. Busy(p)
    BY DEF ChildStep, DoIt, DoItReturns, AfterDoIt, ClearSock, Busy
  <1>2. CASE DoIt(p)
    <2>1. /\ child[p] = "start" /\ UNCHANGED <<parent, usr1, lost, recovery, disc>>
          /\ \/ /\ device.sock # NoPid /\ device.up /\ device' = [device EXCEPT !.pid = p]
                /\ child' = [child EXCEPT ![p] = "doit"]
             \/ /\ ~device.up
                /\ child' = [child EXCEPT ![p] = "return"] /\ UNCHANGED device
      BY <1>2 DEF DoIt, OwnerInv, ClientShape
    <2>2. \A q \in Connects : Busy(q)' <=> Busy(q)
      BY <2>1 DEF Busy, ClientShape
    <2>3. ClientShape'
      BY <2>1 DEF ClientShape
    <2>4. OwnerInv'
      <3>1. \A q \in Connects : child[q] # "doit"
        BY <1>1, <2>1 DEF OwnerInv, Busy
      <3> QED BY <1>1, <2>1, <2>2, <3>1, PidsAssumption DEF ClientShape, OwnerInv
    <2>5. EndInv'
      BY <1>1, <2>1, <2>2 DEF EndInv, ClientShape
    <2> QED BY <2>3, <2>4, <2>5
  <1>3. CASE DoItReturns(p)
    <2>1. /\ child[p] = "doit" /\ ~device.up /\ UNCHANGED <<parent, usr1, lost, recovery, disc>>
          /\ device' = NoSession /\ child' = [child EXCEPT ![p] = "return"]
      BY <1>3 DEF DoItReturns, OwnerInv, ClientShape
    <2>2. \A q \in Connects : Busy(q)' <=> Busy(q)
      BY <2>1 DEF Busy, ClientShape
    <2>3. ClientShape'
      BY <2>1 DEF ClientShape, NoSession
    <2>4. OwnerInv'
      <3>1. \A q \in Connects : child'[q] # "doit"
        BY <2>1 DEF OwnerInv, ClientShape
      <3> QED BY <2>1, <2>2, <3>1 DEF ClientShape, OwnerInv, NoSession
    <2>5. EndInv'
      <3>1. usr1[p] \/ lost[p]
        BY <1>1, <2>1 DEF EndInv
      <3>2. \A q \in Connects : Busy(q) => q = p
        BY <1>1 DEF OwnerInv
      <3> QED BY <2>1, <2>2, <3>1, <3>2 DEF EndInv, ClientShape
    <2> QED BY <2>3, <2>4, <2>5
  <1>4. CASE AfterDoIt(p)
    <2>1. /\ child[p] = "return" /\ UNCHANGED <<device, parent, usr1, lost, disc>>
          /\ recovery' = [recovery EXCEPT ![p] = ~usr1[p]]
          /\ child' = [child EXCEPT ![p] = "clear"]
      BY <1>4 DEF AfterDoIt
    <2>2. \A q \in Connects : Busy(q)' <=> Busy(q)
      BY <2>1 DEF Busy, ClientShape
    <2>3. ClientShape'
      BY <2>1 DEF ClientShape
    <2>4. OwnerInv'
      BY <2>1, <2>2 DEF ClientShape, OwnerInv
    <2>5. EndInv'
      BY <2>1, <2>2 DEF EndInv, ClientShape
    <2> QED BY <2>3, <2>4, <2>5
  <1>5. CASE ClearSock(p)
    <2>1. /\ child[p] = "clear" /\ UNCHANGED <<parent, disc>>
          /\ device' = [device EXCEPT !.sock = NoPid, !.up = FALSE]
          /\ child' = [child EXCEPT ![p] = "exited"]
          /\ usr1' = [usr1 EXCEPT ![p] = FALSE]
          /\ lost' = [lost EXCEPT ![p] = FALSE]
          /\ recovery' = [recovery EXCEPT ![p] = FALSE]
      BY <1>5 DEF ClearSock
    <2>2. \A q \in Connects : ~Busy(q)'
      <3>1. parent[p] # "fork" /\ \A q \in Connects : Busy(q) => q = p
        BY <1>1, <2>1 DEF ClientShape, OwnerInv
      <3> QED BY <2>1, <3>1 DEF Busy, ClientShape
    <2>3. ClientShape'
      BY <2>1 DEF ClientShape
    <2>4. \A q \in Connects : child'[q] \notin {"start", "doit", "return", "clear"}
      BY <2>2 DEF Busy
    <2>5. OwnerInv'
      <3>1. device.pid = NoPid
        BY <1>1, <2>1 DEF OwnerInv, Busy
      <3> QED BY <2>1, <2>2, <2>4, <3>1 DEF ClientShape, OwnerInv
    <2>6. EndInv'
      BY <2>1, <2>2, <2>4 DEF EndInv, ClientShape
    <2> QED BY <2>3, <2>5, <2>6
  <1> QED BY <1>2, <1>3, <1>4, <1>5 DEF ChildStep

LEMMA DisconnectInv ==
  ASSUME ClientInv, NEW d \in Disconnects, DisconnectStep(d) \/ Disconnect(d)
  PROVE  ClientInv'
  <1> USE DEF ClientInv
  <1>1. UNCHANGED <<parent, child, lost, recovery>>
    BY DEF DisconnectStep, Disconnect, Kill, NbdDisconnect, NbdClearSock
  <1>2. \A q \in Connects : Busy(q)' <=> Busy(q)
    BY <1>1 DEF Busy
  <1>3. CASE Disconnect(d)
    <2>1. /\ UNCHANGED <<device, usr1>>
          /\ disc' = [disc EXCEPT ![d] =
               [pc |-> IF device.pid = NoPid THEN "done" ELSE "kill", pid |-> device.pid]]
      BY <1>3 DEF Disconnect
    <2>2. ClientShape' /\ OwnerInv'
      BY <1>1, <1>2, <2>1 DEF ClientShape, OwnerInv
    <2>3. EndInv'
      <3>1. device.pid # NoPid =>
              device.pid \in Connects /\ \A q \in Connects : Busy(q) => q = device.pid
        BY DEF OwnerInv, Busy
      <3> QED BY <1>1, <1>2, <2>1, <3>1 DEF EndInv, ClientShape
    <2> QED BY <2>2, <2>3
  <1>4. CASE Kill(d)
    <2> DEFINE k == disc[d].pid
    <2>1. /\ disc[d].pc = "kill" /\ UNCHANGED device
          /\ usr1' = [usr1 EXCEPT ![k] = usr1[k] \/ child[k] # "exited"]
          /\ disc' = [disc EXCEPT ![d].pc = "disconnect"]
      BY <1>4 DEF Kill
    <2>2. k \in Connects /\ \A q \in Connects : Busy(q) => q = k
      BY <2>1 DEF EndInv
    <2>3. \A q \in Connects : usr1[q] => usr1'[q]
      BY <2>1, <2>2 DEF ClientShape
    <2>4. \A q \in Connects : Busy(q) => usr1'[q]
      BY <2>1, <2>2 DEF Busy, ClientShape
    <2>5. ClientShape' /\ OwnerInv'
      BY <1>1, <1>2, <2>1, <2>2 DEF ClientShape, OwnerInv
    <2>6. EndInv'
      BY <1>1, <1>2, <2>1, <2>3, <2>4 DEF EndInv, ClientShape
    <2> QED BY <2>5, <2>6
  <1>5. CASE NbdDisconnect(d)
    <2>1. /\ disc[d].pc = "disconnect" /\ UNCHANGED usr1
          /\ device' = [device EXCEPT !.up = FALSE]
          /\ disc' = [disc EXCEPT ![d] =
               [pc |-> IF device.sock = NoPid THEN "done" ELSE "clear", pid |-> NoPid]]
      BY <1>5 DEF NbdDisconnect
    <2>2. ClientShape' /\ OwnerInv'
      BY <1>1, <1>2, <2>1 DEF ClientShape, OwnerInv
    <2>3. EndInv'
      BY <1>1, <1>2, <2>1 DEF EndInv, ClientShape
    <2> QED BY <2>2, <2>3
  <1>6. CASE NbdClearSock(d)
    <2>1. /\ disc[d].pc = "clear" /\ UNCHANGED usr1
          /\ device' = [device EXCEPT !.sock = NoPid, !.up = FALSE]
          /\ disc' = [disc EXCEPT ![d].pc = "done"]
      BY <1>6 DEF NbdClearSock
    <2>2. ClientShape' /\ OwnerInv'
      BY <1>1, <1>2, <2>1 DEF ClientShape, OwnerInv
    <2>3. EndInv'
      BY <1>1, <1>2, <2>1 DEF EndInv, ClientShape
    <2> QED BY <2>2, <2>3
  <1> QED BY <1>3, <1>4, <1>5, <1>6 DEF DisconnectStep

LEMMA TransportInv == ClientInv /\ TransportFails => ClientInv'
  <1> SUFFICES ASSUME ClientInv, TransportFails PROVE ClientInv'
    OBVIOUS
  <1> USE DEF ClientInv
  <1>1. /\ device.sock # NoPid
        /\ device' = [device EXCEPT !.up = FALSE]
        /\ lost' = [lost EXCEPT ![device.sock] = TRUE]
        /\ UNCHANGED <<parent, try, child, usr1, recovery, disc>>
    BY DEF TransportFails
  <1>2. \A q \in Connects : Busy(q)' <=> Busy(q)
    BY <1>1 DEF Busy
  <1>3. ClientShape' /\ OwnerInv'
    BY <1>1, <1>2 DEF ClientShape, OwnerInv
  <1>4. device.sock \in Connects /\ \A q \in Connects : Busy(q) => q = device.sock
    BY <1>1 DEF OwnerInv
  <1>5. EndInv'
    BY <1>1, <1>2, <1>4 DEF EndInv, ClientShape
  <1> QED BY <1>3, <1>5

\* The watchdog only looks at the device.
LEMMA WatchOnly == WatchNext => UNCHANGED clientVars
  BY DEF WatchNext, WatchStep, StartWatchdog, pread, notify, wake, arm, ReadPipe,
         SigAlarm, Tick

LEMMA ClientStepInv == ~Overlap /\ ClientInv /\ [Next]_vars => ClientInv'
  <1> SUFFICES ASSUME ~Overlap, ClientInv, [Next]_vars PROVE ClientInv'
    OBVIOUS
  <1>1. CASE ClientNext
    BY <1>1, ParentInv, ChildInv, DisconnectInv, TransportInv
       DEF ClientNext, ClientStep, ClientEnvironment
  <1>2. CASE UNCHANGED clientVars
    BY <1>2, ClientQuiet
  <1> QED BY <1>1, <1>2, WatchOnly DEF Next, vars

LEMMA ClientInvariant == ~Overlap => (Spec => []ClientInv)
  <1> SUFFICES ASSUME ~Overlap PROVE Spec => []ClientInv
    OBVIOUS
  <1>1. ClientInv /\ [Next]_vars => ClientInv'
    BY ClientStepInv
  <1> QED BY <1>1, ClientInitInv, PTL DEF Spec

\* The process in NBD_DO_IT is the one whose socket the device has, and it is
\* the only one, for every number of --connect and --disconnect, as long as a
\* device is not attached while it is cleaned up or detached.
THEOREM DevicesOwned == ~Overlap => (Spec => []OneOwner)
  <1> SUFFICES ASSUME ~Overlap PROVE Spec => []OneOwner
    OBVIOUS
  <1>1. ClientInv => OneOwner
    <2> SUFFICES ASSUME ClientInv PROVE OneOwner
      OBVIOUS
    <2> DEFINE serving == {p \in Connects : child[p] = "doit"}
    <2>1. device.pid # NoPid /\ device.sock # NoPid => device.pid = device.sock
      BY DEF ClientInv, OwnerInv, Busy
    <2>2. serving \subseteq {device.pid}
      BY DEF ClientInv, OwnerInv
    <2>3. Cardinality(serving) <= Cardinality({device.pid}) /\ Cardinality({device.pid}) = 1
      BY <2>2, FS_Subset, FS_Singleton, Zenon
    <2> QED BY <2>1, <2>3 DEF OneOwner
  <1> QED BY <1>1, ClientInvariant, PTL

\* xnbd-client invokes the recovery command only for a session that was lost,
\* never for one that a user ended, under the same condition.
THEOREM RecoveriesExplained == ~Overlap => (Spec => []RecoveryIsUnexpected)
  <1> SUFFICES ASSUME ~Overlap PROVE Spec => []RecoveryIsUnexpected
    OBVIOUS
  <1>1. ClientInv => RecoveryIsUnexpected
    BY DEF ClientInv, EndInv, RecoveryIsUnexpected
  <1> QED BY <1>1, ClientInvariant, PTL

\* xnbd-client --connect reports success only when it saw its own child serve
\* the device, under the same condition.
THEOREM SuccessesOwn == ~Overlap => (Spec => SuccessIsOwn)
  <1> SUFFICES ASSUME ~Overlap PROVE Spec => SuccessIsOwn
    OBVIOUS
  <1> DEFINE A == \A p \in Connects : parent[p] = "look" /\ parent'[p] = "success" => device.pid = p
  <1>1. ClientInv /\ [Next]_vars => [A]_clientVars
    <2> SUFFICES ASSUME ClientInv, [Next]_vars, NEW p \in Connects, parent[p] = "look",
                        parent'[p] = "success"
                 PROVE  device.pid = p
      OBVIOUS
    <2>1. ~UNCHANGED parent
      OBVIOUS
    <2>2. WatchNext => UNCHANGED parent
      BY WatchOnly DEF clientVars
    <2>3. ASSUME NEW q \in Connects PROVE ChildStep(q) => UNCHANGED parent
      BY DEF ChildStep, DoIt, DoItReturns, AfterDoIt, ClearSock
    <2>4. ASSUME NEW d \in Disconnects
          PROVE  DisconnectStep(d) \/ Disconnect(d) => UNCHANGED parent
      BY DEF DisconnectStep, Disconnect, Kill, NbdDisconnect, NbdClearSock
    <2>5. PICK q \in Connects : ParentStep(q) \/ Connect(q)
      BY <2>1, <2>2, <2>3, <2>4
         DEF Next, vars, clientVars, ClientNext, ClientStep, ClientEnvironment, TransportFails
    <2>6. device.pid # NoPid
      BY <2>5 DEF ParentStep, Connect, xnbd_connect_to_remote, Attach, Fork, PendingChild,
                  LookForPid, ClientInv, ClientShape
    <2> QED BY <2>6 DEF ClientInv, OwnerInv, Busy
  <1> QED BY <1>1, ClientInvariant, PTL DEF Spec, SuccessIsOwn

=============================================================================
