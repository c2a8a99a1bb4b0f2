------------------------------- MODULE Client -------------------------------
(***************************************************************************)
(* xnbd-client (xnbd_client.c): attaching an NBD device of the kernel to a *)
(* server, and detaching it.  Each invocation of --connect looks whether   *)
(* the device is in use, tries the servers in order, negotiates (lib/nbd.c)*)
(* gives the socket to the device and forks; the child sits in             *)
(* ioctl(NBD_DO_IT) until the session ends, the parent waits until the     *)
(* device shows a pid.  --disconnect signals that pid and ends the session.*)
(* The device is the kernel's: its ioctls are modelled from their use.     *)
(***************************************************************************)
EXTENDS Integers, Sequences, FiniteSets

CONSTANTS
  Connects,      \* invocations of xnbd-client --connect
  Disconnects,   \* invocations of xnbd-client --disconnect
  dst_list,      \* the servers given to --connect: "plain", "wrapped" or "large"
  exportname,    \* an export name was given
  max_retry,
  NoPid,
  Overlap        \* a device may be attached while it is cleaned up or detached

ASSUME ServersAssumption == dst_list \in Seq({"plain", "wrapped", "large"})
ASSUME OptionsAssumption ==
  exportname \in BOOLEAN /\ Overlap \in BOOLEAN /\ max_retry \in Nat
ASSUME PidsAssumption == NoPid \notin Connects /\ IsFiniteSet(Connects)

VARIABLES
  device,    \* the NBD device: whose socket it has, who is in NBD_DO_IT, and
             \* whether the session's transport works
  parent,    \* --connect: where the parent is
  try,       \* --connect: the server tried next, and the number of retries
  child,     \* --connect: where the child is
  usr1,      \* --connect: SIGUSR1 is pending for the child
  lost,      \* --connect: the transport of its session failed
  recovery,  \* --connect: the child invoked the recovery command
  disc       \* --disconnect: where it is, and the pid it read

clientVars == <<device, parent, try, child, usr1, lost, recovery, disc>>

NoSession == [sock |-> NoPid, pid |-> NoPid, up |-> FALSE]
FirstTry == [server |-> 1, retry |-> 0]

ClientInit ==
  /\ device = NoSession
  /\ parent = [p \in Connects |-> "none"]
  /\ try = [p \in Connects |-> FirstTry]
  /\ child = [p \in Connects |-> "none"]
  /\ usr1 = [p \in Connects |-> FALSE]
  /\ lost = [p \in Connects |-> FALSE]
  /\ recovery = [p \in Connects |-> FALSE]
  /\ disc = [d \in Disconnects |-> [pc |-> "none", pid |-> NoPid]]

-----------------------------------------------------------------------------
(* --connect                                                               *)

Detaching == {d \in Disconnects : disc[d].pc \notin {"none", "done"}}

\* No other invocation is just attaching, cleaning up or detaching.
Quiet(p) ==
  /\ Detaching = {}
  /\ \A q \in Connects \ {p} : /\ parent[q] \notin {"fork", "wait", "look"}
                               /\ child[q] \notin {"start", "return", "clear"}
                               /\ child[q] = "doit" => device.up

\* get_nbd_pid(): the device is in use when the kernel shows a pid for it
Connect(p) ==
  /\ parent[p] = "none"
  /\ parent' = [parent EXCEPT ![p] = IF device.pid # NoPid THEN "failed" ELSE "connect"]
  /\ UNCHANGED <<device, try, child, usr1, lost, recovery, disc>>

\* The client side of the negotiation: a client with an export name wants a
\* wrapped server, one without a plain server, and the size must fit off_t.
negotiates(server) == server = IF exportname THEN "wrapped" ELSE "plain"

MayRetry(retry) == max_retry = 0 \/ retry < max_retry

\* One turn of the inner loop of xnbd_connect_to_remote(): a server that cannot
\* be reached or negotiated with is passed over, and after the last one the
\* list is tried again, max_retry times, or for ever if that is 0.
xnbd_connect_to_remote(p) ==
  LET i == try[p].server
      retry == try[p].retry IN
  /\ parent[p] = "connect"
  /\ \/ /\ i <= Len(dst_list)
        /\ negotiates(dst_list[i])
        /\ parent' = [parent EXCEPT ![p] = "attach"]
        /\ try' = [try EXCEPT ![p] = FirstTry]
     \/ /\ i <= Len(dst_list)
        /\ try' = [try EXCEPT ![p].server = i + 1]
        /\ UNCHANGED parent
     \/ /\ i > Len(dst_list)
        /\ IF MayRetry(retry)
           THEN /\ try' = [try EXCEPT ![p] =
                     [server |-> 1, retry |-> IF max_retry = 0 THEN 0 ELSE retry + 1]]
                /\ UNCHANGED parent
           ELSE /\ parent' = [parent EXCEPT ![p] = "failed"]
                /\ try' = [try EXCEPT ![p] = FirstTry]
  /\ UNCHANGED <<device, child, usr1, lost, recovery, disc>>

Attach_Replaces(p) ==
  /\ parent[p] = "attach"
  /\ Overlap \/ Quiet(p)
  /\ device' = [device EXCEPT !.sock = p, !.up = TRUE]
  /\ parent' = [parent EXCEPT ![p] = "fork"]
  /\ UNCHANGED <<try, child, usr1, lost, recovery, disc>>

\* open(), NBD_SET_SOCK (refused if the device has a socket), the sizes, flags
\* and timeout, and sigprocmask(): SIGCHLD and SIGUSR1 stay blocked
Attach(p) ==
  /\ parent[p] = "attach"
  /\ Overlap \/ Quiet(p)
  /\ IF device.sock # NoPid
     THEN /\ parent' = [parent EXCEPT ![p] = "failed"]
          /\ UNCHANGED device
     ELSE /\ device' = [sock |-> p, pid |-> NoPid, up |-> TRUE]
          /\ parent' = [parent EXCEPT ![p] = "fork"]
  /\ UNCHANGED <<try, child, usr1, lost, recovery, disc>>

Fork(p) ==
  /\ parent[p] = "fork"
  /\ parent' = [parent EXCEPT ![p] = "wait"]
  /\ child' = [child EXCEPT ![p] = "start"]
  /\ UNCHANGED <<device, try, usr1, lost, recovery, disc>>

PendingChild_Ignored(p) ==
  /\ parent[p] = "wait"
  /\ parent' = [parent EXCEPT ![p] = "look"]
  /\ UNCHANGED <<device, try, child, usr1, lost, recovery, disc>>

\* The loop of the parent: SIGCHLD pending is an error; then a pid of the
\* device, anyone's, is success, and otherwise it sleeps and looks again.
PendingChild(p) ==
  /\ parent[p] = "wait"
  /\ parent' = [parent EXCEPT ![p] = IF child[p] = "exited" THEN "failed" ELSE "look"]
  /\ UNCHANGED <<device, try, child, usr1, lost, recovery, disc>>

LookForPid(p) ==
  /\ parent[p] = "look"
  /\ parent' = [parent EXCEPT ![p] = IF device.pid # NoPid THEN "success" ELSE "wait"]
  /\ UNCHANGED <<device, try, child, usr1, lost, recovery, disc>>

\* ioctl(NBD_DO_IT): without a socket, or with one that was shut down, it fails
DoIt(p) ==
  /\ child[p] = "start"
  /\ IF device.sock # NoPid /\ device.up
     THEN /\ device' = [device EXCEPT !.pid = p]
          /\ child' = [child EXCEPT ![p] = "doit"]
     ELSE /\ child' = [child EXCEPT ![p] = "return"]
          /\ UNCHANGED device
  /\ UNCHANGED <<parent, try, usr1, lost, recovery, disc>>

\* The kernel ends the session when its socket is shut down or taken away.
DoItReturns(p) ==
  /\ child[p] = "doit" /\ (~device.up \/ device.sock = NoPid)
  /\ device' = NoSession
  /\ child' = [child EXCEPT ![p] = "return"]
  /\ UNCHANGED <<parent, try, usr1, lost, recovery, disc>>

\* SIGUSR1 pending means that a user ended the session.
AfterDoIt(p) ==
  /\ child[p] = "return"
  /\ recovery' = [recovery EXCEPT ![p] = ~usr1[p]]
  /\ child' = [child EXCEPT ![p] = "clear"]
  /\ UNCHANGED <<device, parent, try, usr1, lost, disc>>

\* NBD_CLEAR_QUE and NBD_CLEAR_SOCK, on whatever the device has by now; then
\* the child exits, and nothing is kept of it
ClearSock(p) ==
  /\ child[p] = "clear"
  /\ device' = [device EXCEPT !.sock = NoPid, !.up = FALSE]
  /\ child' = [child EXCEPT ![p] = "exited"]
  /\ usr1' = [usr1 EXCEPT ![p] = FALSE]
  /\ lost' = [lost EXCEPT ![p] = FALSE]
  /\ recovery' = [recovery EXCEPT ![p] = FALSE]
  /\ UNCHANGED <<parent, try, disc>>

\* The server ends the session, or the network does.
TransportFails ==
  /\ device.sock # NoPid /\ device.up
  /\ device' = [device EXCEPT !.up = FALSE]
  /\ lost' = [lost EXCEPT ![device.sock] = TRUE]
  /\ UNCHANGED <<parent, try, child, usr1, recovery, disc>>

-----------------------------------------------------------------------------
(* --disconnect: xnbd_disconnect()                                         *)

Disconnect(d) ==
  /\ disc[d].pc = "none"
  /\ Overlap \/ Detaching = {}
  /\ disc' = [disc EXCEPT ![d] =
       [pc |-> IF device.pid = NoPid THEN "done" ELSE "kill", pid |-> device.pid]]
  /\ UNCHANGED <<device, parent, try, child, usr1, lost, recovery>>

Kill_Missing(d) ==
  /\ disc[d].pc = "kill"
  /\ disc' = [disc EXCEPT ![d].pc = "disconnect"]
  /\ UNCHANGED <<device, parent, try, child, usr1, lost, recovery>>

\* kill() of a process that is gone only warns.
Kill(d) ==
  /\ disc[d].pc = "kill"
  /\ usr1' = [usr1 EXCEPT ![disc[d].pid] = @ \/ child[disc[d].pid] # "exited"]
  /\ disc' = [disc EXCEPT ![d].pc = "disconnect"]
  /\ UNCHANGED <<device, parent, try, child, lost, recovery>>

\* NBD_CLEAR_QUE and NBD_DISCONNECT: an error if the device has no session
NbdDisconnect(d) ==
  /\ disc[d].pc = "disconnect"
  /\ device' = [device EXCEPT !.up = FALSE]
  /\ disc' = [disc EXCEPT ![d] =
       [pc |-> IF device.sock = NoPid THEN "done" ELSE "clear", pid |-> NoPid]]
  /\ UNCHANGED <<parent, try, child, usr1, lost, recovery>>

NbdClearSock(d) ==
  /\ disc[d].pc = "clear"
  /\ device' = [device EXCEPT !.sock = NoPid, !.up = FALSE]
  /\ disc' = [disc EXCEPT ![d].pc = "done"]
  /\ UNCHANGED <<parent, try, child, usr1, lost, recovery>>

-----------------------------------------------------------------------------
ParentStep(p) ==
  xnbd_connect_to_remote(p) \/ Attach(p) \/ Fork(p) \/ PendingChild(p) \/ LookForPid(p)
ChildStep(p) == DoIt(p) \/ DoItReturns(p) \/ AfterDoIt(p) \/ ClearSock(p)
DisconnectStep(d) == Kill(d) \/ NbdDisconnect(d) \/ NbdClearSock(d)
ClientStep ==
  \/ \E p \in Connects : ParentStep(p) \/ ChildStep(p)
  \/ \E d \in Disconnects : DisconnectStep(d)
ClientEnvironment ==
  \/ \E p \in Connects : Connect(p)
  \/ \E d \in Disconnects : Disconnect(d)
  \/ TransportFails

ClientNext == ClientStep \/ ClientEnvironment

-----------------------------------------------------------------------------
(* Properties                                                              *)

ParentStates == {"none", "connect", "attach", "fork", "wait", "look", "success", "failed"}
ChildStates == {"none", "start", "doit", "return", "clear", "exited"}

\* Every variable keeps its type: the device has at most one socket and one
\* process in NBD_DO_IT, an invocation is in one place.
ClientTypeOK ==
  /\ device \in [sock : Connects \cup {NoPid}, pid : Connects \cup {NoPid}, up : BOOLEAN]
  /\ parent \in [Connects -> ParentStates] /\ child \in [Connects -> ChildStates]
  /\ try \in [Connects -> [server : 1 .. Len(dst_list) + 1, retry : 0 .. max_retry]]
  /\ usr1 \in [Connects -> BOOLEAN] /\ lost \in [Connects -> BOOLEAN]
  /\ recovery \in [Connects -> BOOLEAN]
  /\ disc \in [Disconnects -> [pc : {"none", "kill", "disconnect", "clear", "done"},
                               pid : Connects \cup {NoPid}]]

\* The recovery command ("invoke a specified command on unexpected
\* disconnection"; it may reboot the host) runs only if the session was lost,
\* never because a user, or another xnbd-client, ended it.  With overlapping
\* invocations it may: NBD_CLEAR_SOCK of the last one hits the next one's socket.
RecoveryIsUnexpected == \A p \in Connects : recovery[p] => lost[p]

\* A device belongs to one client: the process in NBD_DO_IT is the one whose
\* socket the device has, although "in use" is tested long before NBD_SET_SOCK.
OneOwner ==
  /\ device.pid # NoPid /\ device.sock # NoPid => device.pid = device.sock
  /\ Cardinality({p \in Connects : child[p] = "doit"}) <= 1

\* xnbd-client --connect reports success only after its own child served the
\* device ("quits after it checks an NBD device file is actually working").
SuccessIsOwn ==
  [][\A p \in Connects : parent[p] = "look" /\ parent'[p] = "success" =>
       device.pid = p]_clientVars
=============================================================================
