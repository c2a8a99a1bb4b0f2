------------------------------- MODULE Master -------------------------------
(***************************************************************************)
(* The master process of xnbd-server (xnbd_server.c): it accepts clients,  *)
(* forks a worker for each, reaps workers, takes a snapshot on SIGUSR1 and *)
(* turns a proxy into a target on SIGUSR2 by ending all workers and        *)
(* starting new ones on the same sockets.  Signals are blocked outside     *)
(* ppoll().  One action for each block of the loop of master_server(), so  *)
(* workers, clients and signals interleave with it.                        *)
(***************************************************************************)
EXTENDS Integers, Sequences, FiniteSets

CONSTANTS
  Modes,        \* the modes the server may be started in
  Clients,      \* the clients that may connect, each once
  MaxForks,     \* bound on the workers forked
  MaxSignals,   \* bound on the SIGUSR1 and SIGUSR2 sent from outside
  MaxErrors     \* bound on the workers that die of an error

ASSUME ModesAssumption == Modes \subseteq {"target", "cow", "proxy"}
ASSUME ClientsAssumption == IsFiniteSet(Clients) /\ Clients # {}
ASSUME BoundsAssumption ==
  MaxForks \in Nat /\ MaxSignals \in Nat /\ MaxErrors \in Nat

Pids == 1 .. MaxForks
Signals == {"CHLD", "USR1", "USR2", "TERM"}
Loop == {"top", "restart", "sigusr", "ppoll"}

VARIABLES
  pc,          \* the block of master_server() that runs next
  cmd,         \* xnbd->cmd
  connect_fd,  \* the only client's socket was given on the command line
  got,         \* got_sigchld, got_sigusr1, got_sigusr2, need_exit
  pending,     \* signals the kernel holds for the master
  handlers,    \* set_sigactions() was called
  restarting_for_mode_change, restarting_for_snapshot,
  socklist,    \* the sockets preserved for the restart
  sessions,    \* xnbd->sessions: pid -> "none", or in the list and s->notifying
  worker,      \* pid -> the worker process
  forks,       \* how many workers were forked
  client,      \* client -> where its connection is
  stream,      \* client -> "mid" while a request of it is half served
  proxy,       \* the proxy process
  shot,        \* what the last snapshot met: was a worker running?
  bounds       \* signals and errors so far

masterVars == <<pc, cmd, connect_fd, got, handlers>>
restartVars == <<restarting_for_mode_change, restarting_for_snapshot, socklist, shot>>
sesVars == <<sessions, worker, forks>>
envVars == <<client, stream>>
vars == <<masterVars, pending, restartVars, sesVars, envVars, proxy, bounds>>

Listed == {p \in Pids : sessions[p] # "none"}
Running == {p \in Pids : worker[p].state \in {"idle", "busy"}}
Zombies == {p \in Pids : worker[p].state = "zombie"}
restarting == restarting_for_mode_change \/ restarting_for_snapshot
PreservedSockets == {socklist[i] : i \in DOMAIN socklist}
OnlyClient == CHOOSE c \in Clients : TRUE
NoWorker == [client |-> "nobody", mode |-> "none", state |-> "none",
             told |-> FALSE, holds |-> {}]
Buried == [NoWorker EXCEPT !.state = "reaped"]

-----------------------------------------------------------------------------
(* Sessions *)

\* fork_or_abort() for the clients in cs, in that order.  A child closes the
\* sockets of the sessions in the list, so it keeps its own and those that only
\* the list of preserved sockets holds.
NewWorker(cs, i, mode) ==
  LET closed == {worker[q].client : q \in Listed} \cup {cs[j] : j \in 1 .. i - 1}
  IN  [client |-> cs[i], mode |-> mode, state |-> "idle", told |-> FALSE,
       holds |-> {cs[i]} \cup (PreservedSockets \ closed)]

invoke_new_session(cs, mode) ==
  /\ forks + Len(cs) <= MaxForks
  /\ worker' = [p \in Pids |->
       IF p \in forks + 1 .. forks + Len(cs) THEN NewWorker(cs, p - forks, mode)
       ELSE worker[p]]
  /\ sessions' = [p \in Pids |->
       IF p \in forks + 1 .. forks + Len(cs) THEN "listed" ELSE sessions[p]]
  /\ forks' = forks + Len(cs)

-----------------------------------------------------------------------------
(* The start of master_server() *)

\* With a socket from the command line its session begins before the signal
\* handlers are set.
Start ==
  /\ pc = "start"
  /\ pc' = "sigactions"
  /\ IF connect_fd
     THEN invoke_new_session(<<OnlyClient>>, cmd)
     ELSE UNCHANGED sesVars
  /\ UNCHANGED <<cmd, connect_fd, got, handlers, pending, restartVars, envVars,
                 proxy, bounds>>

set_sigactions ==
  /\ pc = "sigactions"
  /\ pc' = "top" /\ handlers' = TRUE
  /\ UNCHANGED <<cmd, connect_fd, got, pending, restartVars, sesVars, envVars,
                 proxy, bounds>>

-----------------------------------------------------------------------------
(* The loop of master_server() *)

NeedExit ==
  /\ pc = "top" /\ "TERM" \in got
  /\ pc' = "shutdown"
  /\ UNCHANGED <<cmd, connect_fd, got, handlers, pending, restartVars, sesVars,
                 envVars, proxy, bounds>>

\* One waitpid() for a SIGCHLD that stands for several children.
Reaped_One ==
  LET p == CHOOSE z \in Zombies : TRUE
  IN  IF Zombies = {} THEN UNCHANGED <<worker, sessions>>
      ELSE /\ worker' = [worker EXCEPT ![p] = Buried]
           /\ sessions' = [sessions EXCEPT ![p] = "none"]

\* waitpid() and free_session() until there is no zombie left
Reaped ==
  /\ worker' = [p \in Pids |->
       IF p \in Zombies THEN Buried ELSE worker[p]]
  /\ sessions' = [p \in Pids |-> IF p \in Zombies THEN "none" ELSE sessions[p]]

\* The children are reaped; the death of the proxy process and
\* an unknown pid are errors.
ReapChildren ==
  /\ pc = "top" /\ "TERM" \notin got
  /\ IF "CHLD" \notin got
     THEN /\ pc' = "restart"
          /\ UNCHANGED <<got, sessions, worker>>
     ELSE /\ got' = got \ {"CHLD"}
          /\ Reaped
          /\ pc' = IF (cmd = "proxy" /\ proxy = "dead") \/ ~(Zombies \subseteq Listed)
                   THEN "aborted"
                   ELSE IF connect_fd /\ ~restarting /\ Listed \subseteq Zombies
                   THEN "shutdown"
                   ELSE "restart"
  /\ UNCHANGED <<cmd, connect_fd, handlers, pending, restartVars, forks, envVars,
                 proxy, bounds>>

\* The file is named after the second: a second snapshot within it cannot be
\* linked, which is an error.
xnbd_target_make_snapshot(fails) ==
  /\ fails => shot # "none"
  /\ shot' = IF fails THEN "clash" ELSE IF Running # {} THEN "torn" ELSE "quiet"

\* xnbd_shutdown() of the proxy tells its process to exit, which fails if it is
\* dead, and waits for it; then the server is a target.
SwitchOrSnapshot(fails) ==
  IF restarting_for_mode_change
  THEN /\ fails = (proxy = "dead")
       /\ cmd' = "target" /\ proxy' = IF fails THEN proxy ELSE "stopped"
       /\ pending' = pending \cup {"CHLD"}
       /\ UNCHANGED shot
  ELSE /\ xnbd_target_make_snapshot(fails)
       /\ UNCHANGED <<cmd, proxy, pending>>

Stopped_Notified == \A p \in Listed : sessions[p] = "notifying"

\* All sessions are stopped: their workers were reaped.
Stopped == Listed = {}

Restart ==
  /\ pc = "restart"
  /\ IF restarting /\ Stopped
     THEN \E fails \in BOOLEAN :
            /\ SwitchOrSnapshot(fails)
            /\ IF fails
               THEN /\ pc' = "aborted"
                    /\ UNCHANGED <<sesVars, socklist, restarting_for_mode_change,
                                   restarting_for_snapshot>>
               ELSE /\ pc' = "sigusr"
                    /\ invoke_new_session(socklist, cmd')
                    /\ socklist' = <<>>
                    /\ restarting_for_mode_change' = FALSE
                    /\ restarting_for_snapshot' =
                         (restarting_for_snapshot /\ restarting_for_mode_change)
     ELSE /\ pc' = "sigusr"
          /\ UNCHANGED <<cmd, proxy, pending, sesVars, restartVars>>
  /\ UNCHANGED <<connect_fd, got, handlers, envVars, bounds>>

\* Both the flags that are examined and what follows from them: a signal that
\* does not fit the mode skips the rest of the block.
ModeChange == "USR2" \in got /\ cmd = "proxy"
Skips2 == "USR2" \in got /\ cmd # "proxy"
Snapshot == ~Skips2 /\ "USR1" \in got /\ cmd = "target"
Skips1 == ~Skips2 /\ "USR1" \in got /\ cmd # "target"

NotifyWorkers_Again ==
  /\ sessions' = [p \in Pids |-> IF p \in Listed THEN "notifying" ELSE sessions[p]]
  /\ worker' = [p \in Pids |->
       IF p \in Listed THEN [worker[p] EXCEPT !.told = TRUE] ELSE worker[p]]
  /\ \E order \in [1 .. Cardinality(Listed) -> Listed] :
       /\ \A i, j \in DOMAIN order : i < j => order[i] < order[j]
       /\ socklist' = socklist \o [i \in DOMAIN order |-> worker[order[i]].client]

NotifyWorkers_NoDup ==
  /\ sessions' = [p \in Pids |-> IF p \in Listed THEN "notifying" ELSE sessions[p]]
  /\ worker' = [p \in Pids |->
       IF p \in Listed THEN [worker[p] EXCEPT !.told = TRUE] ELSE worker[p]]
  /\ UNCHANGED socklist

NotifyWorkers_Forget ==
  /\ sessions' = [p \in Pids |-> "none"]
  /\ worker' = [p \in Pids |->
       IF p \in Listed THEN [worker[p] EXCEPT !.told = TRUE] ELSE worker[p]]
  /\ UNCHANGED socklist

\* Every worker that was not notified yet gets its byte, and its socket is kept.
NotifyWorkers ==
  LET new == {p \in Listed : sessions[p] # "notifying"}
  IN  /\ sessions' = [p \in Pids |-> IF p \in new THEN "notifying" ELSE sessions[p]]
      /\ worker' = [p \in Pids |->
           IF p \in new THEN [worker[p] EXCEPT !.told = TRUE] ELSE worker[p]]
      /\ \E n \in 0 .. MaxForks : \E order \in [1 .. n -> new] :
           /\ \A i, j \in DOMAIN order : i < j => order[i] < order[j]
           /\ \A p \in new : \E i \in DOMAIN order : order[i] = p
           /\ socklist' = socklist \o [i \in DOMAIN order |-> worker[order[i]].client]

HandleSigusr ==
  /\ pc = "sigusr"
  /\ got' = CASE Skips2 -> got \ {"USR2"}
              [] OTHER -> got \ {"USR1", "USR2"}
  /\ restarting_for_mode_change' = (restarting_for_mode_change \/ ModeChange)
  /\ restarting_for_snapshot' = (restarting_for_snapshot \/ Snapshot)
  /\ CASE got \cap {"USR1", "USR2"} = {} \/ Skips2 \/ Skips1 ->
            pc' = "ppoll" /\ UNCHANGED <<sessions, worker, socklist>>
       [] OTHER ->
            IF Listed = {}
            THEN pc' = "top" /\ UNCHANGED <<sessions, worker, socklist>>
            ELSE pc' = "ppoll" /\ NotifyWorkers
  /\ UNCHANGED <<cmd, connect_fd, handlers, pending, shot, forks, envVars, proxy,
                 bounds>>

\* ppoll() is interrupted: at least one of the pending signals is handled.
PpollSignal ==
  /\ pc = "ppoll"
  /\ \E caught \in SUBSET pending :
       /\ caught # {}
       /\ got' = got \cup caught /\ pending' = pending \ caught
  /\ pc' = "top"
  /\ UNCHANGED <<cmd, connect_fd, handlers, restartVars, sesVars, envVars, proxy,
                 bounds>>

\* A connection is accepted and negotiated.  When the negotiation fails its
\* socket stays open; the client of it is gone.
PpollAccept ==
  /\ pc = "ppoll"
  /\ \E c \in Clients :
       /\ client[c] \in {"backlog", "left"}
       /\ client' = [client EXCEPT ![c] = IF @ = "backlog" THEN "open" ELSE "closed"]
       /\ \/ invoke_new_session(<<c>>, cmd)
          \/ client[c] = "left" /\ UNCHANGED sesVars
  /\ pc' = "top"
  /\ UNCHANGED <<cmd, connect_fd, got, handlers, pending, restartVars, stream,
                 proxy, bounds>>

-----------------------------------------------------------------------------
(* The end of the master *)

First(p) == \A q \in Listed : p <= q

\* shutdown_all_sessions(): tell the first worker, then wait for it.
ShutdownTell ==
  /\ pc = "shutdown"
  /\ \E p \in Listed :
       /\ First(p) /\ ~worker[p].told
       /\ worker' = [worker EXCEPT ![p].told = TRUE]
  /\ UNCHANGED <<masterVars, pending, restartVars, sessions, forks, envVars, proxy,
                 bounds>>

ShutdownWait ==
  /\ pc = "shutdown"
  /\ \E p \in Listed :
       /\ First(p) /\ worker[p].told /\ worker[p].state = "zombie"
       /\ worker' = [worker EXCEPT ![p] = Buried]
       /\ sessions' = [sessions EXCEPT ![p] = "none"]
  /\ UNCHANGED <<masterVars, pending, restartVars, forks, envVars, proxy, bounds>>

\* xnbd_shutdown() stops the proxy process, if it is there to be told.
Shutdown ==
  /\ pc = "shutdown" /\ Listed = {}
  /\ pc' = IF cmd = "proxy" /\ proxy = "dead" THEN "aborted" ELSE "done"
  /\ proxy' = IF cmd = "proxy" /\ proxy = "up" THEN "stopped" ELSE proxy
  /\ UNCHANGED <<cmd, connect_fd, got, handlers, pending, restartVars, sesVars,
                 envVars, bounds>>

-----------------------------------------------------------------------------
(* Workers, clients, the proxy process and signals *)

\* The kernel keeps a signal for the master; without a handler SIGCHLD is lost.
Child(signals) == IF handlers THEN signals \cup {"CHLD"} ELSE signals

\* poll_request_arrival() looks for the notice first.
WorkerReceive(p) ==
  /\ worker[p].state = "idle" /\ ~worker[p].told
  /\ client[worker[p].client] = "open" /\ stream[worker[p].client] = "boundary"
  /\ worker' = [worker EXCEPT ![p].state = "busy"]
  /\ stream' = [stream EXCEPT ![worker[p].client] = "mid"]
  /\ UNCHANGED <<masterVars, pending, restartVars, sessions, forks, client, proxy,
                 bounds>>

WorkerReply(p) ==
  /\ worker[p].state = "busy"
  /\ worker' = [worker EXCEPT ![p].state = "idle"]
  /\ stream' = [stream EXCEPT ![worker[p].client] = "boundary"]
  /\ UNCHANGED <<masterVars, pending, restartVars, sessions, forks, client, proxy,
                 bounds>>

Gone(p) ==
  /\ worker' = [worker EXCEPT ![p].state = "zombie", ![p].holds = {}]
  /\ pending' = Child(pending)

WorkerEnd_AtOnce(p) ==
  /\ worker[p].state \in {"idle", "busy"}
  /\ worker[p].told \/ client[worker[p].client] = "closed"
  /\ Gone(p)
  /\ UNCHANGED <<masterVars, restartVars, sessions, forks, envVars, proxy, bounds>>

\* poll_request_arrival() sees the notice, the end of the connection or that the
\* master is gone; what follows a request that was not served is no request.
WorkerEnd(p) ==
  /\ worker[p].state = "idle"
  /\ \/ worker[p].told \/ pc = "aborted"
     \/ client[worker[p].client] = "closed" \/ stream[worker[p].client] = "broken"
  /\ Gone(p)
  /\ UNCHANGED <<masterVars, restartVars, sessions, forks, envVars, proxy, bounds>>

\* A request the worker does not serve ends it with err().
WorkerError(p) ==
  /\ worker[p].state = "busy" /\ bounds.errors < MaxErrors
  /\ bounds' = [bounds EXCEPT !.errors = @ + 1]
  /\ stream' = [stream EXCEPT ![worker[p].client] = "broken"]
  /\ Gone(p)
  /\ UNCHANGED <<masterVars, restartVars, sessions, forks, client, proxy>>

Connect(c) ==
  /\ client[c] = "away" /\ ~connect_fd /\ pc \in Loop
  /\ client' = [client EXCEPT ![c] = "backlog"]
  /\ UNCHANGED <<masterVars, pending, restartVars, sesVars, stream, proxy, bounds>>

Disconnect(c) ==
  /\ client[c] \in {"backlog", "open"}
  /\ client' = [client EXCEPT ![c] = IF @ = "backlog" THEN "left" ELSE "closed"]
  /\ UNCHANGED <<masterVars, pending, restartVars, sesVars, stream, proxy, bounds>>

ProxyDies ==
  /\ proxy = "up" /\ bounds.errors < MaxErrors
  /\ bounds' = [bounds EXCEPT !.errors = @ + 1]
  /\ proxy' = "dead" /\ pending' = Child(pending)
  /\ UNCHANGED <<masterVars, restartVars, sesVars, envVars>>

SendSignal(signal) ==
  /\ pc \in Loop /\ bounds.signals < MaxSignals
  /\ bounds' = [bounds EXCEPT !.signals = @ + 1]
  /\ pending' = pending \cup {signal}
  /\ UNCHANGED <<masterVars, restartVars, sesVars, envVars, proxy>>

-----------------------------------------------------------------------------
(* The specification *)

Init ==
  /\ pc = "start" /\ got = {} /\ pending = {} /\ handlers = FALSE
  /\ cmd \in Modes
  /\ proxy = IF cmd = "proxy" THEN "up" ELSE "none"
  /\ restarting_for_mode_change = FALSE /\ restarting_for_snapshot = FALSE
  /\ socklist = <<>> /\ shot = "none"
  /\ sessions = [p \in Pids |-> "none"]
  /\ worker = [p \in Pids |-> NoWorker]
  /\ forks = 0
  /\ connect_fd \in BOOLEAN
  /\ client = [c \in Clients |->
                 IF connect_fd /\ c = OnlyClient THEN "open" ELSE "away"]
  /\ stream = [c \in Clients |-> "boundary"]
  /\ bounds = [signals |-> 0, errors |-> 0]

MasterStep ==
  \/ Start \/ set_sigactions \/ NeedExit \/ ReapChildren \/ Restart \/ HandleSigusr
  \/ PpollSignal \/ PpollAccept \/ ShutdownTell \/ ShutdownWait \/ Shutdown

WorkerStep(p) ==
  WorkerReceive(p) \/ WorkerReply(p) \/ WorkerEnd(p) \/ WorkerError(p)

Environment ==
  \/ \E c \in Clients : Connect(c) \/ Disconnect(c)
  \/ ProxyDies
  \/ \E signal \in {"USR1", "USR2", "TERM"} : SendSignal(signal)

\* The master has ended, or waits for clients and signals.
Waiting == pc \in {"ppoll", "done", "aborted"} /\ UNCHANGED vars

Next == MasterStep \/ (\E p \in Pids : WorkerStep(p)) \/ Environment \/ Waiting

Spec == Init /\ [][Next]_vars

\* The master and its workers are processes that are scheduled; a worker that is
\* to end is not kept waiting in the middle of a request.
ToEnd(p) == worker[p].told \/ client[worker[p].client] = "closed"

Fairness ==
  /\ WF_vars(MasterStep)
  /\ WF_vars(\E p \in Running : ToEnd(p) /\ (WorkerReply(p) \/ WorkerEnd(p)))

FairSpec == Spec /\ Fairness

-----------------------------------------------------------------------------
(* Properties *)

\* Every variable keeps its type; in particular a session is in the list of the
\* master, notified or not, or it is not there.
TypeOK ==
  /\ pc \in Loop \cup {"start", "sigactions", "shutdown", "done", "aborted"}
  /\ cmd \in {"target", "cow", "proxy"} /\ connect_fd \in BOOLEAN
  /\ got \subseteq Signals /\ pending \subseteq Signals /\ handlers \in BOOLEAN
  /\ restarting_for_mode_change \in BOOLEAN /\ restarting_for_snapshot \in BOOLEAN
  /\ socklist \in Seq(Clients)
  /\ sessions \in [Pids -> {"none", "listed", "notifying"}]
  /\ worker \in [Pids ->
       [client : Clients \cup {"nobody"}, mode : {"none", "target", "cow", "proxy"},
        state : {"none", "idle", "busy", "zombie", "reaped"}, told : BOOLEAN,
        holds : SUBSET Clients]]
  /\ forks \in 0 .. MaxForks
  /\ client \in [Clients -> {"away", "backlog", "left", "open", "closed"}]
  /\ stream \in [Clients -> {"boundary", "mid", "broken"}]
  /\ proxy \in {"none", "up", "dead", "stopped"}
  /\ shot \in {"none", "quiet", "torn", "clash"}
  /\ bounds \in [signals : 0 .. MaxSignals, errors : 0 .. MaxErrors]

\* A client is served by one process at a time: the restart never gives a socket
\* to a second worker, whatever signals and connections arrive during it.
OneWorker ==
  \A p, q \in Running : worker[p].client = worker[q].client => p = q

\* What a restart is for happens only while no worker runs, one of a connection
\* accepted during the restart included: no worker can write to the disk while
\* the snapshot is taken, and none outlives the proxy mode it was forked in.
RestartExclusive == shot # "torn" /\ \A p \in Running : worker[p].mode = cmd

\* A connected client is not lost in a restart: it has a worker, or its socket
\* is preserved for one, unless a worker failed on one of its requests.
ClientsKept ==
  pc \in Loop =>
    \A c \in Clients :
      client[c] = "open" /\ stream[c] # "broken" =>
        c \in PreservedSockets \cup {worker[p].client : p \in Running}

\* A new worker begins where a request begins: a worker that is told to end
\* finishes the request it has received.
ResumesAtRequest ==
  \A p \in Running : worker[p].state = "idle" => stream[worker[p].client] # "mid"

\* The master gives up only when the proxy process died or when two snapshots
\* fall into one second; it never meets a child it does not know.
AbortCauses == pc = "aborted" => proxy = "dead" \/ shot = "clash"

\* A worker process holds no socket of another session.
OwnSocketOnly == \A p \in Running : worker[p].holds \subseteq {worker[p].client}

\* Once a listening master has notified every worker the restart is completed,
\* unless a client that connected meanwhile holds it up or the master ends.
RestartCompletes ==
  (/\ restarting /\ ~connect_fd /\ Listed # {}
   /\ \A p \in Listed : sessions[p] = "notifying")
    ~> (~restarting \/ pc \notin Loop \/ \E p \in Listed : sessions[p] = "listed")

\* SIGUSR2 changes the proxy mode to the target mode: without a session there is
\* nothing to wait for.
SwitchHappens ==
  ("USR2" \in got /\ cmd = "proxy" /\ Listed = {})
    ~> (cmd = "target" \/ pc \notin Loop)

\* The master ends when it is told to, however many workers it has.
ExitCompletes ==
  ("TERM" \in pending /\ pc \in Loop) ~> pc \in {"done", "aborted"}

\* With a socket from the command line the master ends after its only client.
EndsWithClient ==
  (connect_fd /\ \A c \in Clients : client[c] \in {"away", "closed"})
    ~> pc \in {"done", "aborted"}

=============================================================================
