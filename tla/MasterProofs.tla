---------------------------- MODULE MasterProofs ----------------------------
(***************************************************************************)
(* The restart of xnbd-server, for every number of clients, workers and    *)
(* signals: nobody is served twice or lost, a snapshot meets no worker and *)
(* the master does not give up without a reason.                           *)
(***************************************************************************)
EXTENDS Master, TLAPS

USE SMTT(40)

(* The state by pid, client and place in the list of preserved sockets.  A  *)
(* lemma on each kind of step says what it does to these; the proofs of the *)
(* invariants do not look behind them.                                      *)
StateOf(p) == worker[p].state
ClientOf(p) == worker[p].client
ModeOf(p) == worker[p].mode
Told(p) == worker[p].told
Session(p) == sessions[p]
Connection(c) == client[c]
Stream(c) == stream[c]
Places == DOMAIN socklist
Socket(i) == socklist[i]

WorkerFields == {"client", "mode", "state", "told", "holds"}

Formed == DOMAIN worker = Pids /\ \A p \in Pids : DOMAIN worker[p] = WorkerFields

\* What the list of sessions, the workers and the preserved sockets look like.
ShapeInv ==
  /\ Formed
  /\ sessions \in [Pids -> {"none", "listed", "notifying"}]
  /\ DOMAIN client = Clients /\ DOMAIN stream = Clients
  /\ socklist \in Seq(Clients)
  /\ forks \in 0 .. MaxForks

\* The list holds exactly the workers that were not waited for, and pids are
\* used once.
ListInv ==
  /\ \A p \in Pids : Session(p) # "none" <=> StateOf(p) \in {"idle", "busy", "zombie"}
  /\ \A p \in Pids : p > forks => StateOf(p) = "none"
  /\ \A p \in Pids : Session(p) # "none" => ClientOf(p) \in Clients
  /\ pc = "start" => forks = 0 /\ Places = {}

\* Every socket is in the list once, and is preserved at most once; it is both
\* only from the notice to the end of its worker.
SocketInv ==
  /\ \A p, q \in Pids :
       Session(p) # "none" /\ Session(q) # "none" /\ ClientOf(p) = ClientOf(q) => p = q
  /\ \A p \in Pids : Session(p) = "listed" => \A i \in Places : Socket(i) # ClientOf(p)
  /\ \A i, j \in Places : Socket(i) = Socket(j) => i = j

\* Who is not accepted has no socket here.
AwayInv ==
  /\ \A c \in Clients : Connection(c) \in {"away", "backlog", "left"} =>
       /\ \A i \in Places : Socket(i) # c
       /\ \A p \in Pids : Session(p) # "none" => ClientOf(p) # c
  /\ connect_fd => Connection(OnlyClient) \in {"open", "closed"}

\* Workers run in the mode of the master, and no snapshot has met one.
ModeInv ==
  /\ shot # "torn"
  /\ \A p \in Pids : StateOf(p) \in {"idle", "busy"} => ModeOf(p) = cmd

\* Until the master ends, a worker that was told to end has its socket preserved,
\* so an open connection has a worker or waits for one.
ToldInv ==
  pc \in Loop \cup {"start", "sigactions"} =>
    \A p \in Pids : Session(p) # "none" =>
      /\ Told(p) => Session(p) = "notifying"
      /\ Session(p) = "notifying" => \E i \in Places : Socket(i) = ClientOf(p)

KeptInv ==
  /\ pc = "start" =>
       \A c \in Clients : Connection(c) = "open" => connect_fd /\ c = OnlyClient
  /\ pc \in Loop \cup {"sigactions"} =>
       \A c \in Clients : Connection(c) = "open" /\ Stream(c) # "broken" =>
         \/ \E i \in Places : Socket(i) = c
         \/ \E p \in Pids : StateOf(p) \in {"idle", "busy"} /\ ClientOf(p) = c

\* A request that is half served belongs to a worker that serves it.
StreamInv ==
  \A c \in Clients : Stream(c) = "mid" =>
    \E p \in Pids : StateOf(p) = "busy" /\ ClientOf(p) = c

IInv ==
  /\ ShapeInv /\ ListInv /\ SocketInv /\ AwayInv /\ ModeInv /\ AbortCauses
  /\ ToldInv /\ KeptInv /\ StreamInv

LEMMA OnlyIsClient == OnlyClient \in Clients
  BY ClientsAssumption DEF OnlyClient

LEMMA InitInv == Init => IInv
  <1> SUFFICES ASSUME Init PROVE IInv
    OBVIOUS
  <1>1. \A p \in Pids : StateOf(p) = "none" /\ Session(p) = "none"
    BY DEF Init, StateOf, Session, NoWorker
  <1>2. ShapeInv
    BY BoundsAssumption DEF Init, ShapeInv, Formed, NoWorker, WorkerFields
  <1>3. Places = {} /\ forks = 0 /\ pc = "start" /\ shot = "none"
    BY DEF Init, Places
  <1>4. \A c \in Clients : /\ Stream(c) = "boundary"
                           /\ Connection(c) = IF connect_fd /\ c = OnlyClient THEN "open" ELSE "away"
    BY DEF Init, Stream, Connection
  <1>5. ListInv /\ SocketInv /\ ModeInv /\ AbortCauses /\ ToldInv
    BY <1>1, <1>3 DEF ListInv, SocketInv, ModeInv, AbortCauses, ToldInv
  <1>6. AwayInv /\ KeptInv /\ StreamInv
    BY <1>1, <1>3, <1>4, OnlyIsClient DEF AwayInv, KeptInv, StreamInv, Loop
  <1> QED
    BY <1>2, <1>5, <1>6 DEF IInv

-----------------------------------------------------------------------------
(* What the steps do to the state by pid, client and place *)

SameWorkers ==
  /\ \A p \in Pids : /\ StateOf(p)' = StateOf(p) /\ ClientOf(p)' = ClientOf(p)
                     /\ ModeOf(p)' = ModeOf(p) /\ Told(p)' = Told(p)
  /\ \A p \in Pids : Session(p)' = Session(p)
SameSockets == Places' = Places /\ \A i \in Places : Socket(i)' = Socket(i)
SameConnections == \A c \in Clients : Connection(c)' = Connection(c)
SameStreams == \A c \in Clients : Stream(c)' = Stream(c)

LEMMA Same ==
  /\ UNCHANGED <<worker, sessions>> => SameWorkers
  /\ UNCHANGED socklist => SameSockets
  /\ UNCHANGED client => SameConnections
  /\ UNCHANGED stream => SameStreams
  <1>1. UNCHANGED <<worker, sessions>> => SameWorkers
    BY DEF SameWorkers, StateOf, ClientOf, ModeOf, Told, Session
  <1>2. UNCHANGED socklist => SameSockets
    BY DEF SameSockets, Places, Socket
  <1>3. UNCHANGED client => SameConnections
    BY DEF SameConnections, Connection
  <1>4. UNCHANGED stream => SameStreams
    BY DEF SameStreams, Stream
  <1> QED
    BY <1>1, <1>2, <1>3, <1>4

\* Workers of the list go on or end, clients come and go.
WorkersGoOn ==
  /\ Formed'
  /\ \A q \in Pids :
       /\ ClientOf(q)' = ClientOf(q) /\ ModeOf(q)' = ModeOf(q)
       /\ \/ StateOf(q)' = StateOf(q)
          \/ StateOf(q) \in {"idle", "busy"} /\ StateOf(q)' \in {"idle", "busy", "zombie"}
  /\ pc = "shutdown" \/ \A q \in Pids : Told(q)' = Told(q)

ClientsGoOn ==
  /\ DOMAIN stream' = Clients /\ DOMAIN client' = Clients
  /\ \A c \in Clients :
       \/ Connection(c)' = Connection(c)
       \/ {Connection(c), Connection(c)'} \subseteq {"away", "backlog", "left"}
       \/ {Connection(c), Connection(c)'} \subseteq {"open", "closed"}

MasterSame == UNCHANGED <<pc, cmd, connect_fd, socklist, shot, sessions, forks, proxy>>

\* What such steps cannot disturb.
ListedInv ==
  ShapeInv /\ ListInv /\ SocketInv /\ AwayInv /\ ModeInv /\ AbortCauses /\ ToldInv

LEMMA ListedKept ==
  ASSUME IInv, WorkersGoOn, ClientsGoOn, MasterSame
  PROVE  ListedInv'
  <1> USE DEF WorkersGoOn, ClientsGoOn, MasterSame
  <1>1. SameSockets /\ \A q \in Pids : Session(q)' = Session(q)
    BY Same DEF Session
  <1>2. ShapeInv'
    BY DEF IInv, ShapeInv
  <1>3. ListInv'
    BY <1>1 DEF IInv, ListInv, SameSockets
  <1>4. SocketInv' /\ AwayInv'
    BY <1>1, OnlyIsClient DEF IInv, SocketInv, AwayInv, SameSockets
  <1>5. ModeInv' /\ AbortCauses'
    BY DEF IInv, ModeInv, AbortCauses
  <1>6. ToldInv'
    BY <1>1 DEF IInv, ToldInv, SameSockets, Loop
  <1> QED BY <1>2, <1>3, <1>4, <1>5, <1>6 DEF ListedInv

\* Steps that touch neither sessions, workers, connections nor sockets.
LEMMA QuietStep ==
  ASSUME IInv, UNCHANGED <<cmd, connect_fd, socklist, shot, worker, sessions, forks, client, stream>>,
         pc' # "start" \/ pc = "start",
         pc' \in Loop \cup {"sigactions"} =>
           pc \in Loop \cup {"sigactions"} \/ (pc = "start" /\ ~connect_fd),
         pc' = "aborted" => proxy' = "dead" \/ shot' = "clash"
  PROVE  IInv'
  <1>1. SameWorkers /\ SameSockets /\ SameConnections /\ SameStreams
    BY Same
  <1>2. ShapeInv'
    BY DEF IInv, ShapeInv, Formed
  <1>3. ListInv' /\ SocketInv'
    BY <1>1 DEF IInv, ListInv, SocketInv, SameWorkers, SameSockets
  <1>4. AwayInv' /\ AbortCauses'
    BY <1>1, OnlyIsClient
       DEF IInv, AwayInv, AbortCauses, SameWorkers, SameSockets, SameConnections
  <1>5. ModeInv' /\ ToldInv'
    BY <1>1 DEF IInv, ModeInv, ToldInv, SameWorkers, SameSockets
  <1>6. KeptInv'
    BY <1>1 DEF IInv, KeptInv, SameWorkers, SameSockets, SameConnections, SameStreams
  <1>7. StreamInv'
    BY <1>1 DEF IInv, StreamInv, SameWorkers, SameStreams
  <1> QED
    BY <1>2, <1>3, <1>4, <1>5, <1>6, <1>7 DEF IInv

\* invoke_new_session() uses the pids that follow, and nothing else changes.
Added(cs, mode) ==
  /\ forks' = forks + Len(cs) /\ forks' \in 0 .. MaxForks
  /\ \A p \in Pids : p > forks /\ p <= forks' =>
       /\ StateOf(p) = "none" /\ Session(p) = "none"
       /\ StateOf(p)' = "idle" /\ ModeOf(p)' = mode /\ Told(p)' = FALSE
       /\ Session(p)' = "listed"
       /\ p - forks \in DOMAIN cs /\ ClientOf(p)' = cs[p - forks]
  /\ \A p \in Pids : ~(p > forks /\ p <= forks') =>
       /\ StateOf(p)' = StateOf(p) /\ ClientOf(p)' = ClientOf(p)
       /\ ModeOf(p)' = ModeOf(p) /\ Told(p)' = Told(p)
       /\ Session(p)' = Session(p)
  /\ \A i \in DOMAIN cs : \E p \in Pids : p > forks /\ p <= forks' /\ ClientOf(p)' = cs[i]

LEMMA Invoked ==
  ASSUME ShapeInv, ListInv, NEW cs \in Seq(Clients), NEW mode,
         invoke_new_session(cs, mode)
  PROVE  /\ Added(cs, mode)
         /\ Formed'
         /\ sessions' \in [Pids -> {"none", "listed", "notifying"}]
  <1>1. Len(cs) \in Nat /\ DOMAIN cs = 1 .. Len(cs)
    OBVIOUS
  <1>2. forks \in Nat /\ forks' = forks + Len(cs) /\ forks' \in 0 .. MaxForks
    BY <1>1, BoundsAssumption DEF ShapeInv, invoke_new_session
  <1>3. \A p \in Pids : p \in forks + 1 .. forks + Len(cs) <=> p > forks /\ p <= forks'
    BY <1>1, <1>2, BoundsAssumption DEF Pids
  <1>4. /\ DOMAIN worker' = Pids
        /\ \A p \in Pids : p > forks /\ p <= forks' =>
             worker'[p] = NewWorker(cs, p - forks, mode) /\ sessions'[p] = "listed"
        /\ \A p \in Pids : ~(p > forks /\ p <= forks') =>
             worker'[p] = worker[p] /\ sessions'[p] = sessions[p]
    BY <1>3 DEF invoke_new_session
  <1>5. \A i : DOMAIN NewWorker(cs, i, mode) = WorkerFields
               /\ NewWorker(cs, i, mode).client = cs[i]
               /\ NewWorker(cs, i, mode).state = "idle"
               /\ NewWorker(cs, i, mode).mode = mode
               /\ NewWorker(cs, i, mode).told = FALSE
    BY DEF NewWorker, WorkerFields
  <1>6. \A p \in Pids : p > forks => StateOf(p) = "none" /\ Session(p) = "none"
    BY DEF ListInv
  <1>7. \A p \in Pids : DOMAIN worker'[p] = WorkerFields
    BY <1>4, <1>5 DEF ShapeInv, Formed
  <1>8. sessions' \in [Pids -> {"none", "listed", "notifying"}]
    BY DEF ShapeInv, invoke_new_session
  <1>9. \A p \in Pids : p > forks /\ p <= forks' =>
          /\ StateOf(p)' = "idle" /\ ModeOf(p)' = mode /\ Told(p)' = FALSE
          /\ Session(p)' = "listed" /\ ClientOf(p)' = cs[p - forks]
    BY <1>4, <1>5 DEF StateOf, ModeOf, Told, Session, ClientOf
  <1>10. \A p \in Pids : ~(p > forks /\ p <= forks') =>
          /\ StateOf(p)' = StateOf(p) /\ ClientOf(p)' = ClientOf(p)
          /\ ModeOf(p)' = ModeOf(p) /\ Told(p)' = Told(p) /\ Session(p)' = Session(p)
    BY <1>4 DEF StateOf, ModeOf, Told, Session, ClientOf
  <1>11. \A p \in Pids : p > forks /\ p <= forks' => p - forks \in DOMAIN cs
    BY <1>1, <1>2, BoundsAssumption DEF Pids
  <1>12. \A i \in DOMAIN cs : /\ forks + i \in Pids /\ forks + i > forks /\ forks + i <= forks'
                              /\ (forks + i) - forks = i
    BY <1>1, <1>2, BoundsAssumption DEF Pids
  <1>13. \A i \in DOMAIN cs : \E p \in Pids : p > forks /\ p <= forks' /\ ClientOf(p)' = cs[i]
    <2> TAKE i \in DOMAIN cs
    <2>1. PICK p \in Pids : p = forks + i
      BY <1>12
    <2> QED
      BY <1>9, <1>12, <2>1
  <1> QED
    BY <1>2, <1>4, <1>6, <1>7, <1>8, <1>9, <1>10, <1>11, <1>12, <1>13 DEF Added, Formed

\* A step of one worker leaves its other fields and the other workers alone.
LEMMA OneWorkerStep ==
  ASSUME ShapeInv, NEW p \in Pids, NEW v,
         \/ worker' = [worker EXCEPT ![p].state = v]
         \/ worker' = [worker EXCEPT ![p].state = v, ![p].holds = {}]
  PROVE  /\ Formed'
         /\ \A q \in Pids : /\ ClientOf(q)' = ClientOf(q) /\ ModeOf(q)' = ModeOf(q)
                            /\ Told(q)' = Told(q) /\ (q # p => StateOf(q)' = StateOf(q))
         /\ StateOf(p)' = v
  BY DEF ShapeInv, Formed, WorkerFields, ClientOf, ModeOf, Told, StateOf

\* A notice.
LEMMA ToldStep ==
  ASSUME ShapeInv, NEW p \in Pids, worker' = [worker EXCEPT ![p].told = TRUE]
  PROVE  /\ Formed'
         /\ \A q \in Pids : /\ ClientOf(q)' = ClientOf(q) /\ ModeOf(q)' = ModeOf(q)
                            /\ StateOf(q)' = StateOf(q)
  BY DEF ShapeInv, Formed, WorkerFields, ClientOf, ModeOf, StateOf

\* Some workers were waited for.
Waited(P) ==
  /\ \A p \in P : StateOf(p)' = "reaped" /\ Session(p)' = "none"
  /\ \A p \in Pids \ P :
       /\ StateOf(p)' = StateOf(p) /\ ClientOf(p)' = ClientOf(p) /\ ModeOf(p)' = ModeOf(p)
       /\ Told(p)' = Told(p) /\ Session(p)' = Session(p)

LEMMA WaitedFor ==
  ASSUME ShapeInv, NEW P \in SUBSET Pids,
         DOMAIN worker' = Pids, sessions' \in [Pids -> {"none", "listed", "notifying"}],
         \A p \in Pids : /\ worker'[p] = IF p \in P THEN Buried ELSE worker[p]
                         /\ sessions'[p] = IF p \in P THEN "none" ELSE sessions[p]
  PROVE  Formed' /\ Waited(P)
  <1>1. DOMAIN Buried = WorkerFields /\ Buried.state = "reaped"
    BY DEF Buried, NoWorker, WorkerFields
  <1>2. Formed'
    BY <1>1 DEF ShapeInv, Formed
  <1>3. Waited(P)
    BY <1>1 DEF Waited, StateOf, ClientOf, ModeOf, Told, Session
  <1> QED
    BY <1>2, <1>3

\* The notice to all workers preserves the sockets of exactly those that were
\* not notified before, each once.
Notice ==
  /\ \A q \in Pids : /\ ClientOf(q)' = ClientOf(q) /\ ModeOf(q)' = ModeOf(q)
                     /\ StateOf(q)' = StateOf(q)
                     /\ Session(q)' = IF Session(q) = "none" THEN "none" ELSE "notifying"
  /\ \A i, j \in Places' : Socket(i)' = Socket(j)' => i = j
  /\ \A i \in Places : i \in Places' /\ Socket(i)' = Socket(i)
  /\ \A i \in Places' : i \notin Places =>
       \E q \in Pids : Session(q) = "listed" /\ ClientOf(q) = Socket(i)'
  /\ \A q \in Pids : Session(q) = "listed" => \E i \in Places' : Socket(i)' = ClientOf(q)

LEMMA Notified ==
  ASSUME ShapeInv, ListInv, SocketInv, NotifyWorkers
  PROVE  /\ Formed'
         /\ sessions' \in [Pids -> {"none", "listed", "notifying"}]
         /\ socklist' \in Seq(Clients)
         /\ Notice
  <1> DEFINE new == {p \in Listed : sessions[p] # "notifying"}
  <1>1. new \subseteq Pids /\ \A p \in Pids : p \in new <=> Session(p) = "listed"
    BY DEF Listed, ShapeInv, Session
  <1>2. PICK n \in 0 .. MaxForks : \E order \in [1 .. n -> new] :
           /\ \A i, j \in DOMAIN order : i < j => order[i] < order[j]
           /\ \A p \in new : \E i \in DOMAIN order : order[i] = p
           /\ socklist' = socklist \o [i \in DOMAIN order |-> worker[order[i]].client]
    BY Zenon DEF NotifyWorkers
  <1>3. PICK order \in [1 .. n -> new] :
           /\ \A i, j \in DOMAIN order : i < j => order[i] < order[j]
           /\ \A p \in new : \E i \in DOMAIN order : order[i] = p
           /\ socklist' = socklist \o [i \in DOMAIN order |-> worker[order[i]].client]
    BY <1>2, Zenon
  <1>4. /\ sessions' = [p \in Pids |-> IF p \in new THEN "notifying" ELSE sessions[p]]
        /\ worker' = [p \in Pids |->
             IF p \in new THEN [worker[p] EXCEPT !.told = TRUE] ELSE worker[p]]
    BY DEF NotifyWorkers
  <1> HIDE DEF new
  <1> DEFINE added == [i \in DOMAIN order |-> worker[order[i]].client]
  <1>5. n \in Nat /\ DOMAIN order = 1 .. n
    BY BoundsAssumption
  <1>6. \A i \in 1 .. n : order[i] \in Pids /\ Session(order[i]) = "listed"
    BY <1>1
  <1>7. \A i, j \in 1 .. n : order[i] = order[j] => i = j
    <2> SUFFICES ASSUME NEW i \in 1 .. n, NEW j \in 1 .. n, order[i] = order[j], i # j
                 PROVE FALSE
      OBVIOUS
    <2>1. order[i] \in Int /\ order[j] \in Int
      BY <1>6, BoundsAssumption DEF Pids
    <2> QED
      BY <1>3, <1>5, <2>1
  <1>8. \A i \in 1 .. n : ClientOf(order[i]) \in Clients
    BY <1>6 DEF ListInv
  <1>9. added = [i \in 1 .. n |-> ClientOf(order[i])]
    BY <1>5 DEF ClientOf
  <1>10. /\ added \in Seq(Clients) /\ Len(added) = n
         /\ \A i \in 1 .. n : added[i] = ClientOf(order[i])
    BY <1>5, <1>8, <1>9
  <1>11. socklist' = socklist \o added
    BY <1>3
  <1>12. PICK len \in Nat :
           socklist \in Seq(Clients) /\ len = Len(socklist) /\ DOMAIN socklist = 1 .. len
    BY DEF ShapeInv
  <1> HIDE DEF added
  <1>13. /\ socklist' \in Seq(Clients) /\ DOMAIN socklist' = 1 .. len + n
         /\ \A i \in 1 .. len : socklist'[i] = socklist[i]
         /\ \A i \in 1 .. n : socklist'[len + i] = added[i]
    <2>1. socklist \o added \in Seq(Clients) /\ Len(socklist \o added) = len + n
      BY <1>10, <1>12
    <2> QED
      BY <1>5, <1>10, <1>11, <1>12, <2>1
  <1>14. /\ Places = 1 .. len /\ Places' = 1 .. len + n
         /\ \A i \in 1 .. len : Socket(i)' = Socket(i)
         /\ \A i \in 1 .. n : Socket(len + i)' = ClientOf(order[i])
    BY <1>10, <1>12, <1>13 DEF Places, Socket
  <1>15. \A i \in Places' : i \notin Places =>
           \E k \in 1 .. n : i = len + k /\ Socket(i)' = ClientOf(order[k])
    <2> TAKE i \in Places'
    <2> HAVE i \notin Places
    <2>1. i - len \in 1 .. n /\ i = len + (i - len)
      BY <1>5, <1>12, <1>14
    <2> QED
      BY <1>14, <2>1
  <1>16. \A i, j \in Places' : Socket(i)' = Socket(j)' => i = j
    <2> TAKE i, j \in Places'
    <2> HAVE Socket(i)' = Socket(j)'
    <2>1. ASSUME NEW k \in Places, NEW m \in Places', m \notin Places, Socket(k)' = Socket(m)'
          PROVE FALSE
      BY <1>6, <1>14, <1>15, <2>1 DEF SocketInv
    <2>2. CASE i \in Places /\ j \in Places
      BY <1>14, <2>2 DEF SocketInv
    <2>3. CASE i \notin Places /\ j \notin Places
      <3>1. PICK k \in 1 .. n : i = len + k /\ Socket(i)' = ClientOf(order[k])
        BY <1>15, <2>3
      <3>2. PICK m \in 1 .. n : j = len + m /\ Socket(j)' = ClientOf(order[m])
        BY <1>15, <2>3
      <3>3. order[k] = order[m]
        BY <1>6, <3>1, <3>2 DEF SocketInv
      <3> QED
        BY <1>7, <3>1, <3>2, <3>3
    <2> QED
      BY <2>1, <2>2, <2>3
  <1>17. \A i \in Places : i \in Places' /\ Socket(i)' = Socket(i)
    BY <1>5, <1>12, <1>14
  <1>18. \A i \in Places' : i \notin Places =>
           \E q \in Pids : Session(q) = "listed" /\ ClientOf(q) = Socket(i)'
    BY <1>6, <1>15
  <1>19. \A q \in Pids : Session(q) = "listed" => \E i \in Places' : Socket(i)' = ClientOf(q)
    <2> TAKE q \in Pids
    <2> HAVE Session(q) = "listed"
    <2>1. PICK k \in 1 .. n : order[k] = q
      BY <1>1, <1>3, Zenon
    <2>2. len + k \in Places' /\ Socket(len + k)' = ClientOf(q)
      BY <1>5, <1>12, <1>14, <2>1
    <2> QED
      BY <2>2
  <1>20. Formed'
    BY <1>4 DEF ShapeInv, Formed
  <1>21. /\ sessions' \in [Pids -> {"none", "listed", "notifying"}]
         /\ \A q \in Pids : Session(q)' = IF Session(q) = "none" THEN "none" ELSE "notifying"
    BY <1>1, <1>4 DEF ShapeInv, Session
  <1>22. \A q \in Pids : /\ ClientOf(q)' = ClientOf(q) /\ ModeOf(q)' = ModeOf(q)
                         /\ StateOf(q)' = StateOf(q)
    BY <1>4 DEF ShapeInv, WorkerFields, ClientOf, ModeOf, StateOf
  <1> QED
    BY <1>13, <1>16, <1>17, <1>18, <1>19, <1>20, <1>21, <1>22 DEF Notice

-----------------------------------------------------------------------------
(* The invariant is inductive: one lemma for each kind of step *)

\* A session begins for a client that has none and whose socket is not preserved.
LEMMA NewSession ==
  ASSUME IInv, NEW c \in Clients, invoke_new_session(<<c>>, cmd),
         \A i \in Places : Socket(i) # c,
         \A p \in Pids : Session(p) # "none" => ClientOf(p) # c,
         Connection(c)' \in {"open", "closed"}, DOMAIN client' = Clients,
         \A d \in Clients : d # c => Connection(d)' = Connection(d),
         UNCHANGED <<cmd, connect_fd, socklist, shot, stream, proxy>>,
         pc' \in Loop \cup {"sigactions"},
         pc \in Loop \cup {"start", "sigactions"},
         pc = "start" => connect_fd /\ c = OnlyClient
  PROVE  IInv'
  <1> DEFINE cs == <<c>>
  <1>1. /\ cs \in Seq(Clients) /\ Len(cs) = 1 /\ DOMAIN cs = {1} /\ cs[1] = c
        /\ invoke_new_session(cs, cmd) /\ ShapeInv /\ ListInv
    BY DEF IInv
  <1> HIDE DEF cs
  <1>2. /\ Added(cs, cmd)
        /\ Formed'
        /\ sessions' \in [Pids -> {"none", "listed", "notifying"}]
    BY <1>1, Invoked, Zenon
  <1>3. PICK new \in Pids : new > forks /\ new <= forks' /\ ClientOf(new)' = c
    BY <1>1, <1>2, Zenon DEF Added
  <1>4. /\ forks \in Nat /\ forks' = new
        /\ \A p \in Pids : p > forks /\ p <= forks' <=> p = new
    BY <1>1, <1>2, <1>3, BoundsAssumption DEF Added, Pids, ShapeInv
  <1>5. /\ StateOf(new) = "none" /\ Session(new) = "none"
        /\ StateOf(new)' = "idle" /\ ModeOf(new)' = cmd /\ Told(new)' = FALSE
        /\ Session(new)' = "listed" /\ ClientOf(new)' = c
        /\ \A p \in Pids : p # new =>
             /\ StateOf(p)' = StateOf(p) /\ ClientOf(p)' = ClientOf(p)
             /\ ModeOf(p)' = ModeOf(p) /\ Told(p)' = Told(p) /\ Session(p)' = Session(p)
    BY <1>2, <1>3, <1>4 DEF Added
  <1>6. SameSockets /\ SameStreams
    BY Same, Zenon
  <1>7. ShapeInv'
    BY <1>2, <1>1 DEF ShapeInv, Added
  <1>8. ListInv'
    <2>1. \A p \in Pids : p > forks' => p # new /\ p > forks
      BY <1>4, BoundsAssumption DEF Pids
    <2> QED
      BY <1>1, <1>5, <2>1 DEF ListInv, Loop
  <1>9. SocketInv'
    BY <1>5, <1>6 DEF IInv, SocketInv, SameSockets
  <1>10. AwayInv'
    BY <1>5, <1>6, OnlyIsClient DEF IInv, AwayInv, SameSockets
  <1>11. ModeInv' /\ AbortCauses'
    BY <1>5, Zenon DEF IInv, ModeInv, AbortCauses, Loop
  <1>12. ToldInv'
    BY <1>5, <1>6 DEF IInv, ToldInv, SameSockets
  <1>13. KeptInv'
    <2>1. ASSUME NEW d \in Clients, Connection(d)' = "open", Stream(d)' # "broken"
          PROVE  \/ \E i \in Places : Socket(i) = d
                 \/ \E p \in Pids : StateOf(p)' \in {"idle", "busy"} /\ ClientOf(p)' = d
      <3>1. CASE d = c
        BY <1>5, <3>1
      <3>2. CASE d # c
        <4>1. Connection(d) = "open" /\ Stream(d) # "broken" /\ pc # "start"
          BY <1>6, <2>1, <3>2 DEF IInv, KeptInv, SameStreams
        <4> QED
          BY <1>5, <4>1 DEF IInv, KeptInv
      <3> QED
        BY <3>1, <3>2
    <2> QED
      BY <1>6, <2>1 DEF KeptInv, Loop, SameSockets
  <1>14. StreamInv'
    BY <1>5, <1>6 DEF IInv, StreamInv, SameStreams
  <1> QED
    BY <1>7, <1>8, <1>9, <1>10, <1>11, <1>12, <1>13, <1>14 DEF IInv

LEMMA StartStep == IInv /\ Start => IInv'
  <1> SUFFICES ASSUME IInv, Start PROVE IInv'
    OBVIOUS
  <1>1. /\ pc = "start" /\ pc' = "sigactions"
        /\ UNCHANGED <<cmd, connect_fd, socklist, shot, client, stream, proxy>>
    BY DEF Start, restartVars, envVars
  <1>2. CASE connect_fd
    <2>1. forks = 0 /\ Places = {}
      BY <1>1 DEF IInv, ListInv
    <2>2. \A p \in Pids : Session(p) = "none"
      BY <2>1, BoundsAssumption DEF IInv, ListInv, Pids
    <2>3. Connection(OnlyClient) \in {"open", "closed"}
      BY <1>2 DEF IInv, AwayInv
    <2>4. SameConnections /\ DOMAIN client' = Clients
      BY <1>1, Same DEF IInv, ShapeInv
    <2>5. invoke_new_session(<<OnlyClient>>, cmd)
      BY <1>2 DEF Start
    <2>6. PICK c \in Clients : c = OnlyClient
      BY OnlyIsClient
    <2>7. Connection(c)' \in {"open", "closed"}
      BY <2>3, <2>4, <2>6 DEF SameConnections
    <2> QED
      BY <1>1, <1>2, <2>1, <2>2, <2>4, <2>5, <2>6, <2>7, NewSession DEF SameConnections
  <1>3. CASE ~connect_fd
    <2>1. UNCHANGED <<worker, sessions, forks>>
      BY <1>3 DEF Start, sesVars
    <2> QED
      BY <1>1, <1>3, <2>1, QuietStep
  <1> QED
    BY <1>2, <1>3

LEMMA AcceptStep == IInv /\ PpollAccept => IInv'
  <1> SUFFICES ASSUME IInv, PpollAccept PROVE IInv'
    OBVIOUS
  <1>1. PICK c \in Clients :
          /\ client[c] \in {"backlog", "left"}
          /\ client' = [client EXCEPT ![c] = IF @ = "backlog" THEN "open" ELSE "closed"]
          /\ \/ invoke_new_session(<<c>>, cmd)
             \/ client[c] = "left" /\ UNCHANGED sesVars
    BY Zenon DEF PpollAccept
  <1>2. /\ pc = "ppoll" /\ pc' = "top"
        /\ UNCHANGED <<cmd, connect_fd, socklist, shot, stream, proxy>>
    BY DEF PpollAccept, restartVars
  <1>3. /\ Connection(c) \in {"backlog", "left"}
        /\ Connection(c)' \in {"open", "closed"} /\ DOMAIN client' = Clients
        /\ \A d \in Clients : d # c => Connection(d)' = Connection(d)
        /\ Connection(c) = "left" => Connection(c)' = "closed"
    BY <1>1 DEF IInv, ShapeInv, Connection
  <1>4. CASE invoke_new_session(<<c>>, cmd)
    <2>1. /\ \A i \in Places : Socket(i) # c
          /\ \A p \in Pids : Session(p) # "none" => ClientOf(p) # c
      BY <1>3 DEF IInv, AwayInv
    <2> QED
      BY <1>2, <1>3, <1>4, <2>1, NewSession DEF Loop
  <1>5. CASE client[c] = "left" /\ UNCHANGED sesVars
    <2>1. /\ SameWorkers /\ SameSockets /\ SameStreams
          /\ UNCHANGED <<worker, sessions, forks>> /\ Connection(c)' = "closed"
      BY <1>2, <1>3, <1>5, Same DEF sesVars, Connection
    <2>2. ShapeInv'
      BY <1>2, <1>3, <2>1 DEF IInv, ShapeInv, Formed
    <2>3. ListInv' /\ SocketInv'
      BY <1>2, <2>1 DEF IInv, ListInv, SocketInv, SameWorkers, SameSockets
    <2>4. AwayInv'
      BY <1>2, <1>3, <2>1, OnlyIsClient DEF IInv, AwayInv, SameWorkers, SameSockets
    <2>5. ModeInv' /\ AbortCauses' /\ ToldInv'
      BY <1>2, <2>1 DEF IInv, ModeInv, AbortCauses, ToldInv, SameWorkers, SameSockets, Loop
    <2>6. KeptInv'
      BY <1>2, <1>3, <2>1 DEF IInv, KeptInv, SameWorkers, SameSockets, SameStreams, Loop
    <2>7. StreamInv'
      BY <2>1 DEF IInv, StreamInv, SameWorkers, SameStreams
    <2> QED
      BY <2>2, <2>3, <2>4, <2>5, <2>6, <2>7 DEF IInv
  <1> QED
    BY <1>1, <1>4, <1>5

\* Waiting for zombies leaves everything else as it is.
LEMMA WaitStep ==
  ASSUME IInv, NEW P \in SUBSET Pids, \A p \in P : StateOf(p) = "zombie",
         Formed', sessions' \in [Pids -> {"none", "listed", "notifying"}], Waited(P),
         UNCHANGED <<cmd, connect_fd, socklist, shot, forks, client, stream, proxy>>,
         pc \in Loop \/ pc' \notin Loop, pc' \notin {"start", "sigactions"},
         pc' = "aborted" => proxy = "dead"
  PROVE  IInv'
  <1>2. SameSockets /\ SameConnections /\ SameStreams
    BY Same
  <1>3. ShapeInv'
    BY DEF IInv, ShapeInv
  <1>4. ListInv'
    BY Zenon DEF IInv, ListInv, Waited
  <1>5. SocketInv'
    BY <1>2 DEF IInv, SocketInv, Waited, SameSockets
  <1>6. AwayInv'
    BY <1>2, OnlyIsClient DEF IInv, AwayInv, Waited, SameSockets, SameConnections
  <1>7. ModeInv' /\ AbortCauses'
    BY DEF IInv, ModeInv, AbortCauses, Waited
  <1>8. ToldInv'
    BY <1>2 DEF IInv, ToldInv, Waited, SameSockets
  <1>9. KeptInv'
    <2>1. \A p \in Pids : StateOf(p) \in {"idle", "busy"} =>
            StateOf(p)' = StateOf(p) /\ ClientOf(p)' = ClientOf(p)
      BY DEF Waited
    <2> QED
      BY <1>2, <2>1 DEF IInv, KeptInv, SameSockets, SameConnections, SameStreams
  <1>10. StreamInv'
    BY <1>2 DEF IInv, StreamInv, Waited, SameStreams
  <1> QED
    BY <1>3, <1>4, <1>5, <1>6, <1>7, <1>8, <1>9, <1>10 DEF IInv

LEMMA ReapStep == IInv /\ ReapChildren => IInv'
  <1> SUFFICES ASSUME IInv, ReapChildren PROVE IInv'
    OBVIOUS
  <1>1. pc = "top" /\ UNCHANGED <<cmd, connect_fd, socklist, shot, forks, client, stream, proxy>>
    BY DEF ReapChildren, restartVars, envVars
  <1>2. CASE "CHLD" \notin got
    <2>1. pc' = "restart" /\ UNCHANGED <<worker, sessions>>
      BY <1>2, Zenon DEF ReapChildren
    <2> QED
      BY <1>1, <2>1, QuietStep DEF Loop
  <1>3. CASE "CHLD" \in got
    <2>0. Zombies \in SUBSET Pids
      BY DEF Zombies
    <2>1. PICK P \in SUBSET Pids : P = Zombies
      BY <2>0, Zenon
    <2>2. /\ DOMAIN worker' = Pids /\ sessions' \in [Pids -> {"none", "listed", "notifying"}]
          /\ \A p \in Pids : /\ worker'[p] = IF p \in P THEN Buried ELSE worker[p]
                             /\ sessions'[p] = IF p \in P THEN "none" ELSE sessions[p]
      BY <1>3, <2>1 DEF ReapChildren, Reaped, IInv, ShapeInv
    <2>6. Formed' /\ Waited(P)
      BY <2>2, WaitedFor, Zenon DEF IInv
    <2>3. \A p \in P : StateOf(p) = "zombie"
      BY <2>1 DEF Zombies, StateOf
    <2>4. Zombies \subseteq Listed
      BY <2>1, <2>3 DEF Listed, IInv, ListInv, Session
    <2>5. /\ pc' \in {"aborted", "shutdown", "restart"}
          /\ pc' = "aborted" => proxy = "dead"
      BY <1>3, <2>4 DEF ReapChildren
    <2> QED
      BY <1>1, <2>2, <2>3, <2>5, <2>6, WaitStep DEF Loop
  <1> QED
    BY <1>2, <1>3

\* When the list is empty no worker runs, and the preserved sockets get theirs.
LEMMA RestartStep == IInv /\ Restart => IInv'
  <1> SUFFICES ASSUME IInv, Restart PROVE IInv'
    OBVIOUS
  <1>1. pc = "restart" /\ UNCHANGED <<connect_fd, client, stream>>
    BY DEF Restart, envVars
  <1>2. SameConnections /\ SameStreams
    BY <1>1, Same
  <1>3. CASE ~(restarting /\ Stopped)
    <2>1. /\ pc' = "sigusr"
          /\ UNCHANGED <<cmd, socklist, shot, worker, sessions, forks>>
      BY <1>3 DEF Restart, restartVars, sesVars
    <2> QED
      BY <1>1, <2>1, QuietStep DEF Loop
  <1>4. CASE restarting /\ Stopped
    <2>1. \A p \in Pids : Session(p) = "none" /\ StateOf(p) \notin {"idle", "busy", "zombie"}
      BY <1>4 DEF Stopped, Listed, Session, IInv, ListInv
    <2>2. PICK fails \in BOOLEAN :
            /\ SwitchOrSnapshot(fails)
            /\ IF fails
               THEN /\ pc' = "aborted"
                    /\ UNCHANGED <<sesVars, socklist>>
               ELSE /\ pc' = "sigusr"
                    /\ invoke_new_session(socklist, cmd')
                    /\ socklist' = <<>>
      BY <1>4 DEF Restart
    <2>3. /\ fails => proxy' = "dead" \/ shot' = "clash"
          /\ shot' # "torn"
      <3>1. Running = {}
        BY <2>1 DEF Running, StateOf
      <3> QED
        BY <2>2, <3>1 DEF SwitchOrSnapshot, xnbd_target_make_snapshot, IInv, ModeInv
    <2>4. CASE fails
      <3>1. pc' = "aborted" /\ UNCHANGED <<worker, sessions, forks, socklist>>
        BY <2>2, <2>4 DEF sesVars
      <3>2. SameWorkers /\ SameSockets
        BY <3>1, Same
      <3>3. ShapeInv'
        BY <1>1, <3>1, Zenon DEF IInv, ShapeInv, Formed
      <3>4. ListInv' /\ SocketInv'
        BY <3>1, <3>2 DEF IInv, ListInv, SocketInv, SameWorkers, SameSockets
      <3>5. AwayInv'
        BY <1>1, <1>2, <3>2, OnlyIsClient
           DEF IInv, AwayInv, SameWorkers, SameSockets, SameConnections
      <3>6. ModeInv' /\ AbortCauses'
        BY <2>1, <2>3, <2>4, <3>2 DEF ModeInv, AbortCauses, SameWorkers
      <3>7. ToldInv' /\ KeptInv'
        BY <3>1 DEF ToldInv, KeptInv, Loop
      <3>8. StreamInv'
        BY <1>2, <3>2 DEF IInv, StreamInv, SameWorkers, SameStreams
      <3> QED
        BY <3>3, <3>4, <3>5, <3>6, <3>7, <3>8 DEF IInv
    <2>5. CASE ~fails
      <3>1. socklist \in Seq(Clients) /\ ShapeInv /\ ListInv
        BY DEF IInv, ShapeInv
      <3>2. /\ pc' = "sigusr" /\ invoke_new_session(socklist, cmd')
            /\ socklist' = <<>>
        BY <2>2, <2>5
      <3>3. /\ Added(socklist, cmd')
            /\ Formed'
            /\ sessions' \in [Pids -> {"none", "listed", "notifying"}]
        BY <3>1, <3>2, Invoked, Zenon
      <3>4. socklist' \in Seq(Clients) /\ Places' = {}
        BY <3>2 DEF Places
      <3>5. /\ \A i \in Places : Socket(i) \in Clients
            /\ \A i, j \in Places : Socket(i) = Socket(j) => i = j
        BY <3>1 DEF Places, Socket, IInv, SocketInv
      <3>6. PICK old \in Nat : old = forks
        BY <3>1 DEF ShapeInv
      <3>7. /\ \A p \in Pids : Session(p)' # "none" <=> p > old /\ p <= forks'
            /\ \A p \in Pids : p > old /\ p <= forks' =>
                 /\ StateOf(p)' = "idle" /\ ModeOf(p)' = cmd' /\ Told(p)' = FALSE
                 /\ Session(p)' = "listed"
                 /\ p - old \in Places /\ ClientOf(p)' = Socket(p - old)
            /\ \A p \in Pids : ~(p > old /\ p <= forks') => StateOf(p)' = StateOf(p)
        BY <2>1, <3>3, <3>6 DEF Added, Places, Socket
      <3>8. \A i \in Places : \E p \in Pids :
              ClientOf(p)' = Socket(i) /\ StateOf(p)' = "idle"
        BY <3>3, Zenon DEF Added, Places, Socket
      <3>9. ShapeInv'
        BY <1>1, <3>1, <3>3, <3>4 DEF ShapeInv, Added
      <3>10. ListInv'
        <4>1. \A p \in Pids : p > forks' => p > old /\ ~(p <= forks')
          BY <3>1, <3>3, <3>6, BoundsAssumption DEF Added, Pids, ShapeInv
        <4>2. \A p \in Pids : p > forks' => StateOf(p)' = "none"
          BY <3>1, <3>6, <3>7, <4>1 DEF ListInv
        <4>3. \A p \in Pids : Session(p)' # "none" <=> StateOf(p)' \in {"idle", "busy", "zombie"}
          BY <2>1, <3>7
        <4>4. \A p \in Pids : Session(p)' # "none" => ClientOf(p)' \in Clients
          BY <3>5, <3>7
        <4> QED
          BY <3>2, <4>2, <4>3, <4>4, Zenon DEF ListInv
      <3>11. SocketInv'
        <4>1. \A p, q \in Pids :
                Session(p)' # "none" /\ Session(q)' # "none" /\ ClientOf(p)' = ClientOf(q)' => p = q
          <5> TAKE p, q \in Pids
          <5> HAVE Session(p)' # "none" /\ Session(q)' # "none" /\ ClientOf(p)' = ClientOf(q)'
          <5>1. p - old = q - old
            BY <3>5, <3>7
          <5> QED
            BY <5>1, BoundsAssumption DEF Pids
        <4> QED
          BY <3>4, <4>1 DEF SocketInv
      <3>12. AwayInv'
        <4>1. \A c \in Clients : Connection(c) \in {"away", "backlog", "left"} =>
                \A p \in Pids : Session(p)' # "none" => ClientOf(p)' # c
          BY <3>7 DEF IInv, AwayInv
        <4> QED
          BY <1>1, <1>2, <3>4, <4>1, OnlyIsClient DEF IInv, AwayInv, SameConnections
      <3>13. ModeInv' /\ AbortCauses'
        BY <2>1, <2>3, <3>2, <3>7 DEF ModeInv, AbortCauses
      <3>14. ToldInv'
        BY <3>7 DEF ToldInv
      <3>15. KeptInv'
        <4>1. \A c \in Clients : Connection(c) = "open" /\ Stream(c) # "broken" =>
                \E i \in Places : Socket(i) = c
          BY <1>1, <2>1 DEF IInv, KeptInv, Loop
        <4>2. \A c \in Clients : Connection(c) = "open" /\ Stream(c) # "broken" =>
                \E p \in Pids : StateOf(p)' \in {"idle", "busy"} /\ ClientOf(p)' = c
          BY <3>8, <4>1
        <4> QED
          BY <1>2, <3>2, <4>2 DEF KeptInv, SameConnections, SameStreams
      <3>16. StreamInv'
        BY <1>2, <2>1 DEF IInv, StreamInv, SameStreams
      <3> QED
        BY <3>9, <3>10, <3>11, <3>12, <3>13, <3>14, <3>15, <3>16 DEF IInv
    <2> QED
      BY <2>4, <2>5
  <1> QED
    BY <1>3, <1>4

LEMMA SigusrStep == IInv /\ HandleSigusr => IInv'
  <1> SUFFICES ASSUME IInv, HandleSigusr PROVE IInv'
    OBVIOUS
  <1>1. \/ pc' \in {"ppoll", "top"} /\ UNCHANGED <<sessions, worker, socklist>>
        \/ pc' = "ppoll" /\ NotifyWorkers
    BY DEF HandleSigusr
  <1>2. pc = "sigusr" /\ UNCHANGED <<cmd, connect_fd, shot, forks, client, stream, proxy>>
    BY DEF HandleSigusr, envVars
  <1>3. CASE pc' \in {"ppoll", "top"} /\ UNCHANGED <<sessions, worker, socklist>>
    BY <1>2, <1>3, QuietStep DEF Loop
  <1>4. CASE pc' = "ppoll" /\ NotifyWorkers
    <2>1. /\ Formed'
          /\ sessions' \in [Pids -> {"none", "listed", "notifying"}]
          /\ socklist' \in Seq(Clients)
          /\ Notice
      BY <1>4, Notified, Zenon DEF IInv
    <2>2. SameConnections /\ SameStreams
      BY <1>2, Same
    <2>3. ShapeInv'
      BY <1>2, <2>1 DEF IInv, ShapeInv
    <2>4. \A q \in Pids : Session(q) \in {"none", "listed", "notifying"}
      BY Zenon DEF IInv, ShapeInv, Session
    <2>5. ListInv'
      BY <1>2, <1>4, <2>1, Zenon DEF IInv, ListInv, Notice
    <2>6. SocketInv'
      BY <2>1 DEF IInv, SocketInv, Notice
    <2>7. AwayInv'
      <3>1. \A c \in Clients : Connection(c) \in {"away", "backlog", "left"} =>
              \A i \in Places' : Socket(i)' # c
        BY <2>1 DEF IInv, AwayInv, Notice
      <3> QED
        BY <1>2, <2>1, <2>2, <3>1, OnlyIsClient DEF IInv, AwayInv, Notice, SameConnections
    <2>8. ModeInv' /\ AbortCauses'
      BY <1>2, <1>4, <2>1 DEF IInv, ModeInv, AbortCauses, Notice
    <2>9. ToldInv'
      <3>1. \A p \in Pids : Session(p)' # "none" =>
              Session(p)' = "notifying" /\ \E i \in Places' : Socket(i)' = ClientOf(p)'
        BY <1>2, <2>1, <2>4 DEF IInv, ToldInv, Loop, Notice
      <3> QED
        BY <3>1, Zenon DEF ToldInv
    <2>10. KeptInv'
      BY <1>2, <1>4, <2>1, <2>2 DEF IInv, KeptInv, Loop, Notice, SameConnections, SameStreams
    <2>11. StreamInv'
      BY <2>1, <2>2 DEF IInv, StreamInv, Notice, SameStreams
    <2> QED
      BY <2>3, <2>5, <2>6, <2>7, <2>8, <2>9, <2>10, <2>11 DEF IInv
  <1> QED
    BY <1>1, <1>3, <1>4

\* The end of the master: the first worker is told and waited for.
LEMMA ShutdownStep == IInv /\ (ShutdownTell \/ ShutdownWait \/ Shutdown) => IInv'
  <1> SUFFICES ASSUME IInv, ShutdownTell \/ ShutdownWait \/ Shutdown PROVE IInv'
    OBVIOUS
  <1>1. CASE ShutdownTell
    <2>1. PICK p \in Pids : worker' = [worker EXCEPT ![p].told = TRUE]
      BY <1>1, Zenon DEF ShutdownTell, Listed
    <2>2. /\ Formed'
          /\ \A q \in Pids : /\ ClientOf(q)' = ClientOf(q) /\ ModeOf(q)' = ModeOf(q)
                             /\ StateOf(q)' = StateOf(q)
      BY <2>1, ToldStep, Zenon DEF IInv
    <2>3. /\ pc = "shutdown"
          /\ UNCHANGED <<pc, cmd, connect_fd, socklist, shot, sessions, forks, client, stream, proxy>>
      BY <1>1, Zenon DEF ShutdownTell, masterVars, restartVars, envVars
    <2>4. SameStreams /\ ClientsGoOn
      BY <2>3, Same DEF IInv, ShapeInv, ClientsGoOn, SameConnections
    <2>5. ListedInv'
      <3>1. WorkersGoOn /\ MasterSame
        BY <2>2, <2>3 DEF WorkersGoOn, MasterSame
      <3> QED BY <2>4, <3>1, ListedKept, Zenon
    <2>6. KeptInv'
      BY <2>3 DEF KeptInv, Loop
    <2>7. StreamInv'
      BY <2>2, <2>4 DEF IInv, StreamInv, SameStreams
    <2> QED
      BY <2>5, <2>6, <2>7 DEF IInv, ListedInv
  <1>2. CASE ShutdownWait
    <2>1. PICK f \in Pids : /\ worker[f].state = "zombie"
                            /\ worker' = [worker EXCEPT ![f] = Buried]
                            /\ sessions' = [sessions EXCEPT ![f] = "none"]
      BY <1>2, Zenon DEF ShutdownWait, Listed
    <2>0. {f} \in SUBSET Pids
      OBVIOUS
    <2>2. PICK P \in SUBSET Pids : P = {f}
      BY <2>0, Zenon
    <2>3. /\ DOMAIN worker' = Pids /\ sessions' \in [Pids -> {"none", "listed", "notifying"}]
          /\ \A p \in Pids : /\ worker'[p] = IF p \in P THEN Buried ELSE worker[p]
                             /\ sessions'[p] = IF p \in P THEN "none" ELSE sessions[p]
      BY <2>1, <2>2 DEF IInv, ShapeInv, Formed
    <2>7. Formed' /\ Waited(P)
      BY <2>3, WaitedFor, Zenon DEF IInv
    <2>4. \A p \in P : StateOf(p) = "zombie"
      BY <2>1, <2>2, Zenon DEF StateOf
    <2>5. /\ pc = "shutdown" /\ pc' = "shutdown"
          /\ UNCHANGED <<cmd, connect_fd, socklist, shot, forks, client, stream, proxy>>
      BY <1>2 DEF ShutdownWait, masterVars, restartVars, envVars
    <2>6. /\ pc \in Loop \/ pc' \notin Loop
          /\ pc' \notin {"start", "sigactions"} /\ pc' # "aborted"
      BY <2>5 DEF Loop
    <2> QED
      BY <2>3, <2>4, <2>5, <2>6, <2>7, WaitStep, Zenon
  <1>3. CASE Shutdown
    <2>1. /\ pc' \in {"aborted", "done"} /\ (pc' = "aborted" => proxy' = "dead")
          /\ UNCHANGED <<cmd, connect_fd, socklist, shot, worker, sessions, forks, client, stream>>
      BY <1>3 DEF Shutdown, restartVars, sesVars, envVars
    <2> QED
      BY <2>1, QuietStep DEF Loop
  <1> QED
    BY <1>1, <1>2, <1>3

\* What a worker does to the connection it serves: it receives, replies, ends or
\* fails.
Served(p, c) ==
  /\ \A d \in Clients : d # c => Stream(d)' = Stream(d)
  /\ \/ StateOf(p)' = "busy" /\ Stream(c)' = "mid"
     \/ StateOf(p)' = "idle" /\ Stream(c)' = "boundary"
     \/ /\ StateOf(p)' = "zombie" /\ StateOf(p) = "idle" /\ Stream(c)' = Stream(c)
        /\ Told(p) \/ pc = "aborted" \/ Connection(c) = "closed" \/ Stream(c) = "broken"
     \/ StateOf(p)' = "zombie" /\ Stream(c)' = "broken"

LEMMA Serves ==
  ASSUME ShapeInv, NEW p \in Pids, NEW c \in Clients, c = worker[p].client, WorkerStep(p)
  PROVE  DOMAIN stream' = Clients /\ Served(p, c)
  <1>1. CASE WorkerReceive(p)
    <2>1. StateOf(p)' = "busy"
      BY <1>1, OneWorkerStep, Zenon DEF WorkerReceive
    <2>2. stream' = [stream EXCEPT ![c] = "mid"]
      BY <1>1, Zenon DEF WorkerReceive
    <2> QED
      BY <2>1, <2>2 DEF Served, Stream, ShapeInv
  <1>2. CASE WorkerReply(p)
    <2>1. StateOf(p)' = "idle"
      BY <1>2, OneWorkerStep, Zenon DEF WorkerReply
    <2>2. stream' = [stream EXCEPT ![c] = "boundary"]
      BY <1>2, Zenon DEF WorkerReply
    <2> QED
      BY <2>1, <2>2 DEF Served, Stream, ShapeInv
  <1>3. CASE WorkerEnd(p)
    <2>1. StateOf(p)' = "zombie"
      BY <1>3, OneWorkerStep, Zenon DEF WorkerEnd, Gone
    <2>2. stream' = stream /\ StateOf(p) = "idle"
      BY <1>3, Zenon DEF WorkerEnd, envVars, StateOf
    <2>3. Told(p) \/ pc = "aborted" \/ Connection(c) = "closed" \/ Stream(c) = "broken"
      BY <1>3 DEF WorkerEnd, Told, Connection, Stream
    <2>4. SameStreams /\ DOMAIN stream' = Clients
      BY <2>2, Same, Zenon DEF ShapeInv
    <2> QED
      BY <2>1, <2>2, <2>3, <2>4 DEF Served, SameStreams
  <1>4. CASE WorkerError(p)
    <2>1. StateOf(p)' = "zombie"
      BY <1>4, OneWorkerStep, Zenon DEF WorkerError, Gone
    <2>2. stream' = [stream EXCEPT ![c] = "broken"]
      BY <1>4 DEF WorkerError
    <2> QED
      BY <2>1, <2>2 DEF Served, Stream, ShapeInv
  <1> QED
    BY <1>1, <1>2, <1>3, <1>4, Zenon DEF WorkerStep

LEMMA WorkersStep == ASSUME IInv, NEW p \in Pids, WorkerStep(p) PROVE IInv'
  <1>1. UNCHANGED <<pc, cmd, connect_fd, socklist, shot, sessions, forks, client, proxy>>
    BY DEF WorkerStep, WorkerReceive, WorkerReply, WorkerEnd, WorkerError,
           masterVars, restartVars, envVars
  <1>2. StateOf(p) \in {"idle", "busy"}
    BY DEF WorkerStep, WorkerReceive, WorkerReply, WorkerEnd, WorkerError, StateOf
  <1>3. PICK v \in {"idle", "busy", "zombie"} :
            \/ worker' = [worker EXCEPT ![p].state = v]
            \/ worker' = [worker EXCEPT ![p].state = v, ![p].holds = {}]
    BY Zenon DEF WorkerStep, WorkerReceive, WorkerReply, WorkerEnd, WorkerError, Gone
  <1>4. /\ Formed'
        /\ \A q \in Pids : /\ ClientOf(q)' = ClientOf(q) /\ ModeOf(q)' = ModeOf(q)
                           /\ Told(q)' = Told(q) /\ (q # p => StateOf(q)' = StateOf(q))
        /\ StateOf(p)' = v
    BY <1>3, OneWorkerStep, Zenon DEF IInv
  <1>5. StateOf(p)' \in {"idle", "busy", "zombie"}
    BY <1>3, <1>4
  <1>6. Session(p) # "none" /\ ClientOf(p) \in Clients
    BY <1>2 DEF IInv, ListInv
  <1>7. PICK c \in Clients : c = worker[p].client /\ c = ClientOf(p)
    BY <1>6 DEF ClientOf
  <1>8. DOMAIN stream' = Clients /\ Served(p, c)
    BY <1>7, Serves, Zenon DEF IInv
  <1>9. SameSockets /\ SameConnections /\ \A q \in Pids : Session(q)' = Session(q)
    BY <1>1, Same DEF Session
  <1>10. ListedInv'
    <2>1. WorkersGoOn /\ MasterSame
      BY <1>1, <1>2, <1>4, <1>5, Zenon DEF WorkersGoOn, MasterSame
    <2>2. ClientsGoOn
      BY <1>1, <1>8, <1>9 DEF IInv, ShapeInv, ClientsGoOn, SameConnections
    <2> QED BY <2>1, <2>2, ListedKept, Zenon
  <1>11. KeptInv'
    <2>1. ASSUME pc \in Loop \cup {"sigactions"}, NEW d \in Clients,
                 Connection(d) = "open", Stream(d)' # "broken"
          PROVE  \/ \E i \in Places : Socket(i) = d
                 \/ \E q \in Pids : StateOf(q)' \in {"idle", "busy"} /\ ClientOf(q)' = d
      <3>1. CASE d # c
        <4>1. Stream(d) # "broken"
          BY <1>8, <2>1, <3>1, Zenon DEF Served
        <4>2. \/ \E i \in Places : Socket(i) = d
              \/ \E q \in Pids : StateOf(q) \in {"idle", "busy"} /\ ClientOf(q) = d
          BY <2>1, <4>1 DEF IInv, KeptInv
        <4> QED
          BY <1>4, <1>7, <3>1, <4>2
      <3>2. CASE d = c /\ StateOf(p)' \in {"idle", "busy"}
        BY <1>4, <1>7, <3>2
      <3>3. CASE d = c /\ StateOf(p)' = "zombie"
        <4>1. Told(p)
          BY <1>8, <2>1, <3>3 DEF Loop, Served
        <4> QED
          BY <1>6, <1>7, <2>1, <3>3, <4>1 DEF IInv, ToldInv
      <3> QED
        BY <1>5, <3>1, <3>2, <3>3
    <2>2. pc = "start" => \A d \in Clients : Connection(d) = "open" => connect_fd /\ d = OnlyClient
      BY DEF IInv, KeptInv
    <2> QED
      BY <1>1, <1>9, <2>1, <2>2 DEF KeptInv, SameSockets, SameConnections
  <1>12. StreamInv'
    <2> SUFFICES ASSUME NEW d \in Clients, Stream(d)' = "mid"
                 PROVE  \E q \in Pids : StateOf(q)' = "busy" /\ ClientOf(q)' = d
      BY Zenon DEF StreamInv
    <2>1. CASE d # c
      <3>1. Stream(d) = "mid"
        BY <1>8, <2>1 DEF Served
      <3> QED
        BY <1>4, <1>7, <2>1, <3>1 DEF IInv, StreamInv
    <2>2. CASE d = c /\ StateOf(p)' = "busy"
      BY <1>4, <1>7, <2>2
    <2>3. CASE d = c /\ StateOf(p)' # "busy"
      <3>1. Stream(c) = "mid" /\ StateOf(p) = "idle"
        BY <1>8, <2>3 DEF Served
      <3>2. PICK q \in Pids : StateOf(q) = "busy" /\ ClientOf(q) = c
        BY <3>1, Zenon DEF IInv, StreamInv
      <3>3. q = p
        BY <1>6, <1>7, <3>2 DEF IInv, ListInv, SocketInv
      <3> QED
        BY <3>1, <3>2, <3>3, Zenon
    <2> QED
      BY <2>1, <2>2, <2>3
  <1> QED
    BY <1>10, <1>11, <1>12 DEF IInv, ListedInv

\* Clients come and go.
LEMMA ClientStep ==
  ASSUME IInv, NEW c \in Clients, Connect(c) \/ Disconnect(c) PROVE IInv'
  <1>1. UNCHANGED <<pc, cmd, connect_fd, socklist, shot, sessions, worker, forks, stream, proxy>>
    BY Zenon DEF Connect, Disconnect, masterVars, restartVars, sesVars
  <1>2. /\ DOMAIN client' = Clients
        /\ \A d \in Clients : d # c => Connection(d)' = Connection(d)
        /\ \/ Connection(c) = "away" /\ Connection(c)' = "backlog" /\ ~connect_fd
           \/ Connection(c) = "backlog" /\ Connection(c)' = "left"
           \/ Connection(c) = "open" /\ Connection(c)' = "closed"
    BY DEF Connect, Disconnect, IInv, ShapeInv, Connection
  <1>3. SameWorkers /\ SameSockets /\ SameStreams
    BY <1>1, Same
  <1>4. ListedInv'
    <2>1. WorkersGoOn /\ MasterSame
      BY <1>1, <1>3, Zenon DEF IInv, ShapeInv, Formed, SameWorkers, WorkersGoOn, MasterSame
    <2>2. ClientsGoOn
      BY <1>1, <1>2 DEF IInv, ShapeInv, ClientsGoOn
    <2> QED BY <2>1, <2>2, ListedKept, Zenon
  <1>5. KeptInv'
    <2>1. \A d \in Clients : Connection(d)' = "open" => Connection(d) = "open"
      BY <1>2
    <2> QED
      BY <1>1, <1>3, <2>1 DEF IInv, KeptInv, SameWorkers, SameSockets, SameStreams
  <1>6. StreamInv'
    BY <1>3 DEF IInv, StreamInv, SameWorkers, SameStreams
  <1> QED
    BY <1>4, <1>5, <1>6 DEF IInv, ListedInv

LEMMA StepInv == IInv /\ [Next]_vars => IInv'
  <1> SUFFICES ASSUME IInv, [Next]_vars PROVE IInv'
    OBVIOUS
  <1>1. ASSUME set_sigactions \/ NeedExit \/ PpollSignal PROVE IInv'
    <2>1. /\ pc' \in {"top", "reap", "shutdown"} /\ pc \in Loop \cup {"sigactions"}
          /\ UNCHANGED <<cmd, connect_fd, socklist, shot, worker, sessions, forks, client, stream>>
      BY <1>1 DEF set_sigactions, NeedExit, PpollSignal, restartVars, sesVars, envVars, Loop
    <2> QED
      BY <2>1, QuietStep, Zenon
  <1>2. ASSUME \/ ProxyDies \/ UNCHANGED vars
               \/ \E signal \in {"USR1", "USR2", "TERM"} : SendSignal(signal)
        PROVE IInv'
    <2>1. /\ pc' = pc /\ (proxy = "dead" => proxy' = "dead")
          /\ UNCHANGED <<cmd, connect_fd, socklist, shot, worker, sessions, forks, client, stream>>
      BY <1>2 DEF ProxyDies, SendSignal, vars, masterVars, restartVars, sesVars, envVars
    <2>2. pc' = "aborted" => proxy' = "dead" \/ shot' = "clash"
      BY <2>1 DEF IInv, AbortCauses
    <2> QED
      BY <2>1, <2>2, QuietStep
  <1> QED
    BY <1>1, <1>2, StartStep, AcceptStep, ReapStep, RestartStep, SigusrStep, ShutdownStep,
       WorkersStep, ClientStep
       DEF Next, MasterStep, Environment, Waiting

-----------------------------------------------------------------------------
(* The theorems *)

LEMMA Invariant == Spec => []IInv
  BY InitInv, StepInv, PTL DEF Spec

LEMMA RunningState ==
  Running \subseteq Pids /\ \A p \in Pids : p \in Running <=> StateOf(p) \in {"idle", "busy"}
  BY DEF Running, StateOf

\* No client is served by two workers, whatever signals and connections arrive
\* while the master restarts its sessions.
THEOREM OneWorkerEach == Spec => []OneWorker
  <1>1. IInv => \A p, q \in Running : ClientOf(p) = ClientOf(q) => p = q
    BY RunningState DEF IInv, ListInv, SocketInv
  <1>2. IInv => OneWorker
    BY <1>1 DEF OneWorker, ClientOf
  <1> QED
    BY <1>2, Invariant, PTL

\* A snapshot is taken and the mode is changed only while no worker runs, and no
\* worker runs in another mode than the master.
THEOREM RestartsExclusive == Spec => []RestartExclusive
  <1>1. IInv => RestartExclusive
    BY RunningState DEF IInv, ModeInv, ModeOf, RestartExclusive
  <1> QED
    BY <1>1, Invariant, PTL

\* While the master is in its loop every open connection has a worker or a
\* preserved socket, unless a worker failed on one of its requests.
THEOREM NobodyLost == Spec => []ClientsKept
  <1>1. IInv => (pc \in Loop => \A c \in Clients :
          Connection(c) = "open" /\ Stream(c) # "broken" =>
            \/ \E i \in Places : Socket(i) = c
            \/ \E p \in Running : ClientOf(p) = c)
    BY RunningState DEF IInv, KeptInv
  <1>2. \A i \in Places : Socket(i) \in PreservedSockets
    BY Zenon DEF PreservedSockets, Places, Socket
  <1>3. IInv => ClientsKept
    BY <1>1, <1>2, Zenon DEF ClientsKept, Connection, Stream, ClientOf
  <1> QED
    BY <1>3, Invariant, PTL

\* A worker that waits for a request finds the beginning of one, also when it
\* took the socket over from a worker that was told to end.
THEOREM RequestsWhole == Spec => []ResumesAtRequest
  <1>1. IInv => \A p \in Running : StateOf(p) = "idle" => Stream(ClientOf(p)) # "mid"
    BY RunningState DEF IInv, ListInv, SocketInv, StreamInv
  <1>2. IInv => ResumesAtRequest
    BY <1>1 DEF ResumesAtRequest, StateOf, Stream, ClientOf
  <1> QED
    BY <1>2, Invariant, PTL

\* The master gives up only when the proxy process died or two snapshots fall
\* into one second: every child it waits for is in its list.
THEOREM AbortsExplained == Spec => []AbortCauses
  <1>1. IInv => AbortCauses
    BY DEF IInv
  <1> QED
    BY <1>1, Invariant, PTL

=============================================================================
