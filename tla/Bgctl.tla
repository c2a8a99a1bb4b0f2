------------------------------- MODULE Bgctl -------------------------------
(***************************************************************************)
(* xnbd-bgctl (xnbd_bgctl.c) and the proxy it talks to over the control    *)
(* socket.  One xnbd-bgctl caches all blocks, with a thread that sends     *)
(* CACHE requests and one that receives the replies, joined by a queue of  *)
(* limited size; another one may switch the server to the target mode at   *)
(* any time.  They read the bitmap of the proxy from its file, while the   *)
(* proxy sets bits in it.                                                  *)
(***************************************************************************)
EXTENDS Integers, Sequences, FiniteSets

CONSTANTS
  nblocks,          \* blocks of the disk
  mapped_bits,      \* bits of the bitmap file that can be read without a fault
  blocks_at_once,   \* --blocks-per-request
  SHARED_NBLOCKS,   \* XNBD_SHARED_BUFF_NBLOCKS
  max_size,         \* XNBD_BGCTL_DEFAULT_ASYNC_DEPTH
  SockSize,         \* requests, or replies, that a socket buffer holds
  QueSize,          \* --max-queue-size of the proxy
  Commands,         \* what the first xnbd-bgctl is called for
  force             \* --force, of --switch

ASSUME DiskAssumption == nblocks \in Nat \ {0} /\ mapped_bits \in Nat
ASSUME SizesAssumption ==
  {blocks_at_once, SHARED_NBLOCKS, max_size, SockSize, QueSize} \subseteq Nat \ {0}
ASSUME CommandsAssumption == 
  Commands \subseteq {"cache_all", "cache_all2"} /\ force \in BOOLEAN

Blocks == 0 .. nblocks - 1
Items == {"remote_first", "remote_later", "cached", "eof"}

VARIABLES
  bm,          \* the blocks marked in the bitmap file
  proxy,       \* the proxy process: "up", "stopping", "down"
  shared_buff, \* the proxy has a shared buffer
  backlog,     \* commands on the control socket not accepted yet
  session,     \* the proxy session of the CACHE requests
  ctl_req,     \* requests on their way to the proxy
  ctl_rep,     \* how many replies are on their way back
  fwd,         \* requests inside the proxy
  cmd,         \* the command of the first xnbd-bgctl
  main,        \* its main thread
  rx,          \* its cache_rx thread
  q,           \* the queue between them, oldest first
  progress,    \* blocks_from_remote, blocks_from_cache
  switch,      \* the second xnbd-bgctl: xnbd-bgctl --switch
  usr2         \* SIGUSR2 was sent to the master

proxyVars == <<proxy, shared_buff, session, fwd>>
sockVars == <<backlog, ctl_req, ctl_rep>>
cacheVars == <<cmd, main, rx, q, progress>>
vars == <<bm, proxyVars, sockVars, cacheVars, switch, usr2>>

Least(a, b) == IF a < b THEN a ELSE b

At(step) == main.pc = step
Move(step) == main' = [main EXCEPT !.pc = step]

\* err() in any thread ends the process.
Err == main' = [main EXCEPT !.pc = "error"] /\ rx' = "dead"

-----------------------------------------------------------------------------
(* The queue of limited size *)

\* sized_async_queue_push() of the head of main.todo.  The thread waits on
\* cond_push while the queue is full; cond_pop is signalled at every push.
Push ==
  /\ At("push")
  /\ IF main.todo = <<>>
     THEN Move(main.then) /\ UNCHANGED <<q, rx>>
     ELSE IF Len(q) < max_size
     THEN /\ q' = Append(q, Head(main.todo))
          /\ main' = [main EXCEPT !.todo = Tail(@)]
          /\ rx' = IF rx = "cond_pop" THEN "pop" ELSE rx
     ELSE Move("cond_push") /\ UNCHANGED <<q, rx>>
  /\ UNCHANGED <<bm, proxyVars, sockVars, cmd, progress, switch, usr2>>

\* What the receiver does with an item it took from the queue.
AfterPop(item) ==
  CASE item = "eof" -> "done"
    [] item = "remote_first" -> "recv_header"
    [] OTHER -> "pop"

Counted_AtPop(item) ==
  IF item = "cached" THEN [progress EXCEPT !.cache = @ + 1]
  ELSE IF item = "eof" THEN progress
  ELSE [progress EXCEPT !.remote = @ + 1]

\* The first block of a request is counted when its reply was received.
Counted(item) ==
  CASE item = "remote_later" -> [progress EXCEPT !.remote = @ + 1]
    [] item = "cached" -> [progress EXCEPT !.cache = @ + 1]
    [] OTHER -> progress

Pop_NoSignal ==
  /\ rx = "pop"
  /\ IF q = <<>>
     THEN rx' = "cond_pop" /\ UNCHANGED <<q, progress>>
     ELSE /\ q' = Tail(q)
          /\ rx' = AfterPop(Head(q))
          /\ progress' = Counted(Head(q))
  /\ UNCHANGED <<bm, proxyVars, sockVars, cmd, main, switch, usr2>>

\* sized_async_queue_pop(), and the receiver's loop up to the next pop.
Pop ==
  /\ rx = "pop"
  /\ IF q = <<>>
     THEN rx' = "cond_pop" /\ UNCHANGED <<q, progress, main>>
     ELSE /\ q' = Tail(q)
          /\ rx' = AfterPop(Head(q))
          /\ progress' = Counted(Head(q))
          /\ main' = IF At("cond_push") /\ Len(q) - 1 < max_size
                     THEN [main EXCEPT !.pc = "push"] ELSE main
  /\ UNCHANGED <<bm, proxyVars, sockVars, cmd, switch, usr2>>

\* g_cond_wait() may return without a signal.
SpuriousWakeup ==
  /\ \/ At("cond_push") /\ Move("push") /\ UNCHANGED rx
     \/ rx = "cond_pop" /\ rx' = "pop" /\ UNCHANGED main
  /\ UNCHANGED <<bm, proxyVars, sockVars, cmd, q, progress, switch, usr2>>

-----------------------------------------------------------------------------
(* cache_all_blocks_receiver_main() *)

RecvHeader ==
  /\ rx = "recv_header"
  /\ IF ctl_rep > 0
     THEN /\ ctl_rep' = ctl_rep - 1
          /\ progress' = [progress EXCEPT !.remote = @ + 1]
          /\ rx' = "pop"
          /\ UNCHANGED main
     ELSE /\ proxy = "down"
          /\ Err
          /\ UNCHANGED <<ctl_rep, progress>>
  /\ UNCHANGED <<bm, proxyVars, backlog, ctl_req, cmd, q, switch, usr2>>

-----------------------------------------------------------------------------
(* cache_all_blocks_async() *)

\* connect() and a command; the process exits when there is no proxy.
Connect(command, next) ==
  IF proxy = "down" THEN Err /\ UNCHANGED backlog
  ELSE /\ backlog' = backlog \o command
       /\ Move(next)
       /\ UNCHANGED rx

\* create_proxy_query() waits for the answer.
QueryStatus ==
  /\ At("query")
  /\ Connect(<<"query">>, "answer")
  /\ UNCHANGED <<bm, proxyVars, ctl_req, ctl_rep, cmd, q, progress, switch, usr2>>

QueryFails ==
  /\ At("answer") /\ proxy = "down"
  /\ Err
  /\ UNCHANGED <<bm, proxyVars, sockVars, cmd, q, progress, switch, usr2>>

\* start_register_fd() does not wait; the receiver thread starts.
StartRegisterFd ==
  /\ At("register")
  /\ IF proxy = "down" THEN Err /\ UNCHANGED backlog
     ELSE /\ backlog' = Append(backlog, "register")
          /\ main' = [main EXCEPT !.pc = "window", !.index = 0]
          /\ rx' = IF cmd = "cache_all" THEN "pop" ELSE rx
  /\ UNCHANGED <<bm, proxyVars, ctl_req, ctl_rep, cmd, q, progress, switch, usr2>>

\* The windows of blocks_at_once blocks, or of the shared buffer.
WindowSize == IF cmd = "cache_all" THEN blocks_at_once ELSE SHARED_NBLOCKS
AFTER_LAST_MAX == Least(main.index + WindowSize, nblocks)

Window_FullOnly ==
  /\ At("window")
  /\ main' =
       IF main.index + WindowSize <= nblocks
       THEN [main EXCEPT !.first = main.index, !.pc =
               IF cmd = "cache_all" THEN "while" ELSE "all_cached"]
       ELSE IF cmd = "cache_all"
            THEN [main EXCEPT !.pc = "push", !.todo = <<"eof">>, !.then = "join"]
            ELSE [main EXCEPT !.pc = "disc"]
  /\ UNCHANGED <<bm, proxyVars, sockVars, cmd, rx, q, progress, switch, usr2>>

\* The next window, short at the end of the disk, or the end of the loop.
Window ==
  /\ At("window")
  /\ main' =
       IF main.index < nblocks
       THEN [main EXCEPT !.first = main.index, !.pc =
               IF cmd = "cache_all" THEN "while" ELSE "all_cached"]
       ELSE IF cmd = "cache_all"
            THEN [main EXCEPT !.pc = "push", !.todo = <<"eof">>, !.then = "join"]
            ELSE [main EXCEPT !.pc = "disc"]
  /\ UNCHANGED <<bm, proxyVars, sockVars, cmd, rx, q, progress, switch, usr2>>

While ==
  /\ At("while")
  /\ main' = IF main.first < AFTER_LAST_MAX
             THEN [main EXCEPT !.pc = "uncached", !.after_last = main.first]
             ELSE [main EXCEPT !.pc = "window", !.index = @ + blocks_at_once]
  /\ UNCHANGED <<bm, proxyVars, sockVars, cmd, rx, q, progress, switch, usr2>>

\* bitmap_test() comes before the comparison of the index: at the end of the
\* disk it reads past the last bit, and faults where nothing is mapped.
Faults(i) == i >= mapped_bits

ScanUncached ==
  /\ At("uncached")
  /\ IF Faults(main.after_last)
     THEN Err
     ELSE /\ main' = IF main.after_last \notin bm /\ main.after_last < AFTER_LAST_MAX
                     THEN [main EXCEPT !.after_last = @ + 1]
                     ELSE [main EXCEPT !.pc = "send"]
          /\ UNCHANGED rx
  /\ UNCHANGED <<bm, proxyVars, sockVars, cmd, q, progress, switch, usr2>>

\* A CACHE request for the blocks first .. after_last - 1, and an item of the
\* queue for each of them.
SendCache ==
  /\ At("send")
  /\ IF main.after_last = main.first
     THEN Move("cached") /\ UNCHANGED <<ctl_req, rx>>
     ELSE IF proxy = "down" THEN Err /\ UNCHANGED ctl_req
     ELSE /\ Len(ctl_req) < SockSize
          /\ ctl_req' = Append(ctl_req, main.first .. main.after_last - 1)
          /\ main' = [main EXCEPT !.pc = "push", !.then = "cached", !.todo =
               [k \in 1 .. main.after_last - main.first |->
                  IF k = 1 THEN "remote_first" ELSE "remote_later"]]
          /\ UNCHANGED rx
  /\ UNCHANGED <<bm, proxyVars, backlog, ctl_rep, cmd, q, progress, switch, usr2>>

\* The loop over cached blocks moves first from after_last on.
ScanCached ==
  /\ At("cached")
  /\ LET first == IF main.first < main.after_last THEN main.after_last
                  ELSE main.first
     IN  IF Faults(first)
         THEN Err
         ELSE /\ main' = IF first \in bm /\ first < AFTER_LAST_MAX
                         THEN [main EXCEPT !.first = first + 1]
                         ELSE [main EXCEPT !.first = first, !.pc = "push",
                                 !.then = "while", !.todo =
                                 [k \in 1 .. first - main.after_last |-> "cached"]]
              /\ UNCHANGED rx
  /\ UNCHANGED <<bm, proxyVars, sockVars, cmd, q, progress, switch, usr2>>

Join ==
  /\ At("join") /\ rx = "done"
  /\ Move("disc")
  /\ UNCHANGED <<bm, proxyVars, sockVars, cmd, rx, q, progress, switch, usr2>>

\* end_register_fd(): DISC, then the byte by which the proxy says that the
\* session is cleaned up.
EndRegisterFd ==
  /\ \/ /\ At("disc")
        /\ IF proxy = "down" THEN UNCHANGED ctl_req
           ELSE Len(ctl_req) < SockSize /\ ctl_req' = Append(ctl_req, {})
        /\ Move("ended")
        /\ UNCHANGED rx
     \/ /\ At("ended") /\ session = "ended"
        /\ Move("done")
        /\ UNCHANGED <<ctl_req, rx>>
     \/ /\ At("ended") /\ session # "ended" /\ proxy = "down"
        /\ Err
        /\ UNCHANGED ctl_req
  /\ UNCHANGED <<bm, proxyVars, backlog, ctl_rep, cmd, q, progress, switch, usr2>>

-----------------------------------------------------------------------------
(* cache_all_blocks_with_dedicated_connection() *)

\* The remote server is connected, and the shared buffer handed over.
SetupSharedBuffer ==
  /\ At("setup")
  /\ Connect(<<"shared_buffer">>, "register")
  /\ UNCHANGED <<bm, proxyVars, ctl_req, ctl_rep, cmd, q, progress, switch, usr2>>

\* cache_block_range(): a window that is not cached as a whole is read from the
\* remote server, and the proxy is asked to cache it.
AllCached ==
  /\ At("all_cached")
  /\ IF main.first < AFTER_LAST_MAX /\ main.first \in bm
     THEN main' = [main EXCEPT !.first = @ + 1] /\ UNCHANGED <<ctl_req, rx>>
     ELSE IF main.first = AFTER_LAST_MAX
     THEN /\ main' = [main EXCEPT !.pc = "window", !.index = @ + SHARED_NBLOCKS]
          /\ UNCHANGED <<ctl_req, rx>>
     ELSE IF proxy = "down" THEN Err /\ UNCHANGED ctl_req
     ELSE /\ ctl_req' = Append(ctl_req, main.index .. AFTER_LAST_MAX - 1)
          /\ Move("reply")
          /\ UNCHANGED rx
  /\ UNCHANGED <<bm, proxyVars, backlog, ctl_rep, cmd, q, progress, switch, usr2>>

CacheReply ==
  /\ At("reply")
  /\ IF ctl_rep > 0
     THEN /\ ctl_rep' = ctl_rep - 1
          /\ main' = [main EXCEPT !.pc = "window", !.index = @ + SHARED_NBLOCKS]
          /\ UNCHANGED rx
     ELSE /\ proxy = "down"
          /\ Err
          /\ UNCHANGED ctl_rep
  /\ UNCHANGED <<bm, proxyVars, backlog, ctl_req, cmd, q, progress, switch, usr2>>

-----------------------------------------------------------------------------
(* The proxy *)

\* main_loop(): one connection of the control socket.
ProxyAccept ==
  /\ proxy # "down" /\ backlog # <<>>
  /\ backlog' = Tail(backlog)
  /\ session' = IF Head(backlog) = "register" THEN "active" ELSE session
  /\ shared_buff' = (shared_buff \/ Head(backlog) = "shared_buffer")
  /\ main' = IF Head(backlog) = "query" /\ At("answer")
             THEN [main EXCEPT !.pc =
                     IF cmd = "cache_all" THEN "register" ELSE "setup"]
             ELSE main
  /\ switch' = CASE Head(backlog) = "switch_query" ->
                      [switch EXCEPT !.pc = "popcount"]
                 [] Head(backlog) = "detect_switch" ->
                      [switch EXCEPT !.monitor = "open"]
                 [] OTHER -> switch
  /\ UNCHANGED <<bm, proxy, ctl_req, ctl_rep, fwd, cmd, rx, q, progress, usr2>>

\* main_loop() returns when the master asks for it, after a last connection.
ProxyExit ==
  /\ proxy = "stopping"
  /\ proxy' = "down"
  /\ switch' = [switch EXCEPT !.monitor = "closed"]
  /\ UNCHANGED <<bm, shared_buff, session, fwd, sockVars, cacheVars, usr2>>

\* The rx thread of the session, held back by --max-queue-size; on DISC the
\* session is cleaned up once its requests are through.
ProxyReceive ==
  /\ proxy # "down" /\ session = "active" /\ ctl_req # <<>>
  /\ IF Head(ctl_req) = {}
     THEN fwd = <<>> /\ session' = "ended" /\ UNCHANGED fwd
     ELSE Len(fwd) < QueSize /\ fwd' = Append(fwd, Head(ctl_req)) /\ UNCHANGED session
  /\ ctl_req' = Tail(ctl_req)
  /\ UNCHANGED <<bm, proxy, shared_buff, backlog, ctl_rep, cacheVars, switch, usr2>>

\* The forwarder marks the blocks, the tx thread sends the reply.
ProxyMark ==
  /\ proxy # "down" /\ fwd # <<>> /\ ~(Head(fwd) \subseteq bm)
  /\ bm' = bm \cup Head(fwd)
  /\ UNCHANGED <<proxyVars, sockVars, cacheVars, switch, usr2>>

ProxyReply ==
  /\ proxy # "down" /\ fwd # <<>> /\ Head(fwd) \subseteq bm
  /\ ctl_rep < SockSize
  /\ ctl_rep' = ctl_rep + 1
  /\ fwd' = Tail(fwd)
  /\ UNCHANGED <<bm, proxy, shared_buff, session, backlog, ctl_req, cacheVars, switch,
                 usr2>>

\* Another session reads or writes a block.
OtherSession ==
  /\ proxy = "up"
  /\ \E b \in Blocks \ bm : bm' = bm \cup {b}
  /\ UNCHANGED <<proxyVars, sockVars, cacheVars, switch, usr2>>

\* The master ends the workers and stops the proxy: it was told to switch, or
\* somebody ends the server.
MasterSwitches ==
  /\ usr2 /\ proxy = "up"
  /\ proxy' = "stopping"
  /\ UNCHANGED <<bm, shared_buff, session, fwd, sockVars, cacheVars, switch, usr2>>

ServerEnds ==
  /\ ~usr2 /\ proxy = "up"
  /\ proxy' = "stopping"
  /\ UNCHANGED <<bm, shared_buff, session, fwd, sockVars, cacheVars, switch, usr2>>

-----------------------------------------------------------------------------
(* xnbd-bgctl --switch *)

SwitchErr == switch' = [switch EXCEPT !.pc = "error"]

SwitchQuery ==
  /\ switch.pc = "query"
  /\ IF proxy = "down" THEN SwitchErr /\ UNCHANGED backlog
     ELSE /\ backlog' = Append(backlog, "switch_query")
          /\ switch' = [switch EXCEPT !.pc = "answer"]
  /\ UNCHANGED <<bm, proxyVars, ctl_req, ctl_rep, cacheVars, usr2>>

SwitchQueryFails ==
  /\ switch.pc = "answer" /\ proxy = "down"
  /\ SwitchErr
  /\ UNCHANGED <<bm, proxyVars, sockVars, cacheVars, usr2>>

Popcount_NoCheck ==
  /\ switch.pc = "popcount"
  /\ switch' = IF switch.index < nblocks
               THEN [switch EXCEPT !.index = @ + 1, !.cached =
                       IF switch.index \in bm THEN @ + 1 ELSE @]
               ELSE [switch EXCEPT !.pc = "monitor"]
  /\ UNCHANGED <<bm, proxyVars, sockVars, cacheVars, usr2>>

\* bitmap_popcount(), one bit at a time.
Popcount ==
  /\ switch.pc = "popcount"
  /\ switch' = IF switch.index < nblocks
               THEN [switch EXCEPT !.index = @ + 1, !.cached =
                       IF switch.index \in bm THEN @ + 1 ELSE @]
               ELSE [switch EXCEPT !.pc =
                       IF switch.cached # nblocks /\ ~force THEN "error"
                       ELSE "monitor"]
  /\ UNCHANGED <<bm, proxyVars, sockVars, cacheVars, usr2>>

StartMonitorConnection ==
  /\ switch.pc = "monitor"
  /\ IF proxy = "down" THEN SwitchErr /\ UNCHANGED backlog
     ELSE /\ backlog' = Append(backlog, "detect_switch")
          /\ switch' = [switch EXCEPT !.pc = "kill", !.monitor = "backlog"]
  /\ UNCHANGED <<bm, proxyVars, ctl_req, ctl_rep, cacheVars, usr2>>

Kill ==
  /\ switch.pc = "kill"
  /\ usr2' = TRUE
  /\ switch' = [switch EXCEPT !.pc = "wait"]
  /\ UNCHANGED <<bm, proxyVars, sockVars, cacheVars>>

WaitForTargetMode_Never ==
  /\ switch.pc = "wait"
  /\ switch' = [switch EXCEPT !.pc = "done"]
  /\ UNCHANGED <<bm, proxyVars, sockVars, cacheVars, usr2>>

\* wait_for_target_mode(): recv() returns when the connection is closed.
WaitForTargetMode ==
  /\ switch.pc = "wait" /\ switch.monitor = "closed"
  /\ switch' = [switch EXCEPT !.pc = "done"]
  /\ UNCHANGED <<bm, proxyVars, sockVars, cacheVars, usr2>>

-----------------------------------------------------------------------------
(* The whole *)

Init ==
  /\ bm \in SUBSET Blocks
  /\ proxy = "up" /\ shared_buff = FALSE /\ session = "none" /\ fwd = <<>>
  /\ backlog = <<>> /\ ctl_req = <<>> /\ ctl_rep = 0
  /\ cmd \in Commands
  /\ main = [pc |-> "query", index |-> 0, first |-> 0, after_last |-> 0,
             todo |-> <<>>, then |-> "none"]
  /\ rx = "none" /\ q = <<>>
  /\ progress = [remote |-> 0, cache |-> 0]
  /\ switch = [pc |-> "query", index |-> 0, cached |-> 0, monitor |-> "none"]
  /\ usr2 = FALSE

MainThread ==
  \/ Push \/ QueryStatus \/ QueryFails \/ StartRegisterFd \/ Window \/ While
  \/ ScanUncached \/ SendCache \/ ScanCached \/ Join \/ EndRegisterFd
  \/ SetupSharedBuffer \/ AllCached \/ CacheReply

RxThread == Pop \/ RecvHeader

ProxyProcess ==
  ProxyAccept \/ ProxyExit \/ ProxyReceive \/ ProxyMark \/ ProxyReply

SwitchProcess ==
  SwitchQueryFails \/ Popcount \/ StartMonitorConnection \/ Kill \/ WaitForTargetMode

Over == main.pc \in {"done", "error"} /\ UNCHANGED vars

Next ==
  \/ MainThread \/ RxThread \/ ProxyProcess \/ SwitchProcess \/ MasterSwitches
  \/ SwitchQuery \/ OtherSession \/ ServerEnds \/ SpuriousWakeup \/ Over

Spec == Init /\ [][Next]_vars

\* Threads and processes that can go on do; nobody has to call --switch or to
\* use the disk, and wakeups without a signal need not happen.
FairSpec ==
  /\ Spec
  /\ WF_vars(MainThread) /\ WF_vars(RxThread) /\ WF_vars(ProxyProcess)
  /\ WF_vars(SwitchProcess) /\ WF_vars(MasterSwitches)

-----------------------------------------------------------------------------
(* Properties *)

\* Every variable keeps its type: the queue stays within its limit, the indexes
\* of the scan within the disk, and the count of --switch within its loop.
TypeOK ==
  /\ bm \subseteq Blocks
  /\ proxy \in {"up", "stopping", "down"} /\ shared_buff \in BOOLEAN
  /\ session \in {"none", "active", "ended"}
  /\ Len(fwd) <= QueSize /\ Len(ctl_req) <= SockSize /\ ctl_rep \in 0 .. SockSize
  /\ main.first \in 0 .. nblocks /\ main.after_last \in 0 .. nblocks
  /\ rx \in {"none", "pop", "cond_pop", "recv_header", "done", "dead"}
  /\ \A i \in DOMAIN q : q[i] \in Items
  /\ Len(q) <= max_size
  /\ switch.cached <= switch.index /\ switch.index <= nblocks

\* The assertions of refresh_progress(), although blocks become cached while
\* cache_all_blocks_async() looks at the bitmap: no block is counted twice, and
\* at the end every block was counted.
ProgressExact ==
  /\ progress.remote + progress.cache <= nblocks
  /\ At("done") /\ cmd = "cache_all" => progress.remote + progress.cache = nblocks

\* When --cache-all or --cache-all2 ends without an error, every block is in the
\* cache: no window of blocks and no short last window is left out.
NothingMissed == At("done") => bm = Blocks

\* A switch that is not forced and is carried out never leaves a block behind
\* on the remote server, although the blocks are counted long before the proxy
\* ends.
SwitchComplete == usr2 /\ ~force => bm = Blocks

\* --switch does not report the end of the proxy before the proxy has ended,
\* even if the proxy had not accepted the monitoring connection when the signal
\* was sent.
SwitchReturns == switch.pc = "done" => proxy = "down"

\* Sender, receiver and proxy never wait for each other for ever, with a full
\* queue, full socket buffers and a proxy at its own limit: --cache-all ends, and
\* it fails only when the proxy was taken away.
CacheEnds == <>(At("done") \/ (At("error") /\ proxy = "down"))

\* --switch ends: it is refused, it fails, or it sees the end of the proxy.
SwitchEnds == switch.pc = "answer" ~> switch.pc \in {"done", "error"}

=============================================================================
