------------------------------- MODULE Proxy -------------------------------
(***************************************************************************)
(* The proxy process of xnbd-server (xnbd_proxy.c, xnbd_proxy_forwarder.c).*)
(*                                                                         *)
(* Each session has an rx thread that receives requests and a tx thread    *)
(* that sends replies.  All requests go through one pipeline:              *)
(*                                                                         *)
(*   rx threads -> fwd_tx_queue -> forwarder_tx -> fwd_rx_queue            *)
(*              -> forwarder_rx -> tx_queue[s] -> tx threads               *)
(*                                                                         *)
(* forwarder_tx owns the cache bitmap: it marks the blocks of a request as *)
(* cached and asks the remote server for those that were not.  forwarder_rx*)
(* owns the cache disk: it receives the blocks and performs the request.   *)
(* When the remote connection fails, requests wait in fwd_retry_queue until*)
(* a new connection is registered.  The main thread registers and cleans up*)
(* sessions, replaces the connection and ends the process.                 *)
(***************************************************************************)
EXTENDS NbdRequests, FiniteSetsExt

CONSTANTS
  BgctlSessions,        \* sessions opened by xnbd-bgctl: they only send CACHE
  readonly,             \* the server was started with --readonly
  proxy_max_que_size,   \* limit on queued requests, 0 for none
  proxy_max_buf_size,   \* limit on buffer bytes, 0 for none
  PrivSize,             \* sizeof(struct proxy_priv)
  MAXNBLOCK,            \* slots for remote read requests in a proxy_priv
  MaxFaults,            \* bound on failures of the remote server
  MaxReconnects,        \* bound on xnbd-bgctl --reconnect
  MaxCrashes            \* bound on crashes of the proxy process

ASSUME BgctlAssumption == BgctlSessions \subseteq Sessions
ASSUME ReadonlyAssumption == readonly \in BOOLEAN
ASSUME LimitsAssumption ==
  /\ proxy_max_que_size \in Nat
  /\ proxy_max_buf_size \in Nat
  /\ PrivSize \in Nat \ {0}
  /\ MAXNBLOCK \in Nat /\ MAXNBLOCK > 1
ASSUME BoundsAssumption ==
  /\ MaxFaults \in Nat
  /\ MaxReconnects \in Nat
  /\ MaxCrashes \in Nat

VARIABLES
  session,           \* session -> "unborn", "live" or "freed"
  client,            \* session -> is the client's socket open?
  wrk_fd,            \* session -> has the worker asked for termination?
  pipe,              \* session -> "unset" before make_pipe(), "empty" or "byte"
  rx, rx_priv,       \* session -> state of the rx thread, its proxy_priv
  tx, need_skip,     \* session -> state of the tx thread, its need_skip
  tx_queue,          \* session -> queue between forwarder_rx and tx thread
  accepted,          \* session -> number of requests received
  fwd_tx_queue, fwd_rx_queue, fwd_retry_queue,
  ftx,               \* forwarder_tx: state, proxy_priv in hand, loop index
                     \* (0 once the loop was left by break)
  sending_failed,    \* forwarder_tx: a send failed on this connection
  frx,               \* forwarder_rx: likewise
  receiving_failed,  \* forwarder_rx: a receive failed on this connection
  conn,              \* remote connection, "up" or "lost"
  wire,              \* remote reads whose replies are still to be received
  cbitmap,           \* blocks marked as cached
  cache,             \* byte -> value on the cache disk
  cur_use_que, cur_use_buf,
  main,              \* state of the main thread
  proc,              \* the process: "up", "aborted" or "exited"
  bounds,            \* faults, reconnects and crashes that happened
  content, reply     \* history: see NbdService

sesVars  == <<session, client, wrk_fd, pipe>>
rxVars   == <<rx, rx_priv, accepted>>
txVars   == <<tx, need_skip, tx_queue, reply>>
ftxVars  == <<ftx, sending_failed, cbitmap>>
frxVars  == <<frx, receiving_failed, cache>>
netVars  == <<conn, wire>>
memVars  == <<cur_use_que, cur_use_buf>>
procVars == <<main, proc, bounds>>
vars == <<sesVars, rxVars, txVars, ftxVars, frxVars, netVars, memVars,
          procVars, fwd_tx_queue, fwd_rx_queue, fwd_retry_queue, content>>

-----------------------------------------------------------------------------
(* Requests inside the proxy *)

\* struct proxy_priv.  kind stands for need_exit and for the identity of the
\* stop marker; fetch holds the blocks that the slots req[] ask for; may is
\* history: what the reply may carry.
PrivFields ==
  [kind : {"io", "exit", "stop"}, ses : Sessions \cup {"none"}, num : Nat,
   iotype : IoTypes \cup {"UNDEFINED"}, iofrom : Nat, iolen : Nat,
   buff : {"none", "read", "write"}, fetch : SUBSET Blocks,
   need_retry : BOOLEAN, prepare_done : BOOLEAN,
   read_buff : Data, may : [Bytes -> SUBSET (Values \cup {Empty})]]

Priv ==
  {p \in PrivFields :
     /\ p.kind # "stop" => p.ses \in Sessions
     /\ p.kind = "io" =>
          p.num \in 1 .. MaxReq /\ p.iotype \in IoTypes /\ GoodRequest(p)}

NoLimit == [x \in Bytes |-> {Empty}]

priv_stop_forwarder ==
  [kind |-> "stop", ses |-> "none", num |-> 0, iotype |-> "UNDEFINED",
   iofrom |-> 0, iolen |-> 0, buff |-> "none", fetch |-> {},
   need_retry |-> FALSE, prepare_done |-> FALSE,
   read_buff |-> NoData, may |-> NoLimit]

\* The proxy_priv that recv_request() fills in for request r of session s.
NewPriv(s, r) ==
  [kind |-> "io", ses |-> s, num |-> accepted[s] + 1, iotype |-> r.iotype,
   iofrom |-> r.iofrom, iolen |-> r.iolen,
   buff |-> CASE r.iotype = "WRITE" -> "write"
              [] r.iotype = "READ" -> "read"
              [] OTHER -> "none",
   fetch |-> {}, need_retry |-> FALSE, prepare_done |-> FALSE,
   read_buff |-> NoData, may |-> NoLimit]

\* The proxy_priv at err_handle: need_exit is set, but a write buffer that was
\* allocated before the error is still there.
ExitPriv(s, buff, iolen) ==
  [priv_stop_forwarder EXCEPT
     !.kind = "exit", !.ses = s, !.buff = buff, !.iolen = iolen]

\* The loop of prepare_read_priv() over the blocks that are not cached.
CoalescedRequests(missing) ==
  MapThenFoldSet(add_read_block_to_tail, <<>>, LAMBDA i : i, Max, missing)

\* prepare_write_priv() asks for the start and the end block one by one.
SingleRequests(missing) ==
  MapThenFoldSet(LAMBDA r, req : Append(req, r), <<>>,
                 LAMBDA i : [bindex_iofrom |-> i, bindex_iolen |-> 1],
                 Max, missing)

\* The remote read requests in the slots req[] of p, in order.
RemoteReads(p) ==
  IF p.iotype = "WRITE" THEN SingleRequests(p.fetch)
                        ELSE CoalescedRequests(p.fetch)

\* Mutant: the loop ends before the last block.
prepare_read_priv_ButLast(p) ==
  [p EXCEPT !.fetch = BlockRange(p.iofrom, p.iolen - 1) \ cbitmap]

\* prepare_read_priv(): the blocks to fetch are those not marked.
prepare_read_priv(p) ==
  [p EXCEPT !.fetch = BlockRange(p.iofrom, p.iolen) \ cbitmap]

\* prepare_write_priv(): only a start or an end block that the write covers in
\* part is fetched, and only if it is not marked.
get_start_block(p) ==
  /\ p.iofrom % CBLOCKSIZE # 0
  /\ get_bindex_sta(p.iofrom) \notin cbitmap

\* Mutant: the end block is never fetched.
get_end_block_Never(p) == FALSE

get_end_block(p) ==
  LET sta == get_bindex_sta(p.iofrom)
      end == get_bindex_end(p.iofrom + p.iolen)
  IN  /\ (p.iofrom + p.iolen) % CBLOCKSIZE # 0
      /\ end > sta \/ (end = sta /\ ~get_start_block(p))
      /\ end \notin cbitmap

prepare_write_priv(p) ==
  [p EXCEPT !.fetch =
     (IF get_start_block(p) THEN {get_bindex_sta(p.iofrom)} ELSE {})
     \cup
     (IF get_end_block(p) THEN {get_bindex_end(p.iofrom + p.iolen)} ELSE {})]

\* The first visit of p to forwarder_tx fills the slots; a retry keeps them.
Prepare(p) ==
  IF p.prepare_done THEN p
  ELSE [CASE p.iotype = "WRITE" -> prepare_write_priv(p)
          [] p.iotype \in {"READ", "CACHE"} -> prepare_read_priv(p)
          [] OTHER -> p
        EXCEPT !.prepare_done = TRUE]

\* Mutants: no block is marked before it is fetched; the loop runs one too far.
Marks_None(p) == {}

Marks_OneMore(p) ==
  IF ~p.prepare_done /\ p.iotype \in {"READ", "WRITE", "CACHE"}
  THEN get_bindex_sta(p.iofrom) .. get_bindex_end(p.iofrom + p.iolen) + 1
  ELSE {}

\* The blocks that preparing p marks as cached: all it touches.
Marks(p) ==
  IF ~p.prepare_done /\ p.iotype \in {"READ", "WRITE", "CACHE"}
  THEN BlockRange(p.iofrom, p.iolen)
  ELSE {}

\* mem_usage_add() and mem_usage_del() count the buffer, whatever the type.
BufSize(p) == PrivSize + (IF p.buff # "none" THEN p.iolen ELSE 0)

mem_usage_add(p) ==
  /\ cur_use_buf' =
       IF proxy_max_buf_size > 0 THEN cur_use_buf + BufSize(p) ELSE cur_use_buf
  /\ cur_use_que' =
       IF proxy_max_que_size > 0 THEN cur_use_que + 1 ELSE cur_use_que

\* Mutants: the size is looked up by type; nothing is given back.
mem_usage_del_ByType(p) ==
  /\ cur_use_buf' =
       IF proxy_max_buf_size > 0
       THEN cur_use_buf - PrivSize
            - (IF p.iotype \in {"READ", "WRITE"} THEN p.iolen ELSE 0)
       ELSE cur_use_buf
  /\ cur_use_que' =
       IF proxy_max_que_size > 0 THEN cur_use_que - 1 ELSE cur_use_que

mem_usage_del_Never(p) == UNCHANGED memVars

mem_usage_del(p) ==
  /\ cur_use_buf' =
       IF proxy_max_buf_size > 0 THEN cur_use_buf - BufSize(p) ELSE cur_use_buf
  /\ cur_use_que' =
       IF proxy_max_que_size > 0 THEN cur_use_que - 1 ELSE cur_use_que

\* Mutant: the queue is not looked at.
MemAvailable_NoQueue ==
  proxy_max_buf_size > 0 => cur_use_buf <= proxy_max_buf_size

\* The test mem_usage_wait() repeats until it succeeds.
MemAvailable ==
  /\ proxy_max_buf_size > 0 => cur_use_buf <= proxy_max_buf_size
  /\ proxy_max_que_size > 0 => cur_use_que <= proxy_max_que_size

-----------------------------------------------------------------------------
(* Initial state *)

Idle(pc) == [pc |-> pc, priv |-> priv_stop_forwarder, i |-> 1]

Init ==
  /\ session = [s \in Sessions |-> "unborn"]
  /\ client = [s \in Sessions |-> FALSE]
  /\ wrk_fd = [s \in Sessions |-> FALSE]
  /\ pipe = [s \in Sessions |-> "unset"]
  /\ rx = [s \in Sessions |-> "none"]
  /\ rx_priv = [s \in Sessions |-> priv_stop_forwarder]
  /\ accepted = [s \in Sessions |-> 0]
  /\ tx = [s \in Sessions |-> "none"]
  /\ need_skip = [s \in Sessions |-> FALSE]
  /\ tx_queue = [s \in Sessions |-> <<>>]
  /\ reply = [s \in Sessions |-> NoReply]
  /\ fwd_tx_queue = <<>> /\ fwd_rx_queue = <<>> /\ fwd_retry_queue = <<>>
  /\ ftx = Idle("pop") /\ sending_failed = FALSE
  /\ frx = Idle("pop") /\ receiving_failed = FALSE
  /\ conn = "up" /\ wire = <<>>
  /\ cbitmap = {}
  /\ cache = [x \in Bytes |-> Zero]
  /\ cur_use_que = 0 /\ cur_use_buf = 0
  /\ main = "poll" /\ proc = "up"
  /\ bounds = [faults |-> 0, reconnects |-> 0, crashes |-> 0]
  /\ content = [x \in Bytes |-> {Remote}]

-----------------------------------------------------------------------------
(* The clients and the worker processes: the environment of a session *)

\* The client goes away.  After the tx thread left its loop nobody looks.
ClientClose(s) ==
  /\ tx[s] = "run" /\ client[s]
  /\ client' = [client EXCEPT ![s] = FALSE]
  /\ UNCHANGED <<session, wrk_fd, pipe, rxVars, txVars, ftxVars, frxVars,
                 netVars, memVars, procVars, fwd_tx_queue, fwd_rx_queue,
                 fwd_retry_queue, content>>

\* The worker passes the termination request of the master to the proxy.  Only
\* the rx thread reads it.
WorkerNotify(s) ==
  /\ rx[s] \in {"recv", "wait", "add"} /\ ~wrk_fd[s] /\ s \notin BgctlSessions
  /\ wrk_fd' = [wrk_fd EXCEPT ![s] = TRUE]
  /\ UNCHANGED <<session, client, pipe, rxVars, txVars, ftxVars, frxVars,
                 netVars, memVars, procVars, fwd_tx_queue, fwd_rx_queue,
                 fwd_retry_queue, content>>

-----------------------------------------------------------------------------
(* The rx thread: recv_request() *)

\* A request that recv_request() does not answer by ending the session.
Serviceable(s, r) ==
  /\ readonly => r.iotype \notin {"WRITE", "TRIM"}
  /\ s \in BgctlSessions => r.iotype = "CACHE"

\* A request arrives, and wait_until_readable() found wrk_fd quiet.
RxRecv(s) ==
  /\ rx[s] = "recv" /\ ~wrk_fd[s] /\ accepted[s] < MaxReq
  /\ \E r \in Requests :
       /\ Serviceable(s, r)
       /\ rx_priv' = [rx_priv EXCEPT ![s] = NewPriv(s, r)]
  /\ rx' = [rx EXCEPT ![s] = "wait"]
  /\ accepted' = [accepted EXCEPT ![s] = @ + 1]
  /\ UNCHANGED <<sesVars, txVars, ftxVars, frxVars, netVars, memVars,
                 procVars, fwd_tx_queue, fwd_rx_queue, fwd_retry_queue,
                 content>>

\* mem_usage_wait() returns.
RxWait(s) ==
  /\ rx[s] = "wait" /\ MemAvailable
  /\ rx' = [rx EXCEPT ![s] = "add"]
  /\ UNCHANGED <<rx_priv, accepted, sesVars, txVars, ftxVars, frxVars, netVars,
                 memVars, procVars, fwd_tx_queue, fwd_rx_queue,
                 fwd_retry_queue, content>>

\* mem_usage_add() and the push: the request has its place in the order.
RxPush(s) ==
  LET p == rx_priv[s] IN
  /\ rx[s] = "add"
  /\ mem_usage_add(p)
  /\ fwd_tx_queue' = Append(fwd_tx_queue,
                            [p EXCEPT !.may = MayReturn(content, p)])
  /\ content' = Apply(content, p, <<s, p.num>>)
  /\ rx' = [rx EXCEPT ![s] = "recv"]
  /\ rx_priv' = [rx_priv EXCEPT ![s] = priv_stop_forwarder]
  /\ UNCHANGED <<accepted, sesVars, txVars, ftxVars, frxVars, netVars,
                 procVars, fwd_rx_queue, fwd_retry_queue>>

\* Mutants: the exit notice does not go through the forwarder; it is not sent.
RxTerminate_Direct(s) ==
  /\ rx[s] = "recv"
  /\ mem_usage_add(ExitPriv(s, "none", 0))
  /\ tx_queue' = [tx_queue EXCEPT ![s] = Append(@, ExitPriv(s, "none", 0))]
  /\ rx' = [rx EXCEPT ![s] = "exited"]
  /\ UNCHANGED <<rx_priv, accepted, sesVars, tx, need_skip, reply, ftxVars,
                 frxVars, netVars, procVars, fwd_tx_queue, fwd_rx_queue,
                 fwd_retry_queue, content>>

RxTerminate_Silent(s) ==
  /\ rx[s] = "recv"
  /\ rx' = [rx EXCEPT ![s] = "exited"]
  /\ UNCHANGED <<rx_priv, accepted, sesVars, txVars, ftxVars, frxVars, netVars,
                 memVars, procVars, fwd_tx_queue, fwd_rx_queue,
                 fwd_retry_queue, content>>

\* err_handle: the client disconnects or sends what is not serviceable, the
\* worker asks for termination, or write data does not arrive.
RxTerminate(s) ==
  /\ rx[s] = "recv"
  /\ \E p \in {ExitPriv(s, "none", 0)} \cup
              {ExitPriv(s, "write", r.iolen) :
                 r \in {q \in Requests : q.iotype = "WRITE" /\ ~client[s]
                                         /\ ~wrk_fd[s] /\ Serviceable(s, q)}} :
       /\ mem_usage_add(p)
       /\ fwd_tx_queue' = Append(fwd_tx_queue, p)
  /\ rx' = [rx EXCEPT ![s] = "exited"]
  /\ UNCHANGED <<rx_priv, accepted, sesVars, txVars, ftxVars, frxVars, netVars,
                 procVars, fwd_rx_queue, fwd_retry_queue, content>>

-----------------------------------------------------------------------------
(* The tx thread *)

\* One turn of tx_thread_main(): reply to a request, or leave the loop.
TxPop(s) ==
  /\ tx[s] = "run" /\ tx_queue[s] # <<>>
  /\ LET p == Head(tx_queue[s]) IN
     /\ mem_usage_del(p)
     /\ tx_queue' = [tx_queue EXCEPT ![s] = Tail(@)]
     /\ \/ /\ p.kind = "exit"
           /\ tx' = [tx EXCEPT ![s] = "notify"]
           /\ UNCHANGED <<need_skip, reply>>
        \/ /\ p.kind # "exit" /\ ~need_skip[s]
           /\ reply' = [reply EXCEPT
                          ![s] = [num |-> p.num, data |-> p.read_buff]]
           /\ UNCHANGED <<tx, need_skip>>
        \/ /\ p.kind # "exit" /\ ~need_skip[s] /\ ~client[s]
           /\ need_skip' = [need_skip EXCEPT ![s] = TRUE]
           /\ UNCHANGED <<tx, reply>>
        \/ /\ p.kind # "exit" /\ need_skip[s]
           /\ UNCHANGED <<tx, need_skip, reply>>
  /\ UNCHANGED <<sesVars, rxVars, ftxVars, frxVars, netVars, procVars,
                 fwd_tx_queue, fwd_rx_queue, fwd_retry_queue, content>>

\* The thread writes to pipe_write_fd and exits.  Before make_pipe() that is
\* descriptor 0: the byte goes elsewhere, or the write fails and the process
\* aborts.
TxNotify(s) ==
  /\ tx[s] = "notify"
  /\ tx' = [tx EXCEPT ![s] = "exited"]
  /\ \/ /\ pipe[s] # "unset"
        /\ pipe' = [pipe EXCEPT ![s] = "byte"]
        /\ UNCHANGED proc
     \/ /\ pipe[s] = "unset"
        /\ proc' \in {"up", "aborted"}
        /\ UNCHANGED pipe
  /\ UNCHANGED <<session, client, wrk_fd, need_skip, tx_queue, reply, rxVars,
                 ftxVars, frxVars, netVars, memVars, main, bounds, fwd_tx_queue,
                 fwd_rx_queue, fwd_retry_queue, content>>

-----------------------------------------------------------------------------
(* forwarder_tx_thread_main() *)

\* add_read_block_to_tail() gives up when it fills the last slot;
\* prepare_write_priv() does not use it.
TooManyReads(p) == p.iotype # "WRITE" /\ Len(RemoteReads(p)) >= MAXNBLOCK

\* The blocks marked before that happens.
MarkedUntilAbort(p, q) ==
  {b \in Marks(p) : b <= RemoteReads(q)[MAXNBLOCK].bindex_iofrom}

FwdTxPop ==
  /\ ftx.pc = "pop" /\ fwd_tx_queue # <<>>
  /\ fwd_tx_queue' = Tail(fwd_tx_queue)
  /\ LET p == Head(fwd_tx_queue)
         q == Prepare(p) IN
     \/ /\ p.kind = "stop"
        /\ fwd_rx_queue' = Append(fwd_rx_queue, p)
        /\ ftx' = Idle("exited")
        /\ UNCHANGED <<sending_failed, cbitmap, proc>>
     \/ /\ p.kind = "exit"
        /\ fwd_rx_queue' = Append(fwd_rx_queue, p)
        /\ UNCHANGED <<ftxVars, proc>>
     \/ /\ p.kind = "io" /\ ~TooManyReads(q)
        /\ cbitmap' = cbitmap \cup Marks(p)
        /\ ftx' = [pc |-> "busy", priv |-> q, i |-> 1]
        /\ UNCHANGED <<sending_failed, fwd_rx_queue, proc>>
     \/ /\ p.kind = "io" /\ TooManyReads(q)
        /\ cbitmap' = cbitmap \cup MarkedUntilAbort(p, q)
        /\ ftx' = [pc |-> "busy", priv |-> p, i |-> 1]
        /\ proc' = "aborted"
        /\ UNCHANGED <<sending_failed, fwd_rx_queue>>
  /\ UNCHANGED <<sesVars, rxVars, txVars, frxVars, netVars, memVars, main,
                 bounds, fwd_retry_queue, content>>

\* One nbd_client_send_read_request().  On a lost connection the kernel may
\* still take the data, or the send fails and the loop ends.
FwdTxSend ==
  LET reads == RemoteReads(ftx.priv) IN
  /\ ftx.pc = "busy" /\ ftx.i \in 1 .. Len(reads)
  /\ \/ /\ conn = "up"
        /\ wire' = Append(wire, reads[ftx.i])
        /\ ftx' = [ftx EXCEPT !.i = @ + 1]
        /\ UNCHANGED sending_failed
     \/ /\ conn = "lost"
        /\ ftx' = [ftx EXCEPT !.i = @ + 1]
        /\ UNCHANGED <<wire, sending_failed>>
     \/ /\ conn = "lost"
        /\ ftx' = [ftx EXCEPT !.i = 0]
        /\ sending_failed' = TRUE
        /\ UNCHANGED wire
  /\ UNCHANGED <<sesVars, rxVars, txVars, cbitmap, frxVars, conn, memVars,
                 procVars, fwd_tx_queue, fwd_rx_queue, fwd_retry_queue,
                 content>>

\* Mutant: the request is handed on before its remote reads are sent.
FwdTxPush_Early ==
  /\ ftx.pc = "busy"
  /\ fwd_rx_queue' = Append(fwd_rx_queue,
                            [ftx.priv EXCEPT !.need_retry = @ \/ sending_failed])
  /\ ftx' = Idle("pop")
  /\ UNCHANGED <<sesVars, rxVars, txVars, sending_failed, cbitmap, frxVars,
                 netVars, memVars, procVars, fwd_tx_queue, fwd_retry_queue,
                 content>>

\* After the loop: once a send failed, every request is to be retried.
FwdTxPush ==
  /\ ftx.pc = "busy" /\ ftx.i \notin 1 .. Len(RemoteReads(ftx.priv))
  /\ fwd_rx_queue' = Append(fwd_rx_queue,
                            [ftx.priv EXCEPT !.need_retry = @ \/ sending_failed])
  /\ ftx' = Idle("pop")
  /\ UNCHANGED <<sesVars, rxVars, txVars, sending_failed, cbitmap, frxVars,
                 netVars, memVars, procVars, fwd_tx_queue, fwd_retry_queue,
                 content>>

-----------------------------------------------------------------------------
(* forwarder_rx_thread_mainloop() *)

\* hand_to_tx_queue.  The queue of a session that was cleaned up is freed
\* memory: the push may go unnoticed or bring the process down.
HandToTxQueue(p) ==
  \/ /\ tx_queue' = [tx_queue EXCEPT ![p.ses] = Append(@, p)]
     /\ UNCHANGED proc
  \/ /\ session[p.ses] = "freed"
     /\ proc' = "aborted"
     /\ UNCHANGED tx_queue

FwdRxPop ==
  /\ frx.pc = "pop" /\ fwd_rx_queue # <<>>
  /\ fwd_rx_queue' = Tail(fwd_rx_queue)
  /\ LET p == Head(fwd_rx_queue) IN
     \/ /\ p.kind = "stop"
        /\ frx' = Idle("exited")
        /\ UNCHANGED <<tx_queue, proc>>
     \/ /\ p.kind = "exit"
        /\ HandToTxQueue(p)
        /\ UNCHANGED frx
     \/ /\ p.kind = "io"
        /\ frx' = [pc |-> "busy", priv |-> p, i |-> 1]
        /\ UNCHANGED <<tx_queue, proc>>
  /\ UNCHANGED <<sesVars, rxVars, tx, need_skip, reply, ftxVars,
                 receiving_failed, cache, netVars, memVars, main, bounds,
                 fwd_tx_queue, fwd_retry_queue, content>>

\* c after value v was stored in the bytes D.
Store(c, D, v) == [x \in Bytes |-> IF x \in D THEN v ELSE c[x]]

\* One nbd_client_recv_read_reply(), straight into the cache disk.
FwdRxRecv ==
  LET reads == RemoteReads(frx.priv)
      want == reads[frx.i]
      D == RunBytes(want.bindex_iofrom, want.bindex_iolen)
      data == IF wire # <<>> /\ Head(wire) = want THEN Remote ELSE Junk
      Fail == /\ receiving_failed' = TRUE
              /\ frx' = [frx EXCEPT !.i = 0]
  IN
  /\ frx.pc = "busy" /\ frx.i \in 1 .. Len(reads)
  /\ \/ \* the next reply of the stream, whatever it answers
        /\ wire # <<>>
        /\ cache' = Store(cache, D, data)
        /\ wire' = Tail(wire)
        /\ frx' = [frx EXCEPT !.i = @ + 1]
        /\ UNCHANGED <<receiving_failed, bounds>>
     \/ \* the remote server reports an error, or the stream is out of step
        /\ wire # <<>>
        /\ \/ data = Junk /\ UNCHANGED bounds
           \/ /\ bounds.faults < MaxFaults
              /\ bounds' = [bounds EXCEPT !.faults = @ + 1]
        /\ wire' = Tail(wire)
        /\ Fail
        /\ UNCHANGED cache
     \/ \* the connection ends, perhaps in the middle of the data
        /\ wire = <<>> /\ conn = "lost"
        /\ \E n \in D :
             cache' = Store(cache, {x \in D : x < n},
                            IF receiving_failed THEN Junk ELSE Remote)
        /\ Fail
        /\ UNCHANGED <<wire, bounds>>
  /\ UNCHANGED <<sesVars, rxVars, txVars, ftxVars, conn, memVars, main, proc,
                 fwd_tx_queue, fwd_rx_queue, fwd_retry_queue, content>>

\* The request is performed on the cache disk.
Perform(p) ==
  \/ /\ p.iotype = "WRITE"
     /\ cache' = Store(cache, RangeOf(p), <<p.ses, p.num>>)
  \/ /\ p.iotype = "TRIM"
     /\ cache' \in {Store(cache, RangeOf(p), Zero),
                    cache}                           \* fallocate() failed
  \/ /\ p.iotype \notin {"WRITE", "TRIM"}
     /\ UNCHANGED cache

ReadBuff(p) ==
  [x \in Bytes |->
     IF p.iotype = "READ" /\ x \in RangeOf(p) THEN cache[x] ELSE Empty]

\* Mutant: only a request that fetches blocks is kept back.
NeedRetry_IfFetching(p) == p.need_retry \/ (receiving_failed /\ p.fetch # {})

\* Once a receive failed on this connection, every request is kept back.
NeedRetry(p) == p.need_retry \/ receiving_failed

\* After the loop: perform the request, or keep it for a retry.
FwdRxFinish ==
  LET p == [frx.priv EXCEPT !.need_retry = NeedRetry(frx.priv)] IN
  /\ frx.pc = "busy" /\ frx.i \notin 1 .. Len(RemoteReads(frx.priv))
  /\ frx' = Idle("pop")
  /\ \/ /\ p.need_retry
        /\ fwd_retry_queue' = Append(fwd_retry_queue, p)
        /\ UNCHANGED <<cache, tx_queue, proc>>
     \/ /\ ~p.need_retry
        /\ Perform(p)
        /\ HandToTxQueue([p EXCEPT !.read_buff = ReadBuff(p)])
        /\ UNCHANGED fwd_retry_queue
  /\ UNCHANGED <<sesVars, rxVars, tx, need_skip, reply, ftxVars,
                 receiving_failed, netVars, memVars, main, bounds,
                 fwd_tx_queue, fwd_rx_queue, content>>

-----------------------------------------------------------------------------
(* The main thread: main_loop() and the end of xnbd_proxy_start() *)

\* XNBD_PROXY_CMD_REGISTER_FD: the threads of the session are created ...
RegisterFd(s) ==
  /\ main = "poll" /\ session[s] = "unborn"
  /\ main' = "register"
  /\ session' = [session EXCEPT ![s] = "live"]
  /\ client' = [client EXCEPT ![s] = TRUE]
  /\ rx' = [rx EXCEPT ![s] = "recv"]
  /\ tx' = [tx EXCEPT ![s] = "run"]
  /\ UNCHANGED <<wrk_fd, pipe, rx_priv, accepted, need_skip, tx_queue, reply,
                 ftxVars, frxVars, netVars, memVars, proc, bounds,
                 fwd_tx_queue, fwd_rx_queue, fwd_retry_queue, content>>

\* ... and then its pipe is made, and it is put on conn_list.
MakePipe(s) ==
  /\ main = "register" /\ session[s] = "live" /\ pipe[s] = "unset"
  /\ main' = "poll"
  /\ pipe' = [pipe EXCEPT ![s] = "empty"]
  /\ UNCHANGED <<session, client, wrk_fd, rxVars, txVars, ftxVars, frxVars,
                 netVars, memVars, proc, bounds, fwd_tx_queue, fwd_rx_queue,
                 fwd_retry_queue, content>>

\* The pipe of a session is readable: join its threads and free it.  The
\* assertion on tx_queue stops the process when it fails.
Cleanup(s) ==
  /\ main = "poll" /\ session[s] = "live" /\ pipe[s] = "byte"
  /\ rx[s] = "exited" /\ tx[s] = "exited"
  /\ \/ /\ tx_queue[s] = <<>>
        /\ session' = [session EXCEPT ![s] = "freed"]
        /\ client' = [client EXCEPT ![s] = FALSE]
        /\ wrk_fd' = [wrk_fd EXCEPT ![s] = FALSE]
        /\ pipe' = [pipe EXCEPT ![s] = "unset"]
        /\ need_skip' = [need_skip EXCEPT ![s] = FALSE]
        /\ UNCHANGED proc
     \/ /\ tx_queue[s] # <<>>
        /\ proc' = "aborted"
        /\ UNCHANGED <<sesVars, need_skip>>
  /\ UNCHANGED <<rxVars, tx, tx_queue, reply, ftxVars, frxVars, netVars,
                 memVars, main, bounds, fwd_tx_queue, fwd_rx_queue,
                 fwd_retry_queue, content>>

\* Mutants: the stop marker is not pushed; forwarder_rx is not joined.
StopForwarder_Unsent(next) ==
  /\ main = "poll"
  /\ main' = next
  /\ UNCHANGED fwd_tx_queue

ForwarderJoined_TxOnly == ftx.pc = "exited"

\* proxy_shutdown_forwarder() pushes the stop marker ...
StopForwarder(next) ==
  /\ main = "poll"
  /\ main' = next
  /\ fwd_tx_queue' = Append(fwd_tx_queue, priv_stop_forwarder)

\* ... and joins forwarder_tx and forwarder_rx.
ForwarderJoined == ftx.pc = "exited" /\ frx.pc = "exited"

\* XNBD_PROXY_CMD_REGISTER_FORWARDER_FD, sent by xnbd-bgctl --reconnect.
ReconnectStart ==
  /\ bounds.reconnects < MaxReconnects
  /\ bounds' = [bounds EXCEPT !.reconnects = @ + 1]
  /\ StopForwarder("rejoin")
  /\ UNCHANGED <<sesVars, rxVars, txVars, ftxVars, frxVars, netVars, memVars,
                 proc, fwd_rx_queue, fwd_retry_queue, content>>

\* g_async_queue_push_unshift(): g_async_queue_push_sorted() with a compare
\* function that always returns -1 inserts behind all that is in the queue.
g_async_queue_push_unshift(q, p) == Append(q, p)

\* One turn of the loop over fwd_retry_queue.
ReconnectRetry ==
  /\ main = "rejoin" /\ ForwarderJoined /\ fwd_retry_queue # <<>>
  /\ fwd_retry_queue' = Tail(fwd_retry_queue)
  /\ fwd_tx_queue' = g_async_queue_push_unshift(
       fwd_tx_queue, [Head(fwd_retry_queue) EXCEPT !.need_retry = FALSE])
  /\ UNCHANGED <<sesVars, rxVars, txVars, ftxVars, frxVars, netVars, memVars,
                 procVars, fwd_rx_queue, content>>

\* proxy_initialize_forwarder() on the new connection.
ReconnectFinish ==
  /\ main = "rejoin" /\ ForwarderJoined /\ fwd_retry_queue = <<>>
  /\ main' = "poll"
  /\ conn' = "up" /\ wire' = <<>>
  /\ ftx' = Idle("pop") /\ sending_failed' = FALSE
  /\ frx' = Idle("pop") /\ receiving_failed' = FALSE
  /\ UNCHANGED <<sesVars, rxVars, txVars, cbitmap, cache, memVars, proc,
                 bounds, fwd_tx_queue, fwd_rx_queue, fwd_retry_queue, content>>

\* XNBD_PROXY_CMD_QUERY_STATUS, XNBD_PROXY_CMD_DETECT_SWITCH and unknown
\* commands change no state of the proxy, XNBD_PROXY_CMD_REGISTER_SHARED_BUFFER_FD
\* only maps a buffer that nothing uses.
QueryStatus ==
  /\ main = "poll"
  /\ UNCHANGED vars

\* The master asks the proxy to exit.  By then all workers have ended, so only
\* sessions of xnbd-bgctl can be left.
ExitRequest ==
  /\ \A s \in Sessions \ BgctlSessions : session[s] # "live"
  /\ StopForwarder("exitjoin")
  /\ UNCHANGED <<sesVars, rxVars, txVars, ftxVars, frxVars, netVars, memVars,
                 proc, bounds, fwd_rx_queue, fwd_retry_queue, content>>

\* proxy_shutdown(): the queues are freed, the cache and bitmap files closed.
ExitShutdown ==
  /\ main = "exitjoin" /\ ForwarderJoined
  /\ main' = "shutdown"
  /\ UNCHANGED <<sesVars, rxVars, txVars, ftxVars, frxVars, netVars, memVars,
                 proc, bounds, fwd_tx_queue, fwd_rx_queue, fwd_retry_queue,
                 content>>

ExitProcess ==
  /\ main = "shutdown"
  /\ proc' = "exited"
  /\ UNCHANGED <<sesVars, rxVars, txVars, ftxVars, frxVars, netVars, memVars,
                 main, bounds, fwd_tx_queue, fwd_rx_queue, fwd_retry_queue,
                 content>>

-----------------------------------------------------------------------------
(* Failures *)

\* The connection to the remote server breaks.  Some of the replies that are
\* due have reached the socket of the proxy and can still be received.
LoseConnection ==
  /\ conn = "up" /\ bounds.faults < MaxFaults
  /\ conn' = "lost"
  /\ \E n \in 0 .. Len(wire) : wire' = SubSeq(wire, 1, n)
  /\ bounds' = [bounds EXCEPT !.faults = @ + 1]
  /\ UNCHANGED <<sesVars, rxVars, txVars, ftxVars, frxVars, memVars, main,
                 proc, fwd_tx_queue, fwd_rx_queue, fwd_retry_queue, content>>

\* The process dies at any point.  The cache disk and the bitmap are files
\* mapped shared, so what was stored in them stays.
Crash ==
  /\ bounds.crashes < MaxCrashes
  /\ proc' = "aborted"
  /\ UNCHANGED <<sesVars, rxVars, txVars, ftxVars, frxVars, netVars, memVars,
                 main, bounds, fwd_tx_queue, fwd_rx_queue, fwd_retry_queue,
                 content>>

\* Mutant: the bitmap is cleared.
OpenBitmap_Cleared == {}

\* bitmap_open_file() without --clear-bitmap maps the file as it is.
OpenBitmap == cbitmap

\* The server is started again with the same cache disk and bitmap:
\* proxy_initialize() and proxy_initialize_forwarder().
Restart ==
  /\ proc = "aborted" /\ bounds.crashes < MaxCrashes
  /\ bounds' = [bounds EXCEPT !.crashes = @ + 1]
  /\ proc' = "up" /\ main' = "poll"
  /\ session' = [s \in Sessions |->
                   IF session[s] = "live" THEN "freed" ELSE session[s]]
  /\ rx' = [s \in Sessions |-> IF rx[s] = "none" THEN "none" ELSE "exited"]
  /\ tx' = [s \in Sessions |-> IF tx[s] = "none" THEN "none" ELSE "exited"]
  /\ tx_queue' = [s \in Sessions |-> <<>>]
  /\ fwd_tx_queue' = <<>> /\ fwd_rx_queue' = <<>> /\ fwd_retry_queue' = <<>>
  /\ ftx' = Idle("pop") /\ sending_failed' = FALSE
  /\ frx' = Idle("pop") /\ receiving_failed' = FALSE
  /\ conn' = "up" /\ wire' = <<>>
  /\ cur_use_que' = 0 /\ cur_use_buf' = 0
  /\ cbitmap' = OpenBitmap
  /\ UNCHANGED <<client, wrk_fd, pipe, rx_priv, accepted, need_skip, reply,
                 cache, content>>

-----------------------------------------------------------------------------
(* The specification *)

SessionStep(s) ==
  \/ ClientClose(s) \/ WorkerNotify(s)
  \/ RxRecv(s) \/ RxWait(s) \/ RxPush(s) \/ RxTerminate(s)
  \/ TxPop(s) \/ TxNotify(s)
  \/ RegisterFd(s) \/ MakePipe(s) \/ Cleanup(s)

ForwarderStep ==
  FwdTxPop \/ FwdTxSend \/ FwdTxPush \/ FwdRxPop \/ FwdRxRecv \/ FwdRxFinish

MainStep ==
  \/ ReconnectStart \/ ReconnectRetry \/ ReconnectFinish
  \/ QueryStatus
  \/ ExitRequest \/ ExitShutdown \/ ExitProcess

\* The process has ended.
Ended == proc # "up" /\ UNCHANGED vars

Next ==
  \/ /\ proc = "up"
     /\ \/ \E s \in Sessions : SessionStep(s)
        \/ ForwarderStep \/ MainStep \/ LoseConnection \/ Crash
  \/ Restart
  \/ Ended

Spec == Init /\ [][Next]_vars

\* Every thread of a live process is scheduled, and the remote server answers as
\* long as the connection is up.  Clients, workers, xnbd-bgctl, the master and
\* failures are free.
Up(A) == proc = "up" /\ A

RxThread(s) ==
  \/ RxWait(s) \/ RxPush(s)
  \/ (wrk_fd[s] \/ ~client[s]) /\ RxTerminate(s)

MainThread ==
  \/ \E s \in Sessions : MakePipe(s) \/ Cleanup(s)
  \/ ReconnectRetry \/ ReconnectFinish \/ ExitShutdown \/ ExitProcess

Fairness ==
  /\ \A s \in Sessions :
       /\ WF_vars(Up(RxThread(s)))
       /\ WF_vars(Up(TxPop(s) \/ TxNotify(s)))
  /\ WF_vars(Up(FwdTxPop \/ FwdTxSend \/ FwdTxPush))
  /\ WF_vars(Up(FwdRxPop \/ FwdRxRecv \/ FwdRxFinish))
  /\ WF_vars(Up(MainThread))

FairSpec == Spec /\ Fairness

-----------------------------------------------------------------------------
(* Properties *)

Threads ==
  {t \in [pc : {"pop", "busy", "exited"}, priv : Priv, i : Nat] :
     t.pc = "busy" => t.priv.kind = "io"}

SesType ==
  /\ session \in [Sessions -> {"unborn", "live", "freed"}]
  /\ client \in [Sessions -> BOOLEAN] /\ wrk_fd \in [Sessions -> BOOLEAN]
  /\ pipe \in [Sessions -> {"unset", "empty", "byte"}]

RxType ==
  /\ rx \in [Sessions -> {"none", "recv", "wait", "add", "exited"}]
  /\ rx_priv \in [Sessions -> Priv]
  /\ \A s \in Sessions : rx[s] \in {"wait", "add"} => rx_priv[s].kind = "io"
  /\ accepted \in [Sessions -> 0 .. MaxReq]

TxType ==
  /\ tx \in [Sessions -> {"none", "run", "notify", "exited"}]
  /\ need_skip \in [Sessions -> BOOLEAN]
  /\ tx_queue \in [Sessions -> Seq(Priv)]
  /\ reply \in [Sessions -> [num : Nat, data : Data]]

FtxType ==
  ftx \in Threads /\ sending_failed \in BOOLEAN /\ cbitmap \in SUBSET Blocks

FrxType ==
  frx \in Threads /\ receiving_failed \in BOOLEAN /\ cache \in [Bytes -> Values]

QueueType ==
  /\ fwd_tx_queue \in Seq(Priv) /\ fwd_rx_queue \in Seq(Priv)
  /\ fwd_retry_queue \in Seq(Priv) /\ content \in [Bytes -> SUBSET Values]

MemType == cur_use_que \in Int /\ cur_use_buf \in Int

ProcType ==
  /\ conn \in {"up", "lost"}
  /\ main \in {"poll", "register", "rejoin", "exitjoin", "shutdown"}
  /\ proc \in {"up", "aborted", "exited"}
  /\ bounds \in [faults : Nat, reconnects : Nat, crashes : Nat]

\* Every variable but wire holds a value of its type; in particular no block
\* past the end of the disk is ever marked or fetched, and the cache holds no
\* byte of an unknown origin.
TypeOK ==
  /\ SesType /\ RxType /\ TxType /\ FtxType /\ FrxType /\ QueueType /\ MemType
  /\ ProcType

\* The proxy_priv that a forwarder thread works on.
InHand(thread) == IF thread.pc = "busy" THEN <<thread.priv>> ELSE <<>>

\* The proxy_privs in the process.  No two of them are equal: a session numbers
\* its requests and sends one exit notice.
AllPrivs ==
  (UNION {Range(tx_queue[s]) : s \in Sessions})
  \cup Range(InHand(frx) \o fwd_rx_queue \o InHand(ftx) \o fwd_tx_queue
             \o fwd_retry_queue)

Counted == {p \in AllPrivs : p.kind # "stop"}

\* mem_usage_add() and mem_usage_del() are paired with the same amounts on
\* every path: the counters are those of the proxy_privs in the process.
MemAccounting ==
  proc = "up" =>
    /\ proxy_max_que_size > 0 => cur_use_que = Cardinality(Counted)
    /\ proxy_max_buf_size > 0 => cur_use_buf = MapThenSumSet(BufSize, Counted)

\* mem_usage_wait() and mem_usage_add() take the lock separately, and err_handle
\* does not wait: the limit is exceeded, but by no more than one request that
\* passed the test and one exit notice for every session.
QueueBound ==
  proxy_max_que_size > 0 =>
    cur_use_que <= proxy_max_que_size + 2 * Cardinality(Sessions)

\* While a request is on its way, the session it will be handed to is not freed.
SessionPinned ==
  \A p \in Counted : session[p.ses] # "freed"

\* What g_assert(g_async_queue_length(ps->tx_queue) == 0) checks when the
\* session is cleaned up: nothing is queued behind the exit notice.
TxQueueDrained ==
  \A s \in Sessions : tx[s] = "exited" => tx_queue[s] = <<>>

\* A block marked as cached is on the cache disk, unless a request on its way
\* (or waiting for a retry) fetches or overwrites it.
MarkedIsBacked ==
  proc = "up" => \A b \in cbitmap : \A x \in RunBytes(b, 1) :
    \/ cache[x] \in content[x]
    \/ \E p \in Counted :
         \/ b \in p.fetch
         \/ p.iotype = "WRITE" /\ x \in RangeOf(p)

\* Once a client's data is on the cache disk, no block from the remote server
\* replaces it.
WrittenStays ==
  [][\A x \in Bytes :
       cache[x] \notin {Remote, Zero, Junk} => cache'[x] \notin {Remote, Junk}]_vars

\* Without TRIM and until the first reconnect, a READ never returns what no
\* client and no remote server ever stored: a hole of the cache file, or data
\* that was received out of step.
NeverServesHole ==
  bounds.reconnects = 0 =>
    \A s \in Sessions, x \in Bytes : reply[s].data[x] \notin {Zero, Junk}

\* Until the first reconnect: when a request waits for a retry, no younger
\* request of its session has been performed.
RetryInOrder ==
  bounds.reconnects = 0 =>
    \A p \in Range(fwd_retry_queue) : \A q \in Range(tx_queue[p.ses]) :
      q.kind = "io" => q.num < p.num

\* When the proxy has ended in good order and never crashed before, the blocks
\* marked as cached are on the cache disk, so that the target mode can take it
\* over.
SwitchKeepsData ==
  proc = "exited" /\ bounds.crashes = 0 =>
    \A b \in cbitmap : \A x \in RunBytes(b, 1) : cache[x] \in content[x]

\* The main thread hears of every tx thread that has exited.
ExitNotified ==
  \A s \in Sessions :
    session[s] = "live" /\ tx[s] = "exited" => pipe[s] = "byte"

\* No thread of a session is alive in proxy_shutdown().
QuietShutdown ==
  main = "shutdown" =>
    \A s \in Sessions : rx[s] \in {"none", "exited"} /\ tx[s] \in {"none", "exited"}

\* No more requests are queued than --max-queue-size allows.
QueueWithinLimit ==
  proxy_max_que_size > 0 => cur_use_que <= proxy_max_que_size

\* A session whose client left or whose worker was told to end it is cleaned
\* up, if its pipe was there before its tx thread left its loop and the remote
\* connection never failed.
SessionEnds ==
  \A s \in Sessions \ BgctlSessions :
    (tx[s] = "run" /\ pipe[s] = "empty" /\ (wrk_fd[s] \/ ~client[s]))
      ~> (session[s] = "freed" \/ bounds.faults > 0 \/ proc # "up")

\* Every request that was received is replied while its client is there, however
\* small the limits are and as long as the remote connection has not failed.
RequestsAnswered ==
  \A s \in Sessions :
    accepted[s] > reply[s].num
      ~> (accepted[s] = reply[s].num \/ ~client[s] \/ bounds.faults > 0 \/ proc # "up")

\* A reconnect completes: forwarder_tx and forwarder_rx reach the stop marker
\* whatever the old connection did to them.
ReconnectCompletes == main = "rejoin" ~> (main = "poll" \/ proc # "up")

=============================================================================
