---------------------------- MODULE ProxyProofs ----------------------------
(***************************************************************************)
(* What holds of Proxy for every value of its constants: its type          *)
(* invariant, and that a request which waits for a retry has not been      *)
(* overtaken.  ProxyQueueProofs and ProxyExitProofs build on the types.    *)
(***************************************************************************)
EXTENDS Proxy, TLAPS

-----------------------------------------------------------------------------
(* Block indices *)

\* The quotient and the remainder that get_bindex_sta() and get_bindex_end()
\* are computed with.
LEMMA DivMod ==
  ASSUME NEW a \in Nat
  PROVE  /\ a \div CBLOCKSIZE \in Nat
         /\ a % CBLOCKSIZE \in 0 .. CBLOCKSIZE - 1
         /\ a = CBLOCKSIZE * (a \div CBLOCKSIZE) + (a % CBLOCKSIZE)
  BY CBlockSizeAssumption, SMTT(40)

\* A smaller offset is not in a later block.
LEMMA DivMono ==
  ASSUME NEW a \in Nat, NEW b \in Nat, a <= b
  PROVE  a \div CBLOCKSIZE <= b \div CBLOCKSIZE
  <1> DEFINE C == CBLOCKSIZE
             q == a \div C
             r == b \div C
  <1>1. C \in Nat \ {0} /\ q \in Nat /\ r \in Nat
    BY DivMod, CBlockSizeAssumption
  <1>2. a >= C * q /\ b < C * r + C
    BY DivMod, CBlockSizeAssumption, SMTT(40)
  <1>3. SUFFICES ASSUME q >= r + 1 PROVE FALSE
    BY <1>1, SMTT(40)
  <1>4. C * q >= C * (r + 1)
    BY <1>1, <1>3, SMTT(40)
  <1>5. C * (r + 1) = C * r + C
    BY <1>1, SMTT(40)
  <1> QED BY <1>1, <1>2, <1>4, <1>5, SMTT(40)

\* A request within the disk touches only blocks of the disk.
LEMMA BlockRangeInDisk ==
  ASSUME NEW iofrom \in Nat, NEW iolen \in Nat \ {0}, iofrom + iolen <= disksize
  PROVE  BlockRange(iofrom, iolen) \subseteq Blocks
  <1> DEFINE C == CBLOCKSIZE
             e == iofrom + iolen
  <1>1. e \in Nat /\ disksize \in Nat /\ e <= disksize /\ e > 0
    BY DiskSizeAssumption, SMTT(40)
  <1>2. iofrom \div C \in Nat
    BY DivMod
  <1>3. e \div C <= disksize \div C /\ e \div C \in Nat /\ disksize \div C \in Nat
    BY <1>1, DivMod, DivMono
  <1>4. ASSUME e % C # 0, disksize % C = 0 PROVE e \div C < disksize \div C
    <2>1. CASE e \div C = disksize \div C
      <3>1. e = C * (e \div C) + (e % C) /\ e % C \in Nat
        BY <1>1, DivMod, SMTT(40)
      <3>2. disksize = C * (disksize \div C)
        <4>1. disksize = C * (disksize \div C) + (disksize % C)
          BY <1>1, DivMod
        <4>2. C * (disksize \div C) \in Int
          BY <1>3, CBlockSizeAssumption, SMTT(40)
        <4> HIDE DEF C
        <4> QED BY <1>4, <4>1, <4>2, SMTT(40)
      <3>3. C * (e \div C) = C * (disksize \div C)
        BY <2>1
      <3> HIDE DEF C, e
      <3> QED BY <1>1, <1>3, <1>4, <3>1, <3>2, <3>3, SMTT(40)
    <2> QED BY <1>3, <2>1, SMTT(40)
  <1>5. get_bindex_end(e) <= get_disk_nblocks - 1
    BY <1>3, <1>4, SMTT(40) DEF get_bindex_end, get_disk_nblocks
  <1>6. get_disk_nblocks \in Int /\ get_bindex_end(e) \in Int
    BY <1>3, SMTT(40) DEF get_bindex_end, get_disk_nblocks
  <1> QED BY <1>2, <1>5, <1>6, SMTT(40) DEF BlockRange, Blocks, get_bindex_sta

\* The first and the last block of a request are blocks it touches.
LEMMA BlockRangeEnds ==
  ASSUME NEW iofrom \in Nat, NEW iolen \in Nat \ {0}
  PROVE  /\ get_bindex_sta(iofrom) \in BlockRange(iofrom, iolen)
         /\ get_bindex_end(iofrom + iolen) \in BlockRange(iofrom, iolen)
  <1> DEFINE C == CBLOCKSIZE
             e == iofrom + iolen
             q == iofrom \div C
             r == e \div C
  <1>1. C \in Nat \ {0} /\ q \in Nat /\ r \in Nat /\ q <= r
    BY DivMod, DivMono, CBlockSizeAssumption, SMTT(40)
  <1>2. ASSUME e % C = 0 PROVE q <= r - 1
    <2>1. iofrom >= C * q
      BY DivMod, CBlockSizeAssumption, SMTT(40)
    <2>2. e = C * r
      <3>1. e = C * r + (e % C) /\ C * r \in Int
        BY <1>1, DivMod, SMTT(40)
      <3> HIDE DEF r, C
      <3> QED BY <1>2, <3>1, SMTT(40)
    <2>3. C * q < C * r
      BY <2>1, <2>2, <1>1, SMTT(40)
    <2>4. q # r
      BY <2>3, <1>1, SMTT(40)
    <2> QED BY <1>1, <2>4, SMTT(40)
  <1> QED BY <1>1, <1>2, SMTT(40) DEF BlockRange, get_bindex_sta, get_bindex_end

USE Zenon

-----------------------------------------------------------------------------
(* The values proxy_privs take *)

\* Pushing to a queue.
LEMMA AppendType ==
  ASSUME NEW S, NEW q \in Seq(S), NEW x \in S
  PROVE  Append(q, x) \in Seq(S)
  BY SMTT(40)

\* Taking from a queue.
LEMMA PopType ==
  ASSUME NEW S, NEW q \in Seq(S), q # <<>>
  PROVE  Head(q) \in S /\ Tail(q) \in Seq(S)
  BY SMTT(40)

\* The stop marker has the shape of a proxy_priv and belongs to no session.
LEMMA StopType ==
  /\ priv_stop_forwarder \in Priv
  /\ priv_stop_forwarder.kind = "stop"
  BY DEF priv_stop_forwarder, Priv, PrivFields, NoData, Data, NoLimit

\* The stop marker is no request: an idle thread is well-typed.
LEMMA IdleType ==
  ASSUME NEW pc \in {"pop", "exited"}
  PROVE  Idle(pc) \in Threads
  BY StopType DEF Idle, Threads

\* The loops of the forwarder threads move on with the request in hand.
LEMMA LoopType ==
  ASSUME NEW t \in Threads, NEW n \in Nat
  PROVE  [t EXCEPT !.i = n] \in Threads
  BY DEF Threads

\* A forwarder thread takes a request in hand.
LEMMA BusyType ==
  ASSUME NEW p \in Priv, p.kind = "io"
  PROVE  [pc |-> "busy", priv |-> p, i |-> 1] \in Threads
  BY DEF Threads

\* What recv_request() fills in is a request within the disk.
LEMMA NewType ==
  ASSUME NEW s \in Sessions, NEW r \in Requests,
         accepted[s] \in 0 .. MaxReq, accepted[s] < MaxReq
  PROVE  NewPriv(s, r) \in Priv /\ NewPriv(s, r).kind = "io"
  <1>1. r \in [iotype : IoTypes, iofrom : Nat, iolen : Nat] /\ GoodRequest(r)
    BY RequestsAssumption
  <1>2. NewPriv(s, r) \in PrivFields
    BY <1>1, MaxReqAssumption, SMTT(40) DEF NewPriv, PrivFields, NoData, Data, NoLimit
  <1>3. GoodRequest(NewPriv(s, r))
    BY <1>1 DEF NewPriv, GoodRequest
  <1> QED BY <1>1, <1>2, <1>3, MaxReqAssumption, SMTT(40) DEF NewPriv, Priv

\* The notice at err_handle, with or without a write buffer.
LEMMA ExitType ==
  ASSUME NEW s \in Sessions, NEW buff \in {"none", "write"}, NEW iolen \in Nat
  PROVE  ExitPriv(s, buff, iolen) \in Priv
  BY DEF ExitPriv, priv_stop_forwarder, Priv, PrivFields, NoData, Data, NoLimit

\* Only blocks of the disk are fetched and marked, those of the request.
LEMMA TouchedInDisk ==
  ASSUME NEW p \in Priv, p.kind = "io", p.iotype \in {"READ", "WRITE", "CACHE"}
  PROVE  /\ BlockRange(p.iofrom, p.iolen) \subseteq Blocks
         /\ get_bindex_sta(p.iofrom) \in Blocks
         /\ get_bindex_end(p.iofrom + p.iolen) \in Blocks
  <1>1. /\ p.iofrom \in Nat /\ p.iolen \in Nat \ {0}
        /\ p.iofrom + p.iolen <= disksize
    BY SMTT(40) DEF Priv, PrivFields, GoodRequest
  <1> QED BY <1>1, BlockRangeInDisk, BlockRangeEnds DEF Blocks

\* Preparing a request marks blocks of the disk only.
LEMMA MarksType ==
  ASSUME NEW p \in Priv, p.kind = "io"
  PROVE  Marks(p) \subseteq Blocks
  BY TouchedInDisk DEF Marks

\* prepare_read_priv() and prepare_write_priv() keep a request a request, and
\* have it fetch blocks of the disk only.
LEMMA PrepareType ==
  ASSUME NEW p \in Priv, p.kind = "io"
  PROVE  Prepare(p) \in Priv /\ Prepare(p).kind = "io"
  <1>1. CASE p.prepare_done
    BY <1>1 DEF Prepare
  <1>2. CASE ~p.prepare_done /\ p.iotype = "WRITE"
    <2>1. /\ get_bindex_sta(p.iofrom) \in Blocks
          /\ get_bindex_end(p.iofrom + p.iolen) \in Blocks
      BY <1>2, TouchedInDisk
    <2> QED BY <1>2, <2>1 DEF Prepare, prepare_write_priv, Priv, PrivFields,
                              GoodRequest
  <1>3. CASE ~p.prepare_done /\ p.iotype \in {"READ", "CACHE"}
    <2>1. BlockRange(p.iofrom, p.iolen) \subseteq Blocks
      BY <1>3, TouchedInDisk
    <2> QED BY <1>3, <2>1 DEF Prepare, prepare_read_priv, Priv, PrivFields,
                              GoodRequest
  <1>4. CASE ~p.prepare_done /\ p.iotype \notin {"READ", "WRITE", "CACHE"}
    BY <1>4 DEF Prepare, Priv, PrivFields, GoodRequest
  <1> QED BY <1>1, <1>2, <1>3, <1>4

\* Storing a value in some bytes of a disk gives a disk.
LEMMA StoreType ==
  ASSUME NEW c \in [Bytes -> Values], NEW D, NEW v \in Values
  PROVE  Store(c, D, v) \in [Bytes -> Values]
  BY DEF Store

\* What a READ copies from the cache disk is the data of a reply.
LEMMA ReadBuffType ==
  ASSUME NEW p, cache \in [Bytes -> Values]
  PROVE  ReadBuff(p) \in Data
  BY DEF ReadBuff, Data

\* What a request writes is a value of a byte.
LEMMA WrittenType ==
  ASSUME NEW p \in Priv, p.kind = "io"
  PROVE  <<p.ses, p.num>> \in Values
  BY DEF Priv, Values

\* The values of a byte that come from no request.
LEMMA ConstantValues == Remote \in Values /\ Zero \in Values /\ Junk \in Values
  BY DEF Values

\* The history of the promise keeps its type when a request is accepted.
LEMMA ApplyType ==
  ASSUME NEW c \in [Bytes -> SUBSET Values], NEW p, NEW v \in Values
  PROVE  Apply(c, p, v) \in [Bytes -> SUBSET Values]
  <1> DEFINE F(x) == IF x \notin RangeOf(p) THEN c[x]
                     ELSE CASE p.iotype = "WRITE" -> {v}
                            [] p.iotype = "TRIM" -> c[x] \cup {Zero}
                            [] OTHER -> c[x]
  <1>1. ASSUME NEW x \in Bytes PROVE F(x) \in SUBSET Values
    BY <1>1, ConstantValues
  <1>2. Apply(c, p, v) = [x \in Bytes |-> F(x)]
    BY DEF Apply
  <1> QED BY <1>1, <1>2

\* The fields of a proxy_priv that are counted and sent.
LEMMA FieldsType ==
  ASSUME NEW p \in Priv
  PROVE  p.num \in Nat /\ p.read_buff \in Data /\ p.iolen \in Nat
  BY DEF Priv, PrivFields

\* A request keeps its type when what it may return is recorded in it.
LEMMA MayReturnType ==
  ASSUME NEW c \in [Bytes -> SUBSET Values], NEW p \in Priv
  PROVE  [p EXCEPT !.may = MayReturn(c, p)] \in Priv
  <1>1. MayReturn(c, p) \in [Bytes -> SUBSET (Values \cup {Empty})]
    BY DEF MayReturn
  <1> QED BY <1>1 DEF Priv, PrivFields, GoodRequest

\* So does a request that is kept for a retry or taken up again.
LEMMA RetryType ==
  ASSUME NEW p \in Priv, NEW b \in BOOLEAN
  PROVE  /\ [p EXCEPT !.need_retry = b] \in Priv
         /\ [p EXCEPT !.need_retry = b].kind = p.kind
         /\ [p EXCEPT !.need_retry = b].iotype = p.iotype
         /\ [p EXCEPT !.need_retry = b].ses = p.ses
         /\ [p EXCEPT !.need_retry = b].num = p.num
  BY DEF Priv, PrivFields, GoodRequest

\* And a request whose read buffer is filled.
LEMMA FilledType ==
  ASSUME NEW p \in Priv, NEW d \in Data
  PROVE  /\ [p EXCEPT !.read_buff = d] \in Priv
         /\ [p EXCEPT !.read_buff = d].ses = p.ses
  BY DEF Priv, PrivFields, GoodRequest

\* Counting a failure, a reconnect or a restart.
LEMMA BoundsType ==
  ASSUME NEW b \in [faults : Nat, reconnects : Nat, crashes : Nat]
  PROVE  /\ [b EXCEPT !.faults = b.faults + 1]
              \in [faults : Nat, reconnects : Nat, crashes : Nat]
         /\ [b EXCEPT !.reconnects = b.reconnects + 1]
              \in [faults : Nat, reconnects : Nat, crashes : Nat]
         /\ [b EXCEPT !.crashes = b.crashes + 1]
              \in [faults : Nat, reconnects : Nat, crashes : Nat]
  BY SMTT(40)

-----------------------------------------------------------------------------
(* Type correctness *)

orderVars == <<fwd_tx_queue, fwd_rx_queue, fwd_retry_queue, content>>
stateVars == <<conn, main, proc, bounds>>

\* A step keeps the types if it keeps those of the variables it changes.
LEMMA TypeKept ==
  ASSUME TypeOK,
         SesType' \/ UNCHANGED sesVars, RxType' \/ UNCHANGED rxVars,
         TxType' \/ UNCHANGED txVars, FtxType' \/ UNCHANGED ftxVars,
         FrxType' \/ UNCHANGED frxVars, QueueType' \/ UNCHANGED orderVars,
         MemType' \/ UNCHANGED memVars, ProcType' \/ UNCHANGED stateVars
  PROVE  TypeOK'
  <1>1. SesType /\ UNCHANGED sesVars => SesType'
    BY DEF SesType, sesVars
  <1>2. RxType /\ UNCHANGED rxVars => RxType'
    BY DEF RxType, rxVars
  <1>3. TxType /\ UNCHANGED txVars => TxType'
    BY DEF TxType, txVars
  <1>4. FtxType /\ UNCHANGED ftxVars => FtxType'
    BY DEF FtxType, ftxVars
  <1>5. FrxType /\ UNCHANGED frxVars => FrxType'
    BY DEF FrxType, frxVars
  <1>6. QueueType /\ UNCHANGED orderVars => QueueType'
    BY DEF QueueType, orderVars
  <1>7. MemType /\ UNCHANGED memVars => MemType'
    BY DEF MemType, memVars
  <1>8. ProcType /\ UNCHANGED stateVars => ProcType'
    BY DEF ProcType, stateVars
  <1> QED BY <1>1, <1>2, <1>3, <1>4, <1>5, <1>6, <1>7, <1>8 DEF TypeOK

\* The state proxy_initialize() and proxy_initialize_forwarder() set up.
LEMMA TypeInit == Init => TypeOK
  <1> SUFFICES ASSUME Init PROVE TypeOK
    OBVIOUS
  <1>1. SesType
    BY DEF Init, SesType
  <1>2. RxType
    BY StopType, MaxReqAssumption, SMTT(40) DEF Init, RxType
  <1>3. TxType
    <2>1. NoReply \in [num : Nat, data : Data]
      BY DEF NoReply, NoData, Data
    <2> QED BY <2>1, SMTT(40) DEF Init, TxType
  <1>4. FtxType /\ FrxType
    <2>1. Idle("pop") \in Threads /\ [x \in Bytes |-> Zero] \in [Bytes -> Values]
      BY IdleType, ConstantValues
    <2> QED BY <2>1 DEF Init, FtxType, FrxType
  <1>5. QueueType
    BY ConstantValues, SMTT(40) DEF Init, QueueType
  <1>6. MemType
    BY SMTT(40) DEF Init, MemType
  <1>7. ProcType
    BY DEF Init, ProcType
  <1> QED BY <1>1, <1>2, <1>3, <1>4, <1>5, <1>6, <1>7 DEF TypeOK

\* Every action of a session.
LEMMA TypeSession ==
  ASSUME TypeOK, NEW s \in Sessions, SessionStep(s)
  PROVE  TypeOK'
  \* The environment of a session: the client and the worker.
  <1>1. CASE ClientClose(s) \/ WorkerNotify(s)
    <2> USE <1>1
    <2>1. SesType'
      <3>1. SesType
        BY DEF TypeOK
      <3>2. \/ client' = [client EXCEPT ![s] = FALSE] /\ UNCHANGED wrk_fd
            \/ wrk_fd' = [wrk_fd EXCEPT ![s] = TRUE] /\ UNCHANGED client
        BY DEF ClientClose, WorkerNotify
      <3>3. UNCHANGED <<session, pipe>>
        BY DEF ClientClose, WorkerNotify
      <3> QED BY <3>1, <3>2, <3>3 DEF SesType
    <2>2. UNCHANGED <<rxVars, txVars, ftxVars, frxVars, memVars, orderVars, stateVars>>
      BY DEF ClientClose, WorkerNotify, orderVars, stateVars, procVars, netVars
    <2> QED BY <2>1, <2>2, TypeKept
  \* The rx thread receives a request and waits for memory.
  <1>2. CASE RxRecv(s) \/ RxWait(s)
    <2> USE <1>2
    <2>1. RxType
      BY DEF TypeOK
    <2>2. ASSUME RxRecv(s) PROVE RxType'
      <3>1. PICK r \in Requests : rx_priv' = [rx_priv EXCEPT ![s] = NewPriv(s, r)]
        BY <2>2 DEF RxRecv
      <3>2. /\ rx' = [rx EXCEPT ![s] = "wait"] /\ accepted[s] < MaxReq
            /\ accepted' = [accepted EXCEPT ![s] = accepted[s] + 1]
        BY <2>2 DEF RxRecv
      <3>3. NewPriv(s, r) \in Priv /\ NewPriv(s, r).kind = "io"
        BY <2>1, <3>2, NewType DEF RxType
      <3>4. accepted' \in [Sessions -> 0 .. MaxReq]
        BY <2>1, <3>2, MaxReqAssumption, SMTT(40) DEF RxType
      <3> QED BY <2>1, <3>1, <3>2, <3>3, <3>4 DEF RxType
    <2>3. ASSUME RxWait(s) PROVE RxType'
      BY <2>1, <2>3 DEF RxWait, RxType
    <2>4. UNCHANGED <<sesVars, txVars, ftxVars, frxVars, memVars, orderVars, stateVars>>
      BY DEF RxRecv, RxWait, orderVars, stateVars, procVars, netVars
    <2> QED BY <2>2, <2>3, <2>4, TypeKept
  \* The rx thread pushes its request.
  <1>3. CASE RxPush(s)
    <2> USE <1>3
    <2> DEFINE p == rx_priv[s]
               q == [p EXCEPT !.may = MayReturn(content, p)]
    <2>1. RxType /\ QueueType /\ MemType
      BY DEF TypeOK
    <2>2. /\ rx[s] = "add" /\ mem_usage_add(p)
          /\ fwd_tx_queue' = Append(fwd_tx_queue, q)
          /\ content' = Apply(content, p, <<s, p.num>>)
          /\ rx' = [rx EXCEPT ![s] = "recv"]
          /\ rx_priv' = [rx_priv EXCEPT ![s] = priv_stop_forwarder]
          /\ UNCHANGED <<accepted, fwd_rx_queue, fwd_retry_queue>>
      BY DEF RxPush
    <2>3. p \in Priv /\ p.kind = "io"
      BY <2>1, <2>2 DEF RxType
    <2>4. RxType'
      BY <2>1, <2>2, StopType DEF RxType
    <2>5. QueueType'
      <3>1. q \in Priv
        BY <2>1, <2>3, MayReturnType DEF QueueType
      <3>2. <<s, p.num>> \in Values
        BY <2>3 DEF Priv, Values
      <3>3. content' \in [Bytes -> SUBSET Values]
        BY <2>1, <2>2, <3>2, ApplyType DEF QueueType
      <3>4. fwd_tx_queue' \in Seq(Priv)
        BY <2>1, <2>2, <3>1, AppendType DEF QueueType
      <3> QED BY <2>1, <2>2, <3>3, <3>4 DEF QueueType
    <2>6. MemType'
      <3>1. p.iolen \in Nat
        BY <2>3, FieldsType
      <3> HIDE DEF p
      <3> QED BY <2>1, <2>2, <3>1, LimitsAssumption, SMTT(40) DEF MemType, mem_usage_add, BufSize
    <2>7. UNCHANGED <<sesVars, txVars, ftxVars, frxVars, stateVars>>
      BY DEF RxPush, stateVars, procVars, netVars
    <2> QED BY <2>4, <2>5, <2>6, <2>7, TypeKept
  \* The rx thread ends.
  <1>4. CASE RxTerminate(s)
    <2> USE <1>4
    <2> DEFINE P == {ExitPriv(s, "none", 0)} \cup
                {ExitPriv(s, "write", r.iolen) :
                   r \in {q \in Requests : q.iotype = "WRITE" /\ ~client[s]
                                           /\ ~wrk_fd[s] /\ Serviceable(s, q)}}
    <2>1. RxType /\ QueueType /\ MemType
      BY DEF TypeOK
    <2>2. P \subseteq Priv
      <3>1. \A r \in Requests : r.iolen \in Nat
        BY RequestsAssumption
      <3>2. ExitPriv(s, "none", 0) \in Priv
        BY ExitType
      <3>3. \A r \in Requests : ExitPriv(s, "write", r.iolen) \in Priv
        BY <3>1, ExitType
      <3> QED BY <3>2, <3>3
    <2>3. \E p \in P : mem_usage_add(p) /\ fwd_tx_queue' = Append(fwd_tx_queue, p)
      BY DEF RxTerminate
    <2> HIDE DEF P
    <2>4. PICK p \in Priv : mem_usage_add(p) /\ fwd_tx_queue' = Append(fwd_tx_queue, p)
      BY <2>2, <2>3
    <2>5. /\ rx' = [rx EXCEPT ![s] = "exited"]
          /\ UNCHANGED <<rx_priv, accepted, fwd_rx_queue, fwd_retry_queue, content>>
      BY DEF RxTerminate
    <2>6. RxType'
      BY <2>1, <2>5 DEF RxType
    <2>7. QueueType'
      BY <2>1, <2>4, <2>5, AppendType DEF QueueType
    <2>8. MemType'
      <3>1. p.iolen \in Nat
        BY <2>4, FieldsType
      <3> QED BY <2>1, <2>4, <3>1, LimitsAssumption, SMTT(40) DEF MemType, mem_usage_add, BufSize
    <2>9. UNCHANGED <<sesVars, txVars, ftxVars, frxVars, stateVars>>
      BY DEF RxTerminate, stateVars, procVars, netVars
    <2> QED BY <2>6, <2>7, <2>8, <2>9, TypeKept
  \* The tx thread takes a proxy_priv from its queue.
  <1>5. CASE TxPop(s)
    <2> USE <1>5
    <2> DEFINE p == Head(tx_queue[s])
               r == [num |-> p.num, data |-> p.read_buff]
    <2>1. TxType /\ MemType
      BY DEF TypeOK
    <2>2. /\ tx_queue[s] # <<>> /\ mem_usage_del(p)
          /\ tx_queue' = [tx_queue EXCEPT ![s] = Tail(tx_queue[s])]
      BY DEF TxPop
    <2>3. p \in Priv /\ Tail(tx_queue[s]) \in Seq(Priv)
      BY <2>1, <2>2, PopType DEF TxType
    <2>4. p.num \in Nat /\ p.read_buff \in Data /\ p.iolen \in Nat
      BY <2>3, FieldsType
    <2>5. MemType'
      <3> HIDE DEF p
      <3> QED BY <2>1, <2>2, <2>4, LimitsAssumption, SMTT(40) DEF MemType, mem_usage_del, BufSize
    <2>6. TxType'
      <3>1. tx' = tx \/ tx' = [tx EXCEPT ![s] = "notify"]
        BY DEF TxPop
      <3>2. need_skip' = need_skip \/ need_skip' = [need_skip EXCEPT ![s] = TRUE]
        BY DEF TxPop
      <3>3. reply' = reply \/ reply' = [reply EXCEPT ![s] = r]
        BY DEF TxPop
      <3>4. r \in [num : Nat, data : Data]
        BY <2>4
      <3>5. tx_queue' \in [Sessions -> Seq(Priv)]
        BY <2>1, <2>2, <2>3 DEF TxType
      <3> HIDE DEF p, r
      <3>6. reply' \in [Sessions -> [num : Nat, data : Data]]
        BY <2>1, <3>3, <3>4 DEF TxType
      <3> QED BY <2>1, <3>1, <3>2, <3>5, <3>6 DEF TxType
    <2>7. UNCHANGED <<sesVars, rxVars, ftxVars, frxVars, orderVars, stateVars>>
      BY DEF TxPop, orderVars, stateVars, procVars, netVars
    <2> QED BY <2>5, <2>6, <2>7, TypeKept
  \* The tx thread ends.
  <1>6. CASE TxNotify(s)
    <2> USE <1>6
    <2>1. SesType'
      BY DEF TypeOK, SesType, TxNotify
    <2>2. TxType'
      BY DEF TypeOK, TxType, TxNotify
    <2>3. ProcType'
      BY DEF TypeOK, ProcType, TxNotify, netVars
    <2>4. UNCHANGED <<rxVars, ftxVars, frxVars, memVars, orderVars>>
      BY DEF TxNotify, orderVars
    <2> QED BY <2>1, <2>2, <2>3, <2>4, TypeKept
  \* The main thread sets a session up ...
  <1>7. CASE RegisterFd(s)
    <2> USE <1>7
    <2>1. SesType /\ RxType /\ TxType /\ ProcType
      BY DEF TypeOK
    <2>2. /\ session' = [session EXCEPT ![s] = "live"]
          /\ client' = [client EXCEPT ![s] = TRUE]
          /\ UNCHANGED <<wrk_fd, pipe>>
      BY DEF RegisterFd
    <2>3. SesType'
      BY <2>1, <2>2 DEF SesType
    <2>4. RxType'
      BY <2>1 DEF RxType, RegisterFd
    <2>5. tx' = [tx EXCEPT ![s] = "run"] /\ UNCHANGED <<need_skip, tx_queue, reply>>
      BY DEF RegisterFd
    <2>6. TxType'
      BY <2>1, <2>5 DEF TxType
    <2>7. main' = "register" /\ UNCHANGED <<conn, proc, bounds>>
      BY DEF RegisterFd, netVars
    <2>8. ProcType'
      BY <2>1, <2>7 DEF ProcType
    <2>9. UNCHANGED <<ftxVars, frxVars, memVars, orderVars>>
      BY DEF RegisterFd, orderVars
    <2> QED BY <2>3, <2>4, <2>6, <2>8, <2>9, TypeKept
  \* ... makes its pipe ...
  <1>8. CASE MakePipe(s)
    <2> USE <1>8
    <2>1. SesType /\ ProcType
      BY DEF TypeOK
    <2>2. /\ pipe' = [pipe EXCEPT ![s] = "empty"] /\ main' = "poll"
          /\ UNCHANGED <<session, client, wrk_fd, conn, proc, bounds>>
      BY DEF MakePipe, netVars
    <2>3. SesType'
      BY <2>1, <2>2 DEF SesType
    <2>4. ProcType'
      BY <2>1, <2>2 DEF ProcType
    <2>5. UNCHANGED <<rxVars, txVars, ftxVars, frxVars, memVars, orderVars>>
      BY DEF MakePipe, orderVars
    <2> QED BY <2>3, <2>4, <2>5, TypeKept
  \* ... and takes it down.
  <1>9. CASE Cleanup(s)
    <2> USE <1>9
    <2>1. SesType /\ TxType /\ ProcType
      BY DEF TypeOK
    <2>2. /\ \/ /\ session' = [session EXCEPT ![s] = "freed"]
                /\ client' = [client EXCEPT ![s] = FALSE]
                /\ wrk_fd' = [wrk_fd EXCEPT ![s] = FALSE]
                /\ pipe' = [pipe EXCEPT ![s] = "unset"]
             \/ UNCHANGED <<session, client, wrk_fd, pipe>>
          /\ need_skip' = need_skip \/ need_skip' = [need_skip EXCEPT ![s] = FALSE]
          /\ UNCHANGED <<tx, tx_queue, reply>>
          /\ proc' = proc \/ proc' = "aborted"
          /\ UNCHANGED <<conn, main, bounds>>
      BY DEF Cleanup, netVars, sesVars
    <2>3. SesType'
      BY <2>1, <2>2 DEF SesType
    <2>4. TxType'
      BY <2>1, <2>2 DEF TxType
    <2>5. ProcType'
      BY <2>1, <2>2 DEF ProcType
    <2>6. UNCHANGED <<rxVars, ftxVars, frxVars, memVars, orderVars>>
      BY DEF Cleanup, orderVars
    <2> QED BY <2>3, <2>4, <2>5, <2>6, TypeKept
  <1> QED BY <1>1, <1>2, <1>3, <1>4, <1>5, <1>6, <1>7, <1>8, <1>9 DEF SessionStep

-----------------------------------------------------------------------------
(* The forwarder threads *)

\* A request reaches the tx queue of its session, or the process goes down.
LEMMA HandType ==
  ASSUME TxType, ProcType, NEW p \in Priv, p.ses \in Sessions, HandToTxQueue(p)
  PROVE  /\ tx_queue' \in [Sessions -> Seq(Priv)]
         /\ proc' \in {"up", "aborted", "exited"}
  <1>1. tx_queue \in [Sessions -> Seq(Priv)] /\ proc \in {"up", "aborted", "exited"}
    BY DEF TxType, ProcType
  <1>2. Append(tx_queue[p.ses], p) \in Seq(Priv)
    BY <1>1, AppendType
  <1>3. \/ /\ tx_queue' = [tx_queue EXCEPT ![p.ses] = Append(tx_queue[p.ses], p)]
           /\ proc' = proc
        \/ tx_queue' = tx_queue /\ proc' = "aborted"
    BY DEF HandToTxQueue
  <1> QED BY <1>1, <1>2, <1>3

\* Every action of the forwarder threads.
LEMMA TypeForwarder ==
  ASSUME TypeOK, ForwarderStep
  PROVE  TypeOK'
  \* forwarder_tx takes a proxy_priv from its queue.
  <1>1. CASE FwdTxPop
    <2> USE <1>1
    <2> DEFINE p == Head(fwd_tx_queue)
               busy(q) == [pc |-> "busy", priv |-> q, i |-> 1]
    <2>1. FtxType /\ QueueType /\ ProcType
      BY DEF TypeOK
    <2>2. /\ fwd_tx_queue # <<>> /\ fwd_tx_queue' = Tail(fwd_tx_queue)
          /\ \/ p.kind = "stop" /\ ftx' = Idle("exited") /\ cbitmap' = cbitmap
             \/ p.kind = "exit" /\ ftx' = ftx /\ cbitmap' = cbitmap
             \/ /\ p.kind = "io" /\ ftx' = busy(Prepare(p))
                /\ cbitmap' = cbitmap \cup Marks(p)
             \/ /\ p.kind = "io" /\ ftx' = busy(p)
                /\ cbitmap' = cbitmap \cup MarkedUntilAbort(p, Prepare(p))
      BY DEF FwdTxPop, ftxVars
    <2>3. /\ fwd_rx_queue' = fwd_rx_queue \/ fwd_rx_queue' = Append(fwd_rx_queue, p)
          /\ sending_failed' = sending_failed
          /\ proc' = proc \/ proc' = "aborted"
          /\ UNCHANGED <<fwd_retry_queue, content, conn, main, bounds>>
      BY DEF FwdTxPop, ftxVars, netVars
    <2>4. p \in Priv /\ Tail(fwd_tx_queue) \in Seq(Priv)
      BY <2>1, <2>2, PopType DEF QueueType
    <2> HIDE DEF p
    <2>5. QueueType'
      <3>1. Append(fwd_rx_queue, p) \in Seq(Priv)
        BY <2>1, <2>4, AppendType DEF QueueType
      <3> QED BY <2>1, <2>2, <2>3, <2>4, <3>1 DEF QueueType
    <2>6. FtxType'
      <3>1. /\ Idle("exited") \in Threads
            /\ p.kind = "io" => busy(p) \in Threads /\ busy(Prepare(p)) \in Threads
        BY <2>4, PrepareType, IdleType, BusyType
      <3>2. /\ p.kind = "io" => Marks(p) \subseteq Blocks
            /\ MarkedUntilAbort(p, Prepare(p)) \subseteq Marks(p)
        BY <2>4, MarksType DEF MarkedUntilAbort
      <3> HIDE DEF busy
      <3>3. cbitmap' \in SUBSET Blocks
        BY <2>1, <2>2, <3>2 DEF FtxType
      <3> QED BY <2>1, <2>2, <2>3, <3>1, <3>3 DEF FtxType
    <2>7. ProcType'
      BY <2>1, <2>3 DEF ProcType
    <2>8. UNCHANGED <<sesVars, rxVars, txVars, frxVars, memVars>>
      BY DEF FwdTxPop
    <2> QED BY <2>5, <2>6, <2>7, <2>8, TypeKept
  \* forwarder_tx sends a remote read.
  <1>2. CASE FwdTxSend
    <2> USE <1>2
    <2>1. ftx \in Threads /\ sending_failed \in BOOLEAN /\ cbitmap \in SUBSET Blocks
      BY DEF TypeOK, FtxType
    <2>2. ftx.i \in Nat
      BY <2>1 DEF Threads
    <2>3. ftx' = [ftx EXCEPT !.i = ftx.i + 1] \/ ftx' = [ftx EXCEPT !.i = 0]
      BY DEF FwdTxSend
    <2>4. ftx' \in Threads
      BY <2>1, <2>2, <2>3, LoopType, SMTT(40)
    <2>5. (sending_failed' = sending_failed \/ sending_failed' = TRUE)
          /\ cbitmap' = cbitmap
      BY DEF FwdTxSend
    <2>6. FtxType'
      BY <2>1, <2>4, <2>5 DEF FtxType
    <2>7. UNCHANGED <<sesVars, rxVars, txVars, frxVars, memVars, orderVars, stateVars>>
      BY DEF FwdTxSend, orderVars, stateVars, procVars
    <2> QED BY <2>6, <2>7, TypeKept
  \* forwarder_tx passes the request on.
  <1>3. CASE FwdTxPush
    <2> USE <1>3
    <2> DEFINE b == ftx.priv.need_retry \/ sending_failed
               p == [ftx.priv EXCEPT !.need_retry = b]
    <2>1. FtxType /\ QueueType
      BY DEF TypeOK
    <2>2. /\ ftx' = Idle("pop") /\ fwd_rx_queue' = Append(fwd_rx_queue, p)
          /\ UNCHANGED <<sending_failed, cbitmap, fwd_tx_queue, fwd_retry_queue,
                         content>>
      BY DEF FwdTxPush
    <2>3. p \in Priv
      <3>1. ftx.priv \in Priv
        BY <2>1 DEF FtxType, Threads
      <3>2. b \in BOOLEAN
        OBVIOUS
      <3> HIDE DEF b
      <3> QED BY <3>1, <3>2, RetryType
    <2> HIDE DEF p
    <2>4. QueueType'
      <3>1. Append(fwd_rx_queue, p) \in Seq(Priv)
        BY <2>1, <2>3, AppendType DEF QueueType
      <3> QED BY <2>1, <2>2, <3>1 DEF QueueType
    <2>5. FtxType'
      <3>1. Idle("pop") \in Threads
        BY IdleType
      <3> QED BY <2>1, <2>2, <3>1 DEF FtxType
    <2>6. UNCHANGED <<sesVars, rxVars, txVars, frxVars, memVars, stateVars>>
      BY DEF FwdTxPush, stateVars, procVars, netVars
    <2> QED BY <2>4, <2>5, <2>6, TypeKept
  \* forwarder_rx takes a proxy_priv from its queue.
  <1>4. CASE FwdRxPop
    <2> USE <1>4
    <2> DEFINE p == Head(fwd_rx_queue)
               busy == [pc |-> "busy", priv |-> p, i |-> 1]
    <2>1. FrxType /\ QueueType /\ ProcType /\ TxType
      BY DEF TypeOK
    <2>2. /\ fwd_rx_queue # <<>> /\ fwd_rx_queue' = Tail(fwd_rx_queue)
          /\ \/ /\ p.kind = "stop" /\ frx' = Idle("exited")
                /\ UNCHANGED <<tx_queue, proc>>
             \/ p.kind = "exit" /\ frx' = frx /\ HandToTxQueue(p)
             \/ p.kind = "io" /\ frx' = busy /\ UNCHANGED <<tx_queue, proc>>
      BY DEF FwdRxPop
    <2>3. UNCHANGED <<receiving_failed, cache, fwd_tx_queue, fwd_retry_queue, content,
                      conn, main, bounds, tx, need_skip, reply>>
      BY DEF FwdRxPop, netVars
    <2>4. p \in Priv /\ Tail(fwd_rx_queue) \in Seq(Priv)
      BY <2>1, <2>2, PopType DEF QueueType
    <2>5. p.kind = "exit" => p.ses \in Sessions
      BY <2>4 DEF Priv
    <2>6. FrxType'
      <3>1. Idle("exited") \in Threads /\ (p.kind = "io" => busy \in Threads)
        BY <2>4, IdleType, BusyType
      <3> HIDE DEF busy, p
      <3> QED BY <2>1, <2>2, <2>3, <3>1 DEF FrxType
    <2>7. QueueType'
      BY <2>1, <2>2, <2>3, <2>4 DEF QueueType
    <2>8. /\ tx_queue' \in [Sessions -> Seq(Priv)]
          /\ proc' \in {"up", "aborted", "exited"}
      <3>1. CASE HandToTxQueue(p) /\ p.kind = "exit"
        BY <2>1, <2>4, <2>5, <3>1, HandType
      <3>2. CASE UNCHANGED <<tx_queue, proc>>
        BY <2>1, <3>2 DEF TxType, ProcType
      <3> QED BY <2>2, <3>1, <3>2
    <2>9. TxType' /\ ProcType'
      BY <2>1, <2>3, <2>8 DEF TxType, ProcType
    <2>10. UNCHANGED <<sesVars, rxVars, ftxVars, memVars>>
      BY DEF FwdRxPop
    <2> QED BY <2>6, <2>7, <2>9, <2>10, TypeKept
  \* forwarder_rx receives a reply of the remote server.
  <1>5. CASE FwdRxRecv
    <2> USE <1>5
    <2> DEFINE want == RemoteReads(frx.priv)[frx.i]
               D == RunBytes(want.bindex_iofrom, want.bindex_iolen)
               data == IF wire # <<>> /\ Head(wire) = want THEN Remote ELSE Junk
               part == IF receiving_failed THEN Junk ELSE Remote
    <2>1. FrxType /\ ProcType
      BY DEF TypeOK
    <2>2. cache' \in [Bytes -> Values]
      <3>1. \/ cache' = cache
            \/ cache' = Store(cache, D, data)
            \/ \E n \in D : cache' = Store(cache, {x \in D : x < n}, part)
        BY DEF FwdRxRecv
      <3>2. data \in Values /\ part \in Values
        BY ConstantValues
      <3>3. cache \in [Bytes -> Values]
        BY <2>1 DEF FrxType
      <3> HIDE DEF D, data, part
      <3>4. Store(cache, D, data) \in [Bytes -> Values]
        BY <3>2, <3>3, StoreType
      <3>5. \A n \in D : Store(cache, {x \in D : x < n}, part) \in [Bytes -> Values]
        BY <3>2, <3>3, StoreType
      <3> QED BY <3>1, <3>3, <3>4, <3>5
    <2>3. frx' \in Threads
      <3>1. frx \in Threads /\ frx.i \in Nat
        BY <2>1 DEF FrxType, Threads
      <3>2. frx' = [frx EXCEPT !.i = frx.i + 1] \/ frx' = [frx EXCEPT !.i = 0]
        BY DEF FwdRxRecv
      <3> QED BY <3>1, <3>2, LoopType, SMTT(40)
    <2>4. receiving_failed' = receiving_failed \/ receiving_failed' = TRUE
      BY DEF FwdRxRecv
    <2>5. FrxType'
      BY <2>1, <2>2, <2>3, <2>4 DEF FrxType
    <2>6. ProcType'
      <3>1. /\ bounds' = bounds \/ bounds' = [bounds EXCEPT !.faults = bounds.faults + 1]
            /\ UNCHANGED <<conn, main, proc>>
        BY DEF FwdRxRecv
      <3> QED BY <2>1, <3>1, BoundsType DEF ProcType
    <2>7. UNCHANGED <<sesVars, rxVars, txVars, ftxVars, memVars, orderVars>>
      BY DEF FwdRxRecv, orderVars
    <2> QED BY <2>5, <2>6, <2>7, TypeKept
  \* forwarder_rx performs a request, or keeps it for a retry.
  <1>6. CASE FwdRxFinish
    <2> USE <1>6
    <2> DEFINE p == [frx.priv EXCEPT !.need_retry = NeedRetry(frx.priv)]
               q == [p EXCEPT !.read_buff = ReadBuff(p)]
    <2>1. FrxType /\ QueueType /\ ProcType /\ TxType
      BY DEF TypeOK
    <2>2. /\ frx.pc = "busy" /\ frx' = Idle("pop")
          /\ \/ /\ fwd_retry_queue' = Append(fwd_retry_queue, p)
                /\ UNCHANGED <<cache, tx_queue, proc>>
             \/ /\ Perform(p) /\ HandToTxQueue(q)
                /\ UNCHANGED fwd_retry_queue
      BY DEF FwdRxFinish
    <2>3. UNCHANGED <<receiving_failed, fwd_tx_queue, fwd_rx_queue, content,
                      conn, main, bounds, tx, need_skip, reply>>
      BY DEF FwdRxFinish, netVars
    <2>4. cache \in [Bytes -> Values] /\ frx.priv \in Priv /\ frx.priv.kind = "io"
      BY <2>1, <2>2 DEF FrxType, Threads
    <2>5. p \in Priv /\ p.kind = "io"
      <3>1. NeedRetry(frx.priv) \in BOOLEAN
        BY DEF NeedRetry
      <3> QED BY <2>4, <3>1, RetryType
    <2> HIDE DEF p
    <2>6. p.ses \in Sessions
      BY <2>5 DEF Priv
    <2>7. q \in Priv /\ q.ses \in Sessions
      BY <2>4, <2>5, <2>6, ReadBuffType, FilledType
    <2> HIDE DEF q
    <2>8. FrxType'
      <3>1. cache' \in [Bytes -> Values]
        <4>1. ASSUME Perform(p) PROVE cache' \in [Bytes -> Values]
          <5>1. /\ Store(cache, RangeOf(p), <<p.ses, p.num>>) \in [Bytes -> Values]
                /\ Store(cache, RangeOf(p), Zero) \in [Bytes -> Values]
            BY <2>4, <2>5, StoreType, WrittenType, ConstantValues
          <5> QED BY <2>4, <4>1, <5>1 DEF Perform
        <4> QED BY <2>2, <2>4, <4>1
      <3>2. Idle("pop") \in Threads
        BY IdleType
      <3> QED BY <2>1, <2>2, <2>3, <3>1, <3>2 DEF FrxType
    <2>9. QueueType'
      <3>1. Append(fwd_retry_queue, p) \in Seq(Priv)
        BY <2>1, <2>5, AppendType DEF QueueType
      <3> QED BY <2>1, <2>2, <2>3, <3>1 DEF QueueType
    <2>10. /\ tx_queue' \in [Sessions -> Seq(Priv)]
           /\ proc' \in {"up", "aborted", "exited"}
      <3>1. CASE HandToTxQueue(q)
        BY <2>1, <2>7, <3>1, HandType
      <3>2. CASE UNCHANGED <<tx_queue, proc>>
        BY <2>1, <3>2 DEF TxType, ProcType
      <3> QED BY <2>2, <3>1, <3>2
    <2>11. TxType' /\ ProcType'
      BY <2>1, <2>3, <2>10 DEF TxType, ProcType
    <2>12. UNCHANGED <<sesVars, rxVars, ftxVars, memVars>>
      BY DEF FwdRxFinish
    <2> QED BY <2>8, <2>9, <2>11, <2>12, TypeKept
  <1> QED BY <1>1, <1>2, <1>3, <1>4, <1>5, <1>6 DEF ForwarderStep

-----------------------------------------------------------------------------
(* The main thread, failures and the theorem *)

\* The other steps of the main thread, and failures.
LEMMA TypeOthers ==
  ASSUME TypeOK,
         \/ QueryStatus \/ ExitShutdown \/ ExitProcess
         \/ LoseConnection \/ Crash \/ UNCHANGED vars
  PROVE  TypeOK'
  <1>1. ProcType
    BY DEF TypeOK
  <1>2. /\ conn' = conn \/ conn' = "lost"
        /\ main' = main \/ main' = "shutdown"
        /\ proc' = proc \/ proc' \in {"exited", "aborted"}
        /\ bounds' = bounds \/ bounds' = [bounds EXCEPT !.faults = bounds.faults + 1]
    BY DEF QueryStatus, ExitShutdown, ExitProcess, LoseConnection, Crash,
                 vars, procVars, netVars
  <1>3. ProcType'
    BY <1>1, <1>2, BoundsType DEF ProcType
  <1>4. UNCHANGED <<sesVars, rxVars, txVars, ftxVars, frxVars, memVars, orderVars>>
    BY DEF QueryStatus, ExitShutdown, ExitProcess, LoseConnection, Crash,
                 vars, orderVars
  <1> QED BY <1>3, <1>4, TypeKept

\* Every step keeps the types, a stuttering one included.
LEMMA TypeStep ==
  ASSUME TypeOK, [Next]_vars
  PROVE  TypeOK'
  \* The stop marker is pushed, for a reconnect or for the exit.
  <1>1. CASE ReconnectStart \/ ExitRequest
    <2> USE <1>1
    <2>1. QueueType /\ ProcType
      BY DEF TypeOK
    <2>2. /\ main' \in {"rejoin", "exitjoin"}
          /\ fwd_tx_queue' = Append(fwd_tx_queue, priv_stop_forwarder)
          /\ \/ bounds' = bounds
             \/ bounds' = [bounds EXCEPT !.reconnects = bounds.reconnects + 1]
          /\ UNCHANGED <<conn, proc, fwd_rx_queue, fwd_retry_queue, content>>
      BY DEF ReconnectStart, ExitRequest, StopForwarder, netVars
    <2>3. QueueType'
      <3>1. Append(fwd_tx_queue, priv_stop_forwarder) \in Seq(Priv)
        BY <2>1, StopType, AppendType DEF QueueType
      <3> QED BY <2>1, <2>2, <3>1 DEF QueueType
    <2>4. ProcType'
      BY <2>1, <2>2, BoundsType DEF ProcType
    <2>5. UNCHANGED <<sesVars, rxVars, txVars, ftxVars, frxVars, memVars>>
      BY DEF ReconnectStart, ExitRequest
    <2> QED BY <2>3, <2>4, <2>5, TypeKept
  \* The loop over fwd_retry_queue.
  <1>2. CASE ReconnectRetry
    <2> USE <1>2
    <2> DEFINE p == [Head(fwd_retry_queue) EXCEPT !.need_retry = FALSE]
    <2>1. QueueType
      BY DEF TypeOK
    <2>2. /\ fwd_retry_queue # <<>> /\ fwd_retry_queue' = Tail(fwd_retry_queue)
          /\ fwd_tx_queue' = Append(fwd_tx_queue, p)
          /\ UNCHANGED <<fwd_rx_queue, content>>
      BY DEF ReconnectRetry, g_async_queue_push_unshift
    <2>3. Head(fwd_retry_queue) \in Priv /\ Tail(fwd_retry_queue) \in Seq(Priv)
      BY <2>1, <2>2, PopType DEF QueueType
    <2>4. p \in Priv
      BY <2>3, RetryType
    <2> HIDE DEF p
    <2>5. Append(fwd_tx_queue, p) \in Seq(Priv)
      BY <2>1, <2>4, AppendType DEF QueueType
    <2>6. QueueType'
      BY <2>1, <2>2, <2>3, <2>5 DEF QueueType
    <2>7. UNCHANGED <<sesVars, rxVars, txVars, ftxVars, frxVars, memVars, stateVars>>
      BY DEF ReconnectRetry, stateVars, procVars, netVars
    <2> QED BY <2>6, <2>7, TypeKept
  \* The forwarder threads are started anew.
  <1>3. CASE ReconnectFinish
    <2> USE <1>3
    <2>1. FtxType /\ FrxType /\ ProcType
      BY DEF TypeOK
    <2>2. /\ main' = "poll" /\ conn' = "up"
          /\ ftx' = Idle("pop") /\ sending_failed' = FALSE
          /\ frx' = Idle("pop") /\ receiving_failed' = FALSE
          /\ UNCHANGED <<cbitmap, cache, proc, bounds>>
      BY DEF ReconnectFinish
    <2>3. FtxType' /\ FrxType'
      <3>1. Idle("pop") \in Threads
        BY IdleType
      <3> QED BY <2>1, <2>2, <3>1 DEF FtxType, FrxType
    <2>4. ProcType'
      BY <2>1, <2>2 DEF ProcType
    <2>5. UNCHANGED <<sesVars, rxVars, txVars, memVars, orderVars>>
      BY DEF ReconnectFinish, orderVars
    <2> QED BY <2>3, <2>4, <2>5, TypeKept
  \* The restart after a crash.
  <1>4. CASE Restart
    <2> USE <1>4
    <2>1. /\ SesType /\ RxType /\ TxType /\ FtxType /\ FrxType /\ QueueType
          /\ ProcType
      BY DEF TypeOK
    <2>2. SesType'
      <3>1. session' \in [Sessions -> {"unborn", "live", "freed"}]
        BY <2>1 DEF SesType, Restart
      <3>2. UNCHANGED <<client, wrk_fd, pipe>>
        BY DEF Restart
      <3> QED BY <2>1, <3>1, <3>2 DEF SesType
    <2>3. RxType'
      <3>1. rx' = [s \in Sessions |-> IF rx[s] = "none" THEN "none" ELSE "exited"]
            /\ UNCHANGED <<rx_priv, accepted>>
        BY DEF Restart
      <3> QED BY <2>1, <3>1 DEF RxType
    <2>4. TxType'
      <3>1. /\ tx' = [s \in Sessions |-> IF tx[s] = "none" THEN "none" ELSE "exited"]
            /\ tx_queue' = [s \in Sessions |-> <<>>]
            /\ UNCHANGED <<need_skip, reply>>
        BY DEF Restart
      <3>2. /\ tx' \in [Sessions -> {"none", "run", "notify", "exited"}]
            /\ tx_queue' \in [Sessions -> Seq(Priv)]
        BY <3>1, SMTT(40)
      <3> QED BY <2>1, <3>1, <3>2 DEF TxType
    <2>5. FtxType' /\ FrxType'
      <3>1. Idle("pop") \in Threads
        BY IdleType
      <3>2. /\ ftx' = Idle("pop") /\ sending_failed' = FALSE
            /\ frx' = Idle("pop") /\ receiving_failed' = FALSE
            /\ UNCHANGED <<cbitmap, cache>>
        BY DEF Restart, OpenBitmap
      <3> QED BY <2>1, <3>1, <3>2 DEF FtxType, FrxType
    <2>6. QueueType'
      <3>1. /\ fwd_tx_queue' = <<>> /\ fwd_rx_queue' = <<>> /\ fwd_retry_queue' = <<>>
            /\ UNCHANGED content
        BY DEF Restart
      <3> QED BY <2>1, <3>1, SMTT(40) DEF QueueType
    <2>7. MemType'
      <3>1. cur_use_que' = 0 /\ cur_use_buf' = 0
        BY DEF Restart
      <3> QED BY <3>1, SMTT(40) DEF MemType
    <2>8. ProcType'
      <3>1. /\ bounds' = [bounds EXCEPT !.crashes = bounds.crashes + 1]
            /\ proc' = "up" /\ main' = "poll" /\ conn' = "up"
        BY DEF Restart
      <3> QED BY <2>1, <3>1, BoundsType DEF ProcType
    <2> QED BY <2>2, <2>3, <2>4, <2>5, <2>6, <2>7, <2>8, TypeKept
  <1>5. CASE MainStep
    BY <1>1, <1>2, <1>3, <1>5, TypeOthers DEF MainStep
  <1> QED BY <1>4, <1>5, TypeSession, TypeForwarder, TypeOthers DEF Next, Ended

\* Type correctness, for any disk and block size, any sessions, requests and
\* limits: the proxy never marks or fetches a block outside the disk, never
\* hands a proxy_priv without a session to a tx queue, and has a request in hand
\* whenever a thread works on one.
THEOREM TypeCorrect == Spec => []TypeOK
  BY TypeInit, TypeStep, PTL DEF Spec

-----------------------------------------------------------------------------
(* Requests kept for a retry.  RetryInOrder is not inductive: that a younger *)
(* request is not performed follows from the order in which the requests of  *)
(* a session go through the forwarder, and from every request behind one     *)
(* that is kept being kept as well.                                          *)

\* Requests by session and number, in a queue and in the hand of a thread.
KeyOf(p) == IF p.kind = "io" THEN {<<p.ses, p.num>>} ELSE {}
Keys(q) == UNION {KeyOf(q[k]) : k \in DOMAIN q}
Held(thread) == IF thread.pc = "busy" THEN KeyOf(thread.priv) ELSE {}

\* The requests in A are older than those in B of the same session.
Older(A, B) == \A a \in A, b \in B : a[1] = b[1] => a[2] < b[2]

\* The oldest request of a session is in front.
Rising(q) == \A j, k \in DOMAIN q : j < k => Older(KeyOf(q[j]), KeyOf(q[k]))

\* The requests that are performed and not answered yet, and all that are on
\* their way through the forwarder.
Performed == UNION {Keys(tx_queue[s]) : s \in Sessions}
OnTheWay ==
  Performed \cup Held(frx) \cup Keys(fwd_rx_queue) \cup Held(ftx) \cup Keys(fwd_tx_queue)

\* Five stages, the oldest requests in the first.
InTurn(P, F, Q, T, U) ==
  /\ Older(P, F)
  /\ Older(P \cup F, Q)
  /\ Older(P \cup F \cup Q, T)
  /\ Older(P \cup F \cup Q \cup T, U)

\* The requests of a session go through the forwarder in the order of their
\* numbers, and those kept for a retry are younger than those performed.
InOrder ==
  /\ InTurn(Performed, Held(frx), Keys(fwd_rx_queue), Held(ftx), Keys(fwd_tx_queue))
  /\ Rising(fwd_rx_queue) /\ Rising(fwd_tx_queue)
  /\ Older(Performed, Keys(fwd_retry_queue))
  /\ \A k \in DOMAIN fwd_retry_queue : fwd_retry_queue[k].kind = "io"

\* The rx thread of a session has its youngest request.
Youngest(s) ==
  /\ \A a \in OnTheWay : a[1] = s =>
       /\ a[2] \in 0 .. accepted[s]
       /\ rx[s] \in {"wait", "add"} => a[2] < rx_priv[s].num
  /\ rx[s] \in {"wait", "add"} =>
       /\ rx_priv[s].ses = s /\ rx_priv[s].num = accepted[s]
       /\ ~rx_priv[s].need_retry

OwnQueue(s) == \A k \in DOMAIN tx_queue[s] : tx_queue[s][k].ses = s

\* No request of the queue is to be retried; all are; those behind one are.
Unmarked(q) == \A k \in DOMAIN q : q[k].kind = "io" => ~q[k].need_retry
AllMarked(q) == \A k \in DOMAIN q : q[k].kind = "io" => q[k].need_retry
MarkedLast(q) ==
  \A j, k \in DOMAIN q :
    j < k /\ q[j].kind = "io" /\ q[j].need_retry /\ q[k].kind = "io" => q[k].need_retry

\* Once forwarder_tx failed to send, it marks all that follows.
MarksInOrder ==
  /\ Unmarked(fwd_tx_queue) /\ (ftx.pc = "busy" => ~ftx.priv.need_retry)
  /\ ~sending_failed => Unmarked(fwd_rx_queue) /\ (frx.pc = "busy" => ~frx.priv.need_retry)
  /\ MarkedLast(fwd_rx_queue)
  /\ frx.pc = "busy" /\ frx.priv.need_retry => AllMarked(fwd_rx_queue)

\* Nothing is performed any more.
Failed ==
  \/ receiving_failed
  \/ /\ sending_failed /\ AllMarked(fwd_rx_queue)
     /\ frx.pc = "busy" => frx.priv.need_retry

InStep ==
  /\ main # "rejoin"
  /\ InOrder /\ MarksInOrder
  /\ \A s \in Sessions : Youngest(s) /\ OwnQueue(s)
  /\ fwd_retry_queue # <<>> => Failed

RetryInv == TypeOK /\ (bounds.reconnects = 0 => InStep)

-----------------------------------------------------------------------------
(* Queues of requests *)

\* A request has one key, other proxy_privs none.
LEMMA KeyFields ==
  ASSUME NEW p
  PROVE  /\ \A a \in KeyOf(p) : p.kind = "io" /\ a[1] = p.ses /\ a[2] = p.num
         /\ p.kind # "io" => KeyOf(p) = {}
         /\ p.kind = "io" => KeyOf(p) = {<<p.ses, p.num>>}
  BY SMTT(40) DEF KeyOf

\* What a push adds to a queue.
LEMMA PushKeys ==
  ASSUME NEW q \in Seq(Priv), NEW p \in Priv
  PROVE  /\ Keys(Append(q, p)) = Keys(q) \cup KeyOf(p)
         /\ Rising(q) /\ Older(Keys(q), KeyOf(p)) => Rising(Append(q, p))
         /\ Unmarked(q) /\ (p.kind = "io" => ~p.need_retry) => Unmarked(Append(q, p))
         /\ AllMarked(q) /\ (p.kind = "io" => p.need_retry) => AllMarked(Append(q, p))
         /\ MarkedLast(q) /\ (Unmarked(q) \/ (p.kind = "io" => p.need_retry)) => MarkedLast(Append(q, p))
  <1> DEFINE a == Append(q, p)
             n == Len(q) + 1
  <1>1. /\ DOMAIN q = 1 .. Len(q) /\ Len(q) \in Nat
        /\ DOMAIN a = 1 .. n /\ a[n] = p
        /\ \A k \in 1 .. Len(q) : a[k] = q[k]
    BY SMTT(40)
  <1>2. /\ DOMAIN a = DOMAIN q \cup {n} /\ a[n] = p
        /\ \A k \in DOMAIN q : a[k] = q[k]
        /\ \A j, k \in DOMAIN a : j < k => j \in DOMAIN q
    BY <1>1, SMTT(40)
  <1> HIDE DEF a, n
  <1>3. Keys(a) = Keys(q) \cup KeyOf(p)
    BY <1>2 DEF Keys
  <1>4. \A j \in DOMAIN q : KeyOf(q[j]) \subseteq Keys(q)
    BY DEF Keys
  <1>5. Rising(q) /\ Older(Keys(q), KeyOf(p)) => Rising(a)
    BY <1>2, <1>4 DEF Rising, Older
  <1>6. Unmarked(q) /\ (p.kind = "io" => ~p.need_retry) => Unmarked(a)
    BY <1>2 DEF Unmarked
  <1>7. AllMarked(q) /\ (p.kind = "io" => p.need_retry) => AllMarked(a)
    BY <1>2 DEF AllMarked
  <1>8. MarkedLast(q) /\ (Unmarked(q) \/ (p.kind = "io" => p.need_retry)) => MarkedLast(a)
    BY <1>2 DEF MarkedLast, Unmarked
  <1> QED BY <1>3, <1>5, <1>6, <1>7, <1>8 DEF a

\* What a pop leaves in it.
LEMMA PopKeys ==
  ASSUME NEW q \in Seq(Priv), q # <<>>
  PROVE  /\ Keys(q) = KeyOf(Head(q)) \cup Keys(Tail(q))
         /\ Rising(q) => Rising(Tail(q)) /\ Older(KeyOf(Head(q)), Keys(Tail(q)))
         /\ Unmarked(q) => Unmarked(Tail(q)) /\ (Head(q).kind = "io" => ~Head(q).need_retry)
         /\ AllMarked(q) => AllMarked(Tail(q)) /\ (Head(q).kind = "io" => Head(q).need_retry)
         /\ MarkedLast(q) => MarkedLast(Tail(q))
         /\ MarkedLast(q) /\ Head(q).kind = "io" /\ Head(q).need_retry => AllMarked(Tail(q))
  <1> DEFINE a == Tail(q)
             h == Head(q)
             up(k) == k + 1
  <1>1. /\ DOMAIN q = 1 .. Len(q) /\ Len(q) \in Nat /\ Len(q) > 0 /\ q[1] = h
        /\ DOMAIN a = 1 .. Len(q) - 1
        /\ \A k \in 1 .. Len(q) - 1 : a[k] = q[up(k)]
    BY SMTT(40)
  <1>2. /\ 1 \in DOMAIN q /\ q[1] = h
        /\ \A k \in DOMAIN a : up(k) \in DOMAIN q /\ a[k] = q[up(k)] /\ 1 < up(k)
        /\ \A j, k \in DOMAIN a : j < k => up(j) < up(k)
        /\ \A k \in DOMAIN q : k = 1 \/ \E j \in DOMAIN a : k = up(j)
    <2>1. ASSUME NEW k \in DOMAIN q, k # 1 PROVE \E j \in DOMAIN a : k = up(j)
      <3>1. k - 1 \in DOMAIN a /\ k = up(k - 1)
        BY <1>1, <2>1, SMTT(40)
      <3> QED BY <3>1
    <2>2. \A j, k \in DOMAIN a : j < k => up(j) < up(k)
      BY <1>1, SMTT(40)
    <2>3. 1 \in DOMAIN q /\ \A k \in DOMAIN a : up(k) \in DOMAIN q /\ 1 < up(k)
      BY <1>1, SMTT(40)
    <2> HIDE DEF a, h, up
    <2> QED BY <1>1, <2>1, <2>2, <2>3
  <1> HIDE DEF a, h, up
  <1>3. Keys(q) = KeyOf(h) \cup Keys(a)
    <2>1. \A k \in DOMAIN q : KeyOf(q[k]) = KeyOf(h) \/ \E j \in DOMAIN a : KeyOf(q[k]) = KeyOf(a[j])
      BY <1>2
    <2>2. Keys(q) \subseteq KeyOf(h) \cup Keys(a)
      BY <2>1 DEF Keys
    <2>3. KeyOf(h) \subseteq Keys(q) /\ Keys(a) \subseteq Keys(q)
      BY <1>2 DEF Keys
    <2> QED BY <2>2, <2>3
  <1>4. Rising(q) => Rising(a)
    BY <1>2 DEF Rising
  <1>5. Rising(q) => Older(KeyOf(h), Keys(a))
    <2>1. Rising(q) => \A k \in DOMAIN a : Older(KeyOf(h), KeyOf(a[k]))
      BY <1>2 DEF Rising
    <2> QED BY <2>1 DEF Older, Keys
  <1>6. Unmarked(q) => Unmarked(a) /\ (h.kind = "io" => ~h.need_retry)
    BY <1>2 DEF Unmarked
  <1>7. AllMarked(q) => AllMarked(a) /\ (h.kind = "io" => h.need_retry)
    BY <1>2 DEF AllMarked
  <1>8. MarkedLast(q) => MarkedLast(a)
    BY <1>2 DEF MarkedLast
  <1>9. MarkedLast(q) /\ h.kind = "io" /\ h.need_retry => AllMarked(a)
    BY <1>2 DEF MarkedLast, AllMarked
  <1> QED BY <1>3, <1>4, <1>5, <1>6, <1>7, <1>8, <1>9 DEF a, h

\* An empty queue.
LEMMA EmptyKeys ==
  /\ Keys(<<>>) = {} /\ Rising(<<>>)
  /\ Unmarked(<<>>) /\ AllMarked(<<>>) /\ MarkedLast(<<>>)
  <1>1. DOMAIN <<>> = {}
    BY SMTT(40)
  <1> QED BY <1>1 DEF Keys, Rising, Unmarked, AllMarked, MarkedLast

\* What is older than two sets is older than each.
LEMMA OlderUnion ==
  ASSUME NEW A, NEW B, NEW C
  PROVE  /\ Older(A \cup B, C) <=> Older(A, C) /\ Older(B, C)
         /\ Older(C, A \cup B) <=> Older(C, A) /\ Older(C, B)
         /\ Older({}, A) /\ Older(A, {})
  BY DEF Older

\* Part of what is older is older.
LEMMA OlderPart ==
  ASSUME NEW A, NEW B, NEW C, NEW D, Older(A, B), C \subseteq A, D \subseteq B
  PROVE  Older(C, D)
  BY DEF Older

\* Every stage is older than each of those behind it.
LEMMA TurnPairs ==
  ASSUME NEW P, NEW F, NEW Q, NEW T, NEW U
  PROVE  InTurn(P, F, Q, T, U) <=>
           /\ Older(P, F) /\ Older(P, Q) /\ Older(P, T) /\ Older(P, U)
           /\ Older(F, Q) /\ Older(F, T) /\ Older(F, U)
           /\ Older(Q, T) /\ Older(Q, U) /\ Older(T, U)
  <1>1. \A C : Older(P \cup F, C) <=> Older(P, C) /\ Older(F, C)
    BY OlderUnion
  <1>2. \A C : Older(P \cup F \cup Q, C) <=> Older(P, C) /\ Older(F, C) /\ Older(Q, C)
    BY <1>1, OlderUnion
  <1>3. Older(P \cup F \cup Q \cup T, U) <=>
          Older(P, U) /\ Older(F, U) /\ Older(Q, U) /\ Older(T, U)
    <2>1. Older(P \cup F \cup Q \cup T, U) <=> Older(P \cup F \cup Q, U) /\ Older(T, U)
      BY DEF Older
    <2> QED BY <1>2, <2>1
  <1> QED BY <1>1, <1>2, <1>3 DEF InTurn

\* Requests move from stage to stage in turn: one comes in behind all others, the
\* first of a queue is taken, the one in hand is passed on, one is left out.
LEMMA TurnMoves ==
  ASSUME NEW P, NEW F, NEW Q, NEW T, NEW U, NEW H, NEW V, InTurn(P, F, Q, T, U)
  PROVE  /\ Older(P \cup F \cup Q \cup T \cup U, H) => InTurn(P, F, Q, T, U \cup H)
         /\ T = {} /\ U = H \cup V /\ Older(H, V) => InTurn(P, F, Q, H, V)
         /\ InTurn(P, F, Q \cup T, {}, U)
         /\ F = {} /\ Q = H \cup V /\ Older(H, V) => InTurn(P, H, V, T, U)
         /\ InTurn(P \cup F, {}, Q, T, U)
         /\ H \subseteq P /\ V \subseteq F => InTurn(H, V, Q, T, U)
  <1>1. /\ Older(P, F) /\ Older(P, Q) /\ Older(P, T) /\ Older(P, U)
        /\ Older(F, Q) /\ Older(F, T) /\ Older(F, U)
        /\ Older(Q, T) /\ Older(Q, U) /\ Older(T, U)
    BY TurnPairs
  <1>2. Older(P \cup F \cup Q \cup T \cup U, H) => InTurn(P, F, Q, T, U \cup H)
    <2> SUFFICES ASSUME Older(P \cup F \cup Q \cup T \cup U, H) PROVE InTurn(P, F, Q, T, U \cup H)
      OBVIOUS
    <2>1. Older(P, H) /\ Older(F, H) /\ Older(Q, H) /\ Older(T, H)
      BY DEF Older
    <2> QED BY <1>1, <2>1, OlderUnion, TurnPairs
  <1>3. T = {} /\ U = H \cup V /\ Older(H, V) => InTurn(P, F, Q, H, V)
    <2> SUFFICES ASSUME T = {}, U = H \cup V, Older(H, V) PROVE InTurn(P, F, Q, H, V)
      OBVIOUS
    <2>1. /\ Older(P, H) /\ Older(F, H) /\ Older(Q, H)
          /\ Older(P, V) /\ Older(F, V) /\ Older(Q, V)
      BY <1>1, OlderUnion
    <2> QED BY <1>1, <2>1, TurnPairs
  <1>4. InTurn(P, F, Q \cup T, {}, U)
    BY <1>1, OlderUnion, TurnPairs
  <1>5. F = {} /\ Q = H \cup V /\ Older(H, V) => InTurn(P, H, V, T, U)
    <2> SUFFICES ASSUME F = {}, Q = H \cup V, Older(H, V) PROVE InTurn(P, H, V, T, U)
      OBVIOUS
    <2>1. /\ Older(P, H) /\ Older(P, V) /\ Older(H, T) /\ Older(V, T)
          /\ Older(H, U) /\ Older(V, U)
      BY <1>1, OlderUnion
    <2> QED BY <1>1, <2>1, TurnPairs
  <1>6. InTurn(P \cup F, {}, Q, T, U)
    BY <1>1, OlderUnion, TurnPairs
  <1>7. H \subseteq P /\ V \subseteq F => InTurn(H, V, Q, T, U)
    BY <1>1, OlderPart, TurnPairs
  <1> QED BY <1>2, <1>3, <1>4, <1>5, <1>6, <1>7

-----------------------------------------------------------------------------
(* Steps of the proxy *)

\* At the start there is nothing in the proxy.
LEMMA RetryInit == Init => RetryInv
  <1> SUFFICES ASSUME Init PROVE RetryInv
    OBVIOUS
  <1>1. /\ fwd_tx_queue = <<>> /\ fwd_rx_queue = <<>> /\ fwd_retry_queue = <<>>
        /\ \A s \in Sessions : tx_queue[s] = <<>> /\ rx[s] = "none"
        /\ ftx.pc = "pop" /\ frx.pc = "pop" /\ main = "poll"
    BY DEF Init, Idle
  <1>2. /\ Keys(fwd_tx_queue) = {} /\ Keys(fwd_rx_queue) = {} /\ Keys(fwd_retry_queue) = {}
        /\ Performed = {} /\ Held(ftx) = {} /\ Held(frx) = {} /\ OnTheWay = {}
    BY <1>1, EmptyKeys DEF Performed, Held, OnTheWay
  <1>3. InOrder
    <2>1. DOMAIN fwd_retry_queue = {}
      BY <1>1, SMTT(40)
    <2> QED BY <1>1, <1>2, <2>1, EmptyKeys, TurnPairs, OlderUnion DEF InOrder
  <1>4. MarksInOrder
    BY <1>1, EmptyKeys DEF MarksInOrder
  <1>5. ASSUME NEW s \in Sessions PROVE Youngest(s) /\ OwnQueue(s)
    <2>1. DOMAIN tx_queue[s] = {}
      BY <1>1, SMTT(40)
    <2> QED BY <1>1, <1>2, <2>1 DEF Youngest, OwnQueue
  <1> QED BY <1>1, <1>3, <1>4, <1>5, TypeInit DEF RetryInv, InStep

\* The rx threads keep the youngest request if no request comes from elsewhere.
LEMMA YoungestKept ==
  ASSUME InStep, OnTheWay' \subseteq OnTheWay, UNCHANGED rxVars
  PROVE  \A s \in Sessions : Youngest(s)'
  BY DEF InStep, Youngest, rxVars

\* Steps that move no request; a failure to send or to receive is noted.
LEMMA RetryQuiet ==
  ASSUME InStep, main' # "rejoin",
         UNCHANGED <<tx_queue, fwd_tx_queue, fwd_rx_queue, fwd_retry_queue>>,
         ftx'.pc = ftx.pc, ftx'.priv = ftx.priv,
         frx'.pc = frx.pc, frx'.priv = frx.priv,
         sending_failed => sending_failed', receiving_failed => receiving_failed',
         \A s \in Sessions : Youngest(s)'
  PROVE  InStep'
  <1>1. Held(ftx') = Held(ftx) /\ Held(frx') = Held(frx) /\ Performed' = Performed
    BY DEF Held, Performed
  <1>2. InOrder'
    BY <1>1 DEF InStep, InOrder
  <1>3. MarksInOrder'
    BY DEF InStep, MarksInOrder
  <1>4. fwd_retry_queue' # <<>> => Failed'
    BY DEF InStep, Failed
  <1>5. \A s \in Sessions : OwnQueue(s)'
    BY DEF InStep, OwnQueue
  <1> QED BY <1>2, <1>3, <1>4, <1>5 DEF InStep

\* The same when the rx threads do nothing either.
LEMMA RetryStill ==
  ASSUME InStep, main' # "rejoin", UNCHANGED rxVars,
         UNCHANGED <<tx_queue, fwd_tx_queue, fwd_rx_queue, fwd_retry_queue>>,
         ftx'.pc = ftx.pc, ftx'.priv = ftx.priv,
         frx'.pc = frx.pc, frx'.priv = frx.priv,
         sending_failed => sending_failed', receiving_failed => receiving_failed'
  PROVE  InStep'
  <1>1. Held(ftx') = Held(ftx) /\ Held(frx') = Held(frx) /\ Performed' = Performed
    BY DEF Held, Performed
  <1>2. OnTheWay' = OnTheWay
    BY <1>1 DEF OnTheWay
  <1> QED BY <1>2, YoungestKept, RetryQuiet

\* A request, an exit notice or the stop marker is pushed to forwarder_tx.
LEMMA RetryPush ==
  ASSUME TypeOK, InStep, NEW p \in Priv, fwd_tx_queue' = Append(fwd_tx_queue, p),
         UNCHANGED <<tx_queue, fwd_rx_queue, fwd_retry_queue, ftx, frx>>,
         UNCHANGED <<sending_failed, receiving_failed>>,
         Older(OnTheWay, KeyOf(p)), p.kind = "io" => ~p.need_retry
  PROVE  /\ InOrder' /\ MarksInOrder' /\ (fwd_retry_queue' # <<>> => Failed')
         /\ OnTheWay' = OnTheWay \cup KeyOf(p) /\ \A s \in Sessions : OwnQueue(s)'
  <1>1. fwd_tx_queue \in Seq(Priv)
    BY DEF TypeOK, QueueType
  <1>2. Keys(fwd_tx_queue') = Keys(fwd_tx_queue) \cup KeyOf(p)
    BY <1>1, PushKeys
  <1>3. Held(ftx') = Held(ftx) /\ Held(frx') = Held(frx) /\ Performed' = Performed
    BY DEF Held, Performed
  <1>4. OnTheWay' = OnTheWay \cup KeyOf(p)
    BY <1>2, <1>3 DEF OnTheWay
  <1>5. InTurn(Performed, Held(frx), Keys(fwd_rx_queue), Held(ftx), Keys(fwd_tx_queue'))
    BY <1>2, TurnMoves DEF InStep, InOrder, OnTheWay
  <1>6. Rising(fwd_tx_queue')
    <2>1. Older(Keys(fwd_tx_queue), KeyOf(p))
      BY OlderPart DEF OnTheWay
    <2> QED BY <1>1, <2>1, PushKeys DEF InStep, InOrder
  <1>7. InOrder'
    BY <1>3, <1>5, <1>6 DEF InStep, InOrder
  <1>8. MarksInOrder'
    BY <1>1, PushKeys DEF InStep, MarksInOrder
  <1>9. (fwd_retry_queue' # <<>> => Failed') /\ \A s \in Sessions : OwnQueue(s)'
    BY DEF InStep, Failed, OwnQueue
  <1> QED BY <1>4, <1>7, <1>8, <1>9

\* The main thread sends the stop marker.
LEMMA RetryStop ==
  ASSUME TypeOK, InStep, ExitRequest
  PROVE  InStep'
  <1>1. /\ fwd_tx_queue' = Append(fwd_tx_queue, priv_stop_forwarder)
        /\ UNCHANGED <<tx_queue, fwd_rx_queue, fwd_retry_queue, ftx, frx, rxVars>>
        /\ UNCHANGED <<sending_failed, receiving_failed>> /\ main' = "exitjoin"
    BY DEF ExitRequest, StopForwarder, txVars, ftxVars, frxVars
  <1>2. KeyOf(priv_stop_forwarder) = {}
    BY StopType DEF KeyOf
  <1>3. Older(OnTheWay, KeyOf(priv_stop_forwarder))
    BY <1>2, OlderUnion
  <1>4. /\ InOrder' /\ MarksInOrder' /\ (fwd_retry_queue' # <<>> => Failed')
        /\ OnTheWay' = OnTheWay \cup {} /\ \A t \in Sessions : OwnQueue(t)'
    BY <1>1, <1>2, <1>3, StopType, RetryPush
  <1>5. \A t \in Sessions : Youngest(t)'
    BY <1>1, <1>4, YoungestKept
  <1> QED BY <1>1, <1>4, <1>5 DEF InStep

\* What the queues of the sessions hold after hand_to_tx_queue.
LEMMA HandedOver ==
  ASSUME TypeOK, InStep, NEW p \in Priv, HandToTxQueue(p)
  PROVE  Performed' \subseteq Performed \cup KeyOf(p) /\ \A t \in Sessions : OwnQueue(t)'
  <1>1. tx_queue \in [Sessions -> Seq(Priv)]
    BY DEF TypeOK, TxType
  <1>2. ASSUME NEW t \in Sessions
        PROVE  Keys(tx_queue'[t]) \subseteq Keys(tx_queue[t]) \cup KeyOf(p) /\ OwnQueue(t)'
    <2>1. OwnQueue(t) /\ tx_queue[t] \in Seq(Priv)
      BY <1>1 DEF InStep
    <2>2. CASE tx_queue'[t] = tx_queue[t]
      BY <2>1, <2>2 DEF OwnQueue
    <2>3. CASE t = p.ses /\ tx_queue'[t] = Append(tx_queue[t], p)
      <3>1. \A k \in DOMAIN tx_queue'[t] :
              \/ tx_queue'[t][k] = p
              \/ k \in DOMAIN tx_queue[t] /\ tx_queue'[t][k] = tx_queue[t][k]
        BY <2>1, <2>3, SMTT(40)
      <3>2. OwnQueue(t)'
        BY <2>1, <2>3, <3>1 DEF OwnQueue
      <3> QED BY <2>1, <2>3, <3>2, PushKeys
    <2> QED BY <1>1, <2>2, <2>3 DEF HandToTxQueue
  <1>3. Performed' \subseteq Performed \cup KeyOf(p)
    BY <1>2 DEF Performed
  <1> QED BY <1>2, <1>3

\* Steps of the sessions.
LEMMA RetrySession ==
  ASSUME TypeOK, InStep, NEW s \in Sessions, SessionStep(s)
  PROVE  InStep'
  <1>1. CASE ClientClose(s) \/ WorkerNotify(s) \/ TxNotify(s) \/ MakePipe(s) \/ Cleanup(s)
    <2>1. UNCHANGED <<tx_queue, fwd_tx_queue, fwd_rx_queue, fwd_retry_queue, rxVars>>
      BY <1>1 DEF ClientClose, WorkerNotify, TxNotify, MakePipe, Cleanup, txVars
    <2>2. UNCHANGED <<ftx, frx, sending_failed, receiving_failed>>
      BY <1>1 DEF ClientClose, WorkerNotify, TxNotify, MakePipe, Cleanup, ftxVars, frxVars
    <2>3. main' # "rejoin"
      BY <1>1 DEF ClientClose, WorkerNotify, TxNotify, MakePipe, Cleanup, procVars, InStep
    <2> QED BY <2>1, <2>2, <2>3, RetryStill
  \* The rx thread receives a request and waits; sessions are registered.
  <1>2. CASE RxRecv(s) \/ RxWait(s) \/ RegisterFd(s)
    <2> USE <1>2
    <2>1. /\ UNCHANGED <<tx_queue, fwd_tx_queue, fwd_rx_queue, fwd_retry_queue>>
          /\ UNCHANGED <<ftxVars, frxVars>> /\ main' # "rejoin"
      BY DEF RxRecv, RxWait, RegisterFd, txVars, procVars, InStep
    <2>2. UNCHANGED <<ftx, frx, sending_failed, receiving_failed>>
      BY <2>1 DEF ftxVars, frxVars
    <2>3. OnTheWay' = OnTheWay
      <3>1. Held(ftx') = Held(ftx) /\ Held(frx') = Held(frx) /\ Performed' = Performed
        BY <2>1, <2>2 DEF Held, Performed
      <3> QED BY <2>1, <3>1 DEF OnTheWay
    <2>4. /\ rx \in [Sessions -> {"none", "recv", "wait", "add", "exited"}]
          /\ rx_priv \in [Sessions -> Priv] /\ accepted \in [Sessions -> 0 .. MaxReq]
      BY DEF TypeOK, RxType
    <2>5. ASSUME NEW t \in Sessions PROVE Youngest(t)'
      <3>1. Youngest(t)
        BY DEF InStep
      <3>2. rx'[t] = rx[t] /\ rx_priv'[t] = rx_priv[t] /\ accepted'[t] = accepted[t] => Youngest(t)'
        BY <2>3, <3>1 DEF Youngest
      <3>3. CASE RxRecv(s)
        <4>1. PICK r \in Requests : rx_priv' = [rx_priv EXCEPT ![s] = NewPriv(s, r)]
          BY <3>3 DEF RxRecv
        <4>2. /\ rx' = [rx EXCEPT ![s] = "wait"]
              /\ accepted' = [accepted EXCEPT ![s] = accepted[s] + 1]
          BY <3>3 DEF RxRecv
        <4>3. t # s => rx'[t] = rx[t] /\ rx_priv'[t] = rx_priv[t] /\ accepted'[t] = accepted[t]
          BY <2>4, <4>1, <4>2
        <4>4. CASE t = s
          <5>1. rx'[t] = "wait" /\ rx_priv'[t] = NewPriv(t, r) /\ accepted'[t] = accepted[t] + 1
            BY <2>4, <4>1, <4>2, <4>4
          <5>2. NewPriv(t, r).ses = t /\ NewPriv(t, r).num = accepted[t] + 1 /\ ~NewPriv(t, r).need_retry
            BY DEF NewPriv
          <5>3. \A a \in OnTheWay : a[1] = t => a[2] \in 0 .. accepted[t]
            BY <3>1 DEF Youngest
          <5>4. \A a \in OnTheWay : a[1] = t => a[2] \in 0 .. accepted[t] + 1 /\ a[2] < accepted[t] + 1
            BY <2>4, <5>3, MaxReqAssumption, SMTT(40)
          <5> QED BY <2>3, <5>1, <5>2, <5>4 DEF Youngest
        <4> QED BY <3>2, <4>3, <4>4
      <3>4. CASE RxWait(s)
        <4>1. rx[s] = "wait" /\ rx' = [rx EXCEPT ![s] = "add"] /\ UNCHANGED <<rx_priv, accepted>>
          BY <3>4 DEF RxWait
        <4>2. rx'[t] = (IF t = s THEN "add" ELSE rx[t])
          BY <2>4, <4>1
        <4>3. rx'[t] \in {"wait", "add"} => rx[t] \in {"wait", "add"}
          BY <4>1, <4>2
        <4> QED BY <2>3, <3>1, <4>1, <4>3 DEF Youngest
      <3>5. CASE RegisterFd(s)
        <4>1. rx' = [rx EXCEPT ![s] = "recv"] /\ UNCHANGED <<rx_priv, accepted>>
          BY <3>5 DEF RegisterFd
        <4>2. rx'[t] \in {"wait", "add"} => rx[t] \in {"wait", "add"}
          BY <2>4, <4>1
        <4> QED BY <2>3, <3>1, <4>1, <4>2 DEF Youngest
      <3> QED BY <3>3, <3>4, <3>5
    <2> QED BY <2>1, <2>2, <2>5, RetryQuiet
  \* An rx thread pushes a request, its youngest, or its exit notice.
  <1>3. CASE RxPush(s) \/ RxTerminate(s)
    <2> USE <1>3
    <2>1. /\ UNCHANGED <<tx_queue, fwd_rx_queue, fwd_retry_queue, ftx, frx, accepted>>
          /\ UNCHANGED <<sending_failed, receiving_failed, main>>
      BY DEF RxPush, RxTerminate, txVars, ftxVars, frxVars, procVars
    <2>2. /\ rx \in [Sessions -> {"none", "recv", "wait", "add", "exited"}]
          /\ rx_priv \in [Sessions -> Priv] /\ accepted \in [Sessions -> 0 .. MaxReq]
          /\ rx[s] = "add" => rx_priv[s].kind = "io"
      BY DEF TypeOK, RxType
    <2>3. Youngest(s)
      BY DEF InStep
    <2>4. PICK p \in Priv :
            /\ fwd_tx_queue' = Append(fwd_tx_queue, p)
            /\ p.kind = "io" => /\ p.ses = s /\ ~p.need_retry /\ p.num = accepted[s]
                                /\ \A a \in OnTheWay : a[1] = s => a[2] < p.num
      <3>1. CASE RxPush(s)
        <4> DEFINE q == [rx_priv[s] EXCEPT !.may = MayReturn(content, rx_priv[s])]
        <4>1. rx[s] = "add" /\ fwd_tx_queue' = Append(fwd_tx_queue, q)
          BY <3>1 DEF RxPush
        <4>2. content \in [Bytes -> SUBSET Values]
          BY DEF TypeOK, QueueType
        <4>3. q \in Priv
          BY <2>2, <4>2, MayReturnType
        <4>4. /\ q.ses = rx_priv[s].ses /\ q.num = rx_priv[s].num
              /\ q.need_retry = rx_priv[s].need_retry
          BY <2>2 DEF Priv, PrivFields
        <4> HIDE DEF q
        <4> QED BY <2>3, <4>1, <4>3, <4>4 DEF Youngest
      <3>2. CASE RxTerminate(s)
        <4> DEFINE E == {ExitPriv(s, "none", 0)} \cup
                {ExitPriv(s, "write", r.iolen) :
                   r \in {q \in Requests : q.iotype = "WRITE" /\ ~client[s]
                                           /\ ~wrk_fd[s] /\ Serviceable(s, q)}}
        <4>1. PICK p \in E : fwd_tx_queue' = Append(fwd_tx_queue, p)
          BY <3>2 DEF RxTerminate
        <4>2. \A r \in Requests : r.iolen \in Nat
          BY RequestsAssumption
        <4>3. p \in Priv
          BY <4>2, ExitType
        <4>4. p.kind = "exit"
          BY DEF ExitPriv, priv_stop_forwarder
        <4> QED BY <4>1, <4>3, <4>4
      <3> QED BY <3>1, <3>2
    <2>5. Older(OnTheWay, KeyOf(p))
      BY <2>4, KeyFields DEF Older
    <2>6. /\ InOrder' /\ MarksInOrder' /\ (fwd_retry_queue' # <<>> => Failed')
          /\ OnTheWay' = OnTheWay \cup KeyOf(p) /\ \A t \in Sessions : OwnQueue(t)'
      BY <2>1, <2>4, <2>5, RetryPush
    <2>7. /\ rx'[s] \notin {"wait", "add"}
          /\ \A t \in Sessions \ {s} : rx'[t] = rx[t] /\ rx_priv'[t] = rx_priv[t]
      BY <2>2 DEF RxPush, RxTerminate
    <2>8. ASSUME NEW t \in Sessions PROVE Youngest(t)'
      <3>1. Youngest(t)
        BY DEF InStep
      <3>2. CASE t = s
        <4>1. accepted[s] \in 0 .. accepted[s]
          BY <2>2, MaxReqAssumption, SMTT(40)
        <4>2. \A a \in KeyOf(p) : a[1] = s => a[2] \in 0 .. accepted[s]
          BY <2>4, <4>1, KeyFields
        <4> QED BY <2>1, <2>6, <2>7, <3>1, <3>2, <4>2 DEF Youngest
      <3>3. CASE t # s
        <4>1. \A a \in KeyOf(p) : a[1] # t
          BY <2>4, <3>3, KeyFields
        <4> QED BY <2>1, <2>6, <2>7, <3>1, <3>3, <4>1 DEF Youngest
      <3> QED BY <3>2, <3>3
    <2> QED BY <2>1, <2>6, <2>8 DEF InStep
  \* A reply is sent, or the exit notice taken.
  <1>4. CASE TxPop(s)
    <2> USE <1>4
    <2>1. /\ tx_queue' = [tx_queue EXCEPT ![s] = Tail(tx_queue[s])] /\ tx_queue[s] # <<>>
          /\ UNCHANGED <<fwd_tx_queue, fwd_rx_queue, fwd_retry_queue, ftx, frx, rxVars>>
          /\ UNCHANGED <<sending_failed, receiving_failed, main>>
      BY DEF TxPop, ftxVars, frxVars, procVars
    <2>2. tx_queue \in [Sessions -> Seq(Priv)]
      BY DEF TypeOK, TxType
    <2>3. ASSUME NEW t \in Sessions
          PROVE  Keys(tx_queue'[t]) \subseteq Keys(tx_queue[t]) /\ OwnQueue(t)'
      <3>1. OwnQueue(t)
        BY DEF InStep
      <3>2. CASE t # s
        <4>1. tx_queue'[t] = tx_queue[t]
          BY <2>1, <2>2, <3>2
        <4> QED BY <3>1, <4>1 DEF OwnQueue
      <3>3. CASE t = s
        <4>1. tx_queue'[t] = Tail(tx_queue[t]) /\ tx_queue[t] # <<>> /\ tx_queue[t] \in Seq(Priv)
          BY <2>1, <2>2, <3>3
        <4>2. \A k \in DOMAIN Tail(tx_queue[t]) :
                k + 1 \in DOMAIN tx_queue[t] /\ Tail(tx_queue[t])[k] = tx_queue[t][k + 1]
          BY <4>1, SMTT(40)
        <4>3. Keys(tx_queue'[t]) \subseteq Keys(tx_queue[t])
          BY <4>1, PopKeys
        <4>4. OwnQueue(t)'
          <5>1. \A k \in DOMAIN tx_queue'[t] : \E j \in DOMAIN tx_queue[t] : tx_queue'[t][k] = tx_queue[t][j]
            BY <4>1, <4>2
          <5> QED BY <3>1, <5>1 DEF OwnQueue
        <4> QED BY <4>3, <4>4
      <3> QED BY <3>2, <3>3
    <2>4. Performed' \subseteq Performed
      BY <2>3 DEF Performed
    <2>5. Held(ftx') = Held(ftx) /\ Held(frx') = Held(frx)
      BY <2>1 DEF Held
    <2>6. OnTheWay' \subseteq OnTheWay
      BY <2>1, <2>4, <2>5 DEF OnTheWay
    <2>7. InOrder'
      <3>1. InTurn(Performed', Held(frx), Keys(fwd_rx_queue), Held(ftx), Keys(fwd_tx_queue))
        BY <2>4, TurnMoves DEF InStep, InOrder
      <3>2. Older(Performed', Keys(fwd_retry_queue))
        BY <2>4, OlderPart DEF InStep, InOrder
      <3> QED BY <2>1, <2>5, <3>1, <3>2 DEF InStep, InOrder
    <2>8. MarksInOrder' /\ (fwd_retry_queue' # <<>> => Failed')
      BY <2>1 DEF InStep, MarksInOrder, Failed
    <2> QED BY <2>1, <2>3, <2>6, <2>7, <2>8, YoungestKept DEF InStep
  <1> QED BY <1>1, <1>2, <1>3, <1>4 DEF SessionStep

\* Steps of the forwarder threads.
LEMMA RetryForwarder ==
  ASSUME TypeOK, InStep, ForwarderStep
  PROVE  InStep'
  <1>1. CASE FwdTxSend
    <2>1. /\ UNCHANGED <<tx_queue, fwd_tx_queue, fwd_rx_queue, fwd_retry_queue, rxVars>>
          /\ UNCHANGED <<frx, receiving_failed, main>>
      BY <1>1 DEF FwdTxSend, txVars, frxVars, procVars
    <2>2. sending_failed => sending_failed'
      <3>1. sending_failed' = sending_failed \/ sending_failed' = TRUE
        BY <1>1 DEF FwdTxSend
      <3> QED BY <3>1
    <2>3. \/ ftx' = [ftx EXCEPT !.i = ftx.i + 1]
          \/ ftx' = [ftx EXCEPT !.i = 0]
      BY <1>1 DEF FwdTxSend
    <2>4. ftx'.pc = ftx.pc /\ ftx'.priv = ftx.priv
      BY <2>3 DEF TypeOK, FtxType, Threads
    <2>5. main' # "rejoin"
      BY <2>1 DEF InStep
    <2> QED BY <2>1, <2>2, <2>4, <2>5, RetryStill
  <1>2. CASE FwdRxRecv
    <2>1. /\ UNCHANGED <<tx_queue, fwd_tx_queue, fwd_rx_queue, fwd_retry_queue, rxVars>>
          /\ UNCHANGED <<ftx, sending_failed, main>>
      BY <1>2 DEF FwdRxRecv, txVars, ftxVars
    <2>2. receiving_failed => receiving_failed'
      <3>1. receiving_failed' = receiving_failed \/ receiving_failed' = TRUE
        BY <1>2 DEF FwdRxRecv
      <3> QED BY <3>1
    <2>3. \/ frx' = [frx EXCEPT !.i = frx.i + 1]
          \/ frx' = [frx EXCEPT !.i = 0]
      BY <1>2 DEF FwdRxRecv
    <2>4. frx'.pc = frx.pc /\ frx'.priv = frx.priv
      BY <2>3 DEF TypeOK, FrxType, Threads
    <2>5. main' # "rejoin"
      BY <2>1 DEF InStep
    <2> QED BY <2>1, <2>2, <2>4, <2>5, RetryStill
  \* forwarder_tx passes an exit notice or the stop marker on.
  <1>3. CASE FwdTxPop /\ Head(fwd_tx_queue).kind # "io"
    <2> USE <1>3
    <2> DEFINE p == Head(fwd_tx_queue)
    <2>1. /\ fwd_tx_queue # <<>> /\ fwd_tx_queue' = Tail(fwd_tx_queue) /\ ftx.pc = "pop"
          /\ fwd_rx_queue' = Append(fwd_rx_queue, p)
          /\ ftx'.pc # "busy" /\ UNCHANGED <<sending_failed, receiving_failed, frx>>
          /\ UNCHANGED <<tx_queue, fwd_retry_queue, rxVars, main>>
      <3>1. /\ fwd_tx_queue # <<>> /\ fwd_tx_queue' = Tail(fwd_tx_queue) /\ ftx.pc = "pop"
            /\ UNCHANGED <<receiving_failed, frx, tx_queue, fwd_retry_queue, rxVars, main>>
        BY DEF FwdTxPop, txVars, frxVars
      <3>2. /\ fwd_rx_queue' = Append(fwd_rx_queue, p) /\ UNCHANGED sending_failed
            /\ ftx' = Idle("exited") \/ UNCHANGED ftx
        BY SMTT(40) DEF FwdTxPop, ftxVars
      <3>3. ftx'.pc # "busy"
        <4>1. Idle("exited").pc = "exited"
          BY DEF Idle
        <4> QED BY <3>1, <3>2, <4>1
      <3> QED BY <3>1, <3>2, <3>3
    <2>2. fwd_tx_queue \in Seq(Priv) /\ fwd_rx_queue \in Seq(Priv) /\ p \in Priv
      BY <2>1, PopType DEF TypeOK, QueueType
    <2>3. KeyOf(p) = {} /\ p.kind # "io"
      BY KeyFields
    <2> HIDE DEF p
    <2>4. /\ Keys(fwd_tx_queue') = Keys(fwd_tx_queue)
          /\ Keys(fwd_rx_queue') = Keys(fwd_rx_queue)
      <3>1. Keys(fwd_tx_queue) = KeyOf(p) \cup Keys(fwd_tx_queue')
        BY <2>1, <2>2, PopKeys DEF p
      <3>2. Keys(fwd_rx_queue') = Keys(fwd_rx_queue) \cup KeyOf(p)
        BY <2>1, <2>2, PushKeys
      <3> QED BY <2>3, <3>1, <3>2
    <2>5. Held(ftx) = {} /\ Held(ftx') = {} /\ Held(frx') = Held(frx) /\ Performed' = Performed
      BY <2>1 DEF Held, Performed
    <2>6. OnTheWay' = OnTheWay
      BY <2>4, <2>5 DEF OnTheWay
    <2>7. InOrder'
      <3>1. Rising(fwd_tx_queue') /\ Rising(fwd_rx_queue')
        <4>1. Older(Keys(fwd_rx_queue), KeyOf(p))
          BY <2>3, OlderUnion
        <4> QED BY <2>1, <2>2, <4>1, PushKeys, PopKeys DEF InStep, InOrder
      <3> QED BY <2>1, <2>4, <2>5, <3>1 DEF InStep, InOrder
    <2>8. MarksInOrder'
      <3>1. Unmarked(fwd_tx_queue')
        BY <2>1, <2>2, PopKeys DEF InStep, MarksInOrder
      <3>2. /\ Unmarked(fwd_rx_queue) => Unmarked(fwd_rx_queue')
            /\ AllMarked(fwd_rx_queue) => AllMarked(fwd_rx_queue')
            /\ MarkedLast(fwd_rx_queue) => MarkedLast(fwd_rx_queue')
        BY <2>1, <2>2, <2>3, PushKeys
      <3> QED BY <2>1, <3>1, <3>2 DEF InStep, MarksInOrder
    <2>9. fwd_retry_queue' # <<>> => Failed'
      <3>1. AllMarked(fwd_rx_queue) => AllMarked(fwd_rx_queue')
        BY <2>1, <2>2, <2>3, PushKeys
      <3> QED BY <2>1, <3>1 DEF InStep, Failed
    <2>10. \A t \in Sessions : OwnQueue(t)'
      BY <2>1 DEF InStep, OwnQueue
    <2> QED BY <2>1, <2>6, <2>7, <2>8, <2>9, <2>10, YoungestKept DEF InStep
  \* forwarder_tx takes a request in hand.
  <1>4. CASE FwdTxPop /\ Head(fwd_tx_queue).kind = "io"
    <2> USE <1>4
    <2> DEFINE p == Head(fwd_tx_queue)
    <2>1. /\ fwd_tx_queue # <<>> /\ fwd_tx_queue' = Tail(fwd_tx_queue) /\ ftx.pc = "pop"
          /\ UNCHANGED <<tx_queue, fwd_rx_queue, fwd_retry_queue, rxVars, main, frx>>
          /\ UNCHANGED <<sending_failed, receiving_failed>>
      <3>1. /\ fwd_tx_queue # <<>> /\ fwd_tx_queue' = Tail(fwd_tx_queue) /\ ftx.pc = "pop"
            /\ UNCHANGED <<receiving_failed, frx, tx_queue, fwd_retry_queue, rxVars, main>>
        BY DEF FwdTxPop, txVars, frxVars
      <3>2. UNCHANGED <<fwd_rx_queue, sending_failed>>
        BY DEF FwdTxPop
      <3> QED BY <3>1, <3>2
    <2>2. fwd_tx_queue \in Seq(Priv) /\ p \in Priv /\ p.kind = "io"
      BY <2>1, PopType DEF TypeOK, QueueType
    <2>3. /\ ftx'.pc = "busy" /\ ftx'.priv.kind = "io" /\ ftx'.priv.ses = p.ses
          /\ ftx'.priv.num = p.num /\ ftx'.priv.need_retry = p.need_retry
      <3>1. /\ Prepare(p).kind = p.kind /\ Prepare(p).ses = p.ses /\ Prepare(p).num = p.num
            /\ Prepare(p).need_retry = p.need_retry
        BY <2>2 DEF Prepare, prepare_read_priv, prepare_write_priv, Priv, PrivFields
      <3>2. \/ ftx' = [pc |-> "busy", priv |-> Prepare(p), i |-> 1]
            \/ ftx' = [pc |-> "busy", priv |-> p, i |-> 1]
        BY DEF FwdTxPop
      <3>3. CASE ftx' = [pc |-> "busy", priv |-> Prepare(p), i |-> 1]
        BY <2>2, <3>1, <3>3
      <3>4. CASE ftx' = [pc |-> "busy", priv |-> p, i |-> 1]
        BY <2>2, <3>4
      <3> QED BY <3>2, <3>3, <3>4
    <2> HIDE DEF p
    <2>4. /\ Held(ftx) = {} /\ Held(ftx') = KeyOf(p) /\ Held(frx') = Held(frx)
          /\ Performed' = Performed
      <3>1. Held(ftx) = {} /\ Held(frx') = Held(frx) /\ Performed' = Performed
        BY <2>1 DEF Held, Performed
      <3>2. Held(ftx') = KeyOf(p)
        BY <2>2, <2>3 DEF Held, KeyOf
      <3> QED BY <3>1, <3>2
    <2>5. /\ Keys(fwd_tx_queue) = KeyOf(p) \cup Keys(fwd_tx_queue')
          /\ Rising(fwd_tx_queue') /\ Older(KeyOf(p), Keys(fwd_tx_queue'))
          /\ Unmarked(fwd_tx_queue') /\ ~p.need_retry
      BY <2>1, <2>2, PopKeys DEF InStep, InOrder, MarksInOrder, p
    <2>6. OnTheWay' = OnTheWay
      BY <2>1, <2>4, <2>5 DEF OnTheWay
    <2>7. InOrder'
      <3>1. InTurn(Performed, Held(frx), Keys(fwd_rx_queue), KeyOf(p), Keys(fwd_tx_queue'))
        BY <2>4, <2>5, TurnMoves DEF InStep, InOrder
      <3> QED BY <2>1, <2>4, <2>5, <3>1 DEF InStep, InOrder
    <2>8. MarksInOrder' /\ (fwd_retry_queue' # <<>> => Failed') /\ \A t \in Sessions : OwnQueue(t)'
      BY <2>1, <2>3, <2>5 DEF InStep, MarksInOrder, Failed, OwnQueue
    <2> QED BY <2>1, <2>6, <2>7, <2>8, YoungestKept DEF InStep
  \* forwarder_tx passes a request on, marked if it ever failed to send.
  <1>5. CASE FwdTxPush
    <2> USE <1>5
    <2> DEFINE p == [ftx.priv EXCEPT !.need_retry = ftx.priv.need_retry \/ sending_failed]
    <2>1. /\ fwd_rx_queue' = Append(fwd_rx_queue, p) /\ ftx.pc = "busy" /\ ftx' = Idle("pop")
          /\ UNCHANGED <<tx_queue, fwd_tx_queue, fwd_retry_queue, rxVars, main, frx>>
          /\ UNCHANGED <<sending_failed, receiving_failed>>
      BY DEF FwdTxPush, txVars, frxVars, procVars
    <2>2. /\ fwd_rx_queue \in Seq(Priv) /\ ftx.priv \in Priv /\ ftx.priv.kind = "io"
          /\ ftx.priv.need_retry \in BOOLEAN /\ sending_failed \in BOOLEAN
      BY <2>1 DEF TypeOK, QueueType, FtxType, Threads, Priv, PrivFields
    <2>3. ~ftx.priv.need_retry
      BY <2>1 DEF InStep, MarksInOrder
    <2>4. /\ p \in Priv /\ p.kind = "io" /\ p.ses = ftx.priv.ses /\ p.num = ftx.priv.num
          /\ p.need_retry <=> sending_failed
      <3>1. (ftx.priv.need_retry \/ sending_failed) \in BOOLEAN
        OBVIOUS
      <3>2. p.need_retry = (ftx.priv.need_retry \/ sending_failed)
        BY <2>2 DEF Priv, PrivFields
      <3> QED BY <2>2, <2>3, <3>1, <3>2, RetryType
    <2> HIDE DEF p
    <2>5. /\ Held(ftx) = KeyOf(p) /\ Held(ftx') = {} /\ Held(frx') = Held(frx)
          /\ Performed' = Performed
      <3>1. Held(ftx) = KeyOf(p)
        BY <2>1, <2>2, <2>4 DEF Held, KeyOf
      <3> QED BY <2>1, <3>1 DEF Held, Performed, Idle
    <2>6. Keys(fwd_rx_queue') = Keys(fwd_rx_queue) \cup KeyOf(p)
      BY <2>1, <2>2, <2>4, PushKeys
    <2>7. OnTheWay' = OnTheWay
      BY <2>1, <2>5, <2>6 DEF OnTheWay
    <2>8. InOrder'
      <3>1. InTurn(Performed, Held(frx), Keys(fwd_rx_queue'), {}, Keys(fwd_tx_queue))
        <4>1. InTurn(Performed, Held(frx), Keys(fwd_rx_queue) \cup Held(ftx), {}, Keys(fwd_tx_queue))
          BY TurnMoves DEF InStep, InOrder
        <4> QED BY <2>5, <2>6, <4>1
      <3>2. Older(Keys(fwd_rx_queue), KeyOf(p))
        BY <2>5, TurnPairs DEF InStep, InOrder
      <3>3. Rising(fwd_rx_queue')
        BY <2>1, <2>2, <2>4, <3>2, PushKeys DEF InStep, InOrder
      <3> QED BY <2>1, <2>5, <3>1, <3>3 DEF InStep, InOrder
    <2>9. MarksInOrder' /\ (fwd_retry_queue' # <<>> => Failed')
      <3>1. Unmarked(fwd_rx_queue) /\ ~sending_failed => Unmarked(fwd_rx_queue')
        BY <2>1, <2>2, <2>4, PushKeys
      <3>2. AllMarked(fwd_rx_queue) /\ sending_failed => AllMarked(fwd_rx_queue')
        BY <2>1, <2>2, <2>4, PushKeys
      <3>3. MarkedLast(fwd_rx_queue')
        BY <2>1, <2>2, <2>4, PushKeys DEF InStep, MarksInOrder
      <3>4. ftx'.pc # "busy"
        BY <2>1 DEF Idle
      <3>5. MarksInOrder'
        <4>1. Unmarked(fwd_tx_queue') /\ (ftx'.pc = "busy" => ~ftx'.priv.need_retry)
          BY <2>1, <3>4 DEF InStep, MarksInOrder
        <4>2. ~sending_failed => Unmarked(fwd_rx_queue') /\ (frx.pc = "busy" => ~frx.priv.need_retry)
          BY <3>1 DEF InStep, MarksInOrder
        <4>3. frx.pc = "busy" /\ frx.priv.need_retry => AllMarked(fwd_rx_queue')
          BY <3>2, <4>2 DEF InStep, MarksInOrder
        <4> QED BY <2>1, <3>3, <4>1, <4>2, <4>3 DEF MarksInOrder
      <3>6. fwd_retry_queue' # <<>> => Failed'
        BY <2>1, <3>2 DEF InStep, Failed
      <3> QED BY <3>5, <3>6
    <2>10. \A t \in Sessions : OwnQueue(t)'
      BY <2>1 DEF InStep, OwnQueue
    <2> QED BY <2>1, <2>7, <2>8, <2>9, <2>10, YoungestKept DEF InStep
  \* forwarder_rx passes an exit notice on, or stops.
  <1>6. CASE FwdRxPop /\ Head(fwd_rx_queue).kind # "io"
    <2> USE <1>6
    <2> DEFINE p == Head(fwd_rx_queue)
    <2>1. /\ fwd_rx_queue # <<>> /\ fwd_rx_queue' = Tail(fwd_rx_queue) /\ frx.pc = "pop"
          /\ UNCHANGED <<ftx, fwd_tx_queue, fwd_retry_queue, rxVars, main>>
          /\ UNCHANGED <<sending_failed, receiving_failed>>
      BY DEF FwdRxPop, ftxVars
    <2>2. /\ frx' = Idle("exited") \/ UNCHANGED frx
          /\ UNCHANGED tx_queue \/ HandToTxQueue(p)
      BY DEF FwdRxPop
    <2>3. fwd_rx_queue \in Seq(Priv) /\ p \in Priv
      BY <2>1, PopType DEF TypeOK, QueueType
    <2>4. KeyOf(p) = {}
      BY KeyFields
    <2>5. frx'.pc # "busy"
      <3>1. Idle("exited").pc = "exited"
        BY DEF Idle
      <3> QED BY <2>1, <2>2, <3>1
    <2>6. Performed' \subseteq Performed /\ \A t \in Sessions : OwnQueue(t)'
      <3>1. CASE UNCHANGED tx_queue
        BY <3>1 DEF Performed, InStep, OwnQueue
      <3>2. CASE HandToTxQueue(p)
        BY <2>3, <2>4, <3>2, HandedOver
      <3> QED BY <2>2, <3>1, <3>2
    <2> HIDE DEF p
    <2>7. /\ Keys(fwd_rx_queue') = Keys(fwd_rx_queue) /\ Rising(fwd_rx_queue')
          /\ Unmarked(fwd_rx_queue) => Unmarked(fwd_rx_queue')
          /\ AllMarked(fwd_rx_queue) => AllMarked(fwd_rx_queue')
          /\ MarkedLast(fwd_rx_queue')
      <3>1. Keys(fwd_rx_queue) = KeyOf(p) \cup Keys(fwd_rx_queue')
        BY <2>1, <2>3, PopKeys DEF p
      <3>2. Keys(fwd_rx_queue') = Keys(fwd_rx_queue)
        BY <2>4, <3>1
      <3> QED BY <2>1, <2>3, <3>2, PopKeys DEF InStep, InOrder, MarksInOrder
    <2>8. Held(frx) = {} /\ Held(frx') = {} /\ Held(ftx') = Held(ftx)
      BY <2>1, <2>5 DEF Held
    <2>9. OnTheWay' \subseteq OnTheWay
      BY <2>1, <2>6, <2>7, <2>8 DEF OnTheWay
    <2>10. InOrder'
      <3>1. InTurn(Performed', {}, Keys(fwd_rx_queue), Held(ftx), Keys(fwd_tx_queue))
        BY <2>6, <2>8, TurnMoves DEF InStep, InOrder
      <3>2. Older(Performed', Keys(fwd_retry_queue))
        BY <2>6, OlderPart DEF InStep, InOrder
      <3> QED BY <2>1, <2>7, <2>8, <3>1, <3>2 DEF InStep, InOrder
    <2>11. MarksInOrder' /\ (fwd_retry_queue' # <<>> => Failed')
      BY <2>1, <2>5, <2>7 DEF InStep, MarksInOrder, Failed
    <2> QED BY <2>1, <2>6, <2>9, <2>10, <2>11, YoungestKept DEF InStep
  \* forwarder_rx takes a request in hand.
  <1>7. CASE FwdRxPop /\ Head(fwd_rx_queue).kind = "io"
    <2> USE <1>7
    <2> DEFINE p == Head(fwd_rx_queue)
    <2>1. /\ fwd_rx_queue # <<>> /\ fwd_rx_queue' = Tail(fwd_rx_queue) /\ frx.pc = "pop"
          /\ UNCHANGED <<ftx, fwd_tx_queue, fwd_retry_queue, rxVars, main>>
          /\ UNCHANGED <<sending_failed, receiving_failed>>
      BY DEF FwdRxPop, ftxVars
    <2>2. UNCHANGED tx_queue /\ frx' = [pc |-> "busy", priv |-> p, i |-> 1]
      BY DEF FwdRxPop
    <2>3. fwd_rx_queue \in Seq(Priv) /\ p \in Priv /\ p.kind = "io"
      BY <2>1, PopType DEF TypeOK, QueueType
    <2>4. frx'.pc = "busy" /\ frx'.priv = p
      BY <2>2
    <2> HIDE DEF p
    <2>5. /\ Keys(fwd_rx_queue) = KeyOf(p) \cup Keys(fwd_rx_queue')
          /\ Rising(fwd_rx_queue') /\ Older(KeyOf(p), Keys(fwd_rx_queue'))
          /\ Unmarked(fwd_rx_queue) => Unmarked(fwd_rx_queue') /\ ~p.need_retry
          /\ AllMarked(fwd_rx_queue) => AllMarked(fwd_rx_queue') /\ p.need_retry
          /\ MarkedLast(fwd_rx_queue') /\ (p.need_retry => AllMarked(fwd_rx_queue'))
      BY <2>1, <2>3, PopKeys DEF InStep, InOrder, MarksInOrder, p
    <2>6. Held(frx) = {} /\ Held(frx') = KeyOf(p) /\ Held(ftx') = Held(ftx) /\ Performed' = Performed
      BY <2>1, <2>2, <2>4 DEF Held, Performed
    <2>7. OnTheWay' = OnTheWay
      BY <2>1, <2>5, <2>6 DEF OnTheWay
    <2>8. InOrder'
      <3>1. InTurn(Performed, KeyOf(p), Keys(fwd_rx_queue'), Held(ftx), Keys(fwd_tx_queue))
        BY <2>5, <2>6, TurnMoves DEF InStep, InOrder
      <3> QED BY <2>1, <2>5, <2>6, <3>1 DEF InStep, InOrder
    <2>9. MarksInOrder'
      BY <2>1, <2>4, <2>5 DEF InStep, MarksInOrder
    <2>10. (fwd_retry_queue' # <<>> => Failed') /\ \A t \in Sessions : OwnQueue(t)'
      BY <2>1, <2>2, <2>4, <2>5 DEF InStep, Failed, OwnQueue
    <2> QED BY <2>1, <2>7, <2>8, <2>9, <2>10, YoungestKept DEF InStep
  \* forwarder_rx performs a request: nothing waits for a retry then.
  <1>8. CASE FwdRxFinish /\ ~NeedRetry(frx.priv)
    <2> USE <1>8
    <2> DEFINE p == [frx.priv EXCEPT !.need_retry = NeedRetry(frx.priv)]
               q == [p EXCEPT !.read_buff = ReadBuff(p)]
    <2>1. /\ frx.pc = "busy" /\ frx' = Idle("pop")
          /\ UNCHANGED <<ftx, fwd_tx_queue, fwd_rx_queue, rxVars, main>>
          /\ UNCHANGED <<sending_failed, receiving_failed>>
      BY DEF FwdRxFinish, ftxVars
    <2>2. /\ frx.priv \in Priv /\ frx.priv.kind = "io" /\ frx.priv.need_retry \in BOOLEAN
          /\ receiving_failed \in BOOLEAN /\ cache \in [Bytes -> Values]
      BY <2>1 DEF TypeOK, FrxType, Threads, Priv, PrivFields
    <2>3. /\ p \in Priv /\ p.kind = "io" /\ p.ses = frx.priv.ses /\ p.num = frx.priv.num
          /\ ~p.need_retry
      <3>1. NeedRetry(frx.priv) \in BOOLEAN
        BY <2>2 DEF NeedRetry
      <3>2. p.need_retry = NeedRetry(frx.priv)
        BY <2>2 DEF Priv, PrivFields
      <3> QED BY <2>2, <3>1, <3>2, RetryType
    <2>4. HandToTxQueue(q) /\ UNCHANGED fwd_retry_queue
      BY <2>3 DEF FwdRxFinish
    <2>5. /\ q \in Priv /\ q.kind = "io" /\ q.ses = frx.priv.ses /\ q.num = frx.priv.num
      <3>1. ReadBuff(p) \in Data
        BY <2>2, ReadBuffType
      <3>2. q.kind = p.kind /\ q.num = p.num
        BY <2>3 DEF Priv, PrivFields
      <3> QED BY <2>3, <3>1, <3>2, FilledType
    <2> HIDE DEF p, q
    <2>6. ~Failed /\ fwd_retry_queue = <<>>
      BY <2>1 DEF InStep, Failed, NeedRetry
    <2>7. frx'.pc = "pop" /\ Held(frx) = KeyOf(q) /\ Held(frx') = {} /\ Held(ftx') = Held(ftx)
      <3>1. Idle("pop").pc = "pop"
        BY DEF Idle
      <3>2. Held(frx) = KeyOf(q)
        BY <2>1, <2>2, <2>5 DEF Held, KeyOf
      <3> QED BY <2>1, <3>1, <3>2 DEF Held
    <2>8. Performed' \subseteq Performed \cup Held(frx) /\ \A t \in Sessions : OwnQueue(t)'
      BY <2>4, <2>5, <2>7, HandedOver
    <2>9. OnTheWay' \subseteq OnTheWay
      BY <2>1, <2>7, <2>8 DEF OnTheWay
    <2>10. InOrder'
      <3>1. InTurn(Performed \cup Held(frx), {}, Keys(fwd_rx_queue), Held(ftx), Keys(fwd_tx_queue))
        BY TurnMoves DEF InStep, InOrder
      <3>2. InTurn(Performed', {}, Keys(fwd_rx_queue), Held(ftx), Keys(fwd_tx_queue))
        BY <2>8, <3>1, TurnMoves
      <3>3. Older(Performed', Keys(fwd_retry_queue'))
        BY <2>4, <2>6, EmptyKeys, OlderUnion
      <3> QED BY <2>1, <2>4, <2>7, <3>2, <3>3 DEF InStep, InOrder
    <2>11. MarksInOrder'
      BY <2>1, <2>7 DEF InStep, MarksInOrder
    <2> QED BY <2>1, <2>4, <2>6, <2>8, <2>9, <2>10, <2>11, YoungestKept DEF InStep
  \* forwarder_rx keeps a request for a retry, and all that follow.
  <1>9. CASE FwdRxFinish /\ NeedRetry(frx.priv)
    <2> USE <1>9
    <2> DEFINE p == [frx.priv EXCEPT !.need_retry = NeedRetry(frx.priv)]
    <2>1. /\ frx.pc = "busy" /\ frx' = Idle("pop")
          /\ UNCHANGED <<ftx, fwd_tx_queue, fwd_rx_queue, rxVars, main>>
          /\ UNCHANGED <<sending_failed, receiving_failed>>
      BY DEF FwdRxFinish, ftxVars
    <2>2. /\ frx.priv \in Priv /\ frx.priv.kind = "io" /\ frx.priv.need_retry \in BOOLEAN
          /\ receiving_failed \in BOOLEAN /\ fwd_retry_queue \in Seq(Priv)
      BY <2>1 DEF TypeOK, FrxType, QueueType, Threads, Priv, PrivFields
    <2>3. /\ p \in Priv /\ p.kind = "io" /\ p.ses = frx.priv.ses /\ p.num = frx.priv.num
          /\ p.need_retry
      <3>1. NeedRetry(frx.priv) \in BOOLEAN
        BY <2>2 DEF NeedRetry
      <3>2. p.need_retry = NeedRetry(frx.priv)
        BY <2>2 DEF Priv, PrivFields
      <3> QED BY <2>2, <3>1, <3>2, RetryType
    <2>4. fwd_retry_queue' = Append(fwd_retry_queue, p) /\ UNCHANGED tx_queue
      BY <2>3 DEF FwdRxFinish
    <2> HIDE DEF p
    <2>5. /\ frx'.pc = "pop" /\ Held(frx) = KeyOf(p) /\ Held(frx') = {} /\ Held(ftx') = Held(ftx)
          /\ Performed' = Performed
      <3>1. Idle("pop").pc = "pop"
        BY DEF Idle
      <3>2. Held(frx) = KeyOf(p)
        BY <2>1, <2>2, <2>3 DEF Held, KeyOf
      <3> QED BY <2>1, <2>4, <3>1, <3>2 DEF Held, Performed
    <2>6. OnTheWay' \subseteq OnTheWay
      BY <2>1, <2>5 DEF OnTheWay
    <2>7. InOrder'
      <3>1. InTurn(Performed, {}, Keys(fwd_rx_queue), Held(ftx), Keys(fwd_tx_queue))
        BY TurnMoves DEF InStep, InOrder
      <3>2. Older(Performed, Held(frx))
        BY DEF InStep, InOrder, InTurn
      <3>3. Older(Performed, Keys(fwd_retry_queue'))
        <4>1. Keys(fwd_retry_queue') = Keys(fwd_retry_queue) \cup KeyOf(p)
          BY <2>2, <2>3, <2>4, PushKeys
        <4> QED BY <2>5, <3>2, <4>1, OlderUnion DEF InStep, InOrder
      <3>4. \A k \in DOMAIN fwd_retry_queue' :
              \/ fwd_retry_queue'[k] = p
              \/ k \in DOMAIN fwd_retry_queue /\ fwd_retry_queue'[k] = fwd_retry_queue[k]
        BY <2>2, <2>4, SMTT(40)
      <3>5. \A k \in DOMAIN fwd_retry_queue' : fwd_retry_queue'[k].kind = "io"
        BY <2>3, <3>4 DEF InStep, InOrder
      <3> QED BY <2>1, <2>5, <3>1, <3>3, <3>5 DEF InStep, InOrder
    <2>8. MarksInOrder'
      BY <2>1, <2>5 DEF InStep, MarksInOrder
    <2>9. Failed'
      <3>1. frx.priv.need_retry => sending_failed /\ AllMarked(fwd_rx_queue)
        BY <2>1 DEF InStep, MarksInOrder
      <3> QED BY <2>1, <2>5, <3>1 DEF NeedRetry, Failed
    <2>10. \A t \in Sessions : OwnQueue(t)'
      BY <2>4 DEF InStep, OwnQueue
    <2> QED BY <2>1, <2>6, <2>7, <2>8, <2>9, <2>10, YoungestKept DEF InStep
  <1> QED BY <1>1, <1>2, <1>3, <1>4, <1>5, <1>6, <1>7, <1>8, <1>9 DEF ForwarderStep

\* Steps of the main thread other than a reconnect, and failures.
LEMMA RetryMain ==
  ASSUME TypeOK, InStep,
         \/ QueryStatus \/ ExitRequest \/ ExitShutdown \/ ExitProcess
         \/ LoseConnection \/ Crash \/ UNCHANGED vars
  PROVE  InStep'
  <1>1. CASE \/ QueryStatus \/ ExitShutdown \/ ExitProcess
             \/ LoseConnection \/ Crash \/ UNCHANGED vars
    <2>1. UNCHANGED <<tx_queue, fwd_tx_queue, fwd_rx_queue, fwd_retry_queue, rxVars>>
      BY <1>1 DEF QueryStatus, ExitShutdown, ExitProcess, LoseConnection, Crash, vars, txVars
    <2>2. UNCHANGED <<ftx, frx, sending_failed, receiving_failed>>
      BY <1>1 DEF QueryStatus, ExitShutdown, ExitProcess, LoseConnection, Crash, vars, ftxVars,
                  frxVars
    <2>3. main' # "rejoin"
      BY <1>1 DEF QueryStatus, ExitShutdown, ExitProcess, LoseConnection, Crash, vars, procVars,
                  InStep
    <2> QED BY <2>1, <2>2, <2>3, RetryStill
  <1> QED BY <1>1, RetryStop

\* A restart begins with empty queues.
LEMMA RetryRestart ==
  ASSUME TypeOK, Restart
  PROVE  InStep'
  <1>1. /\ fwd_tx_queue' = <<>> /\ fwd_rx_queue' = <<>> /\ fwd_retry_queue' = <<>>
        /\ tx_queue' = [s \in Sessions |-> <<>>]
        /\ rx' = [s \in Sessions |-> IF rx[s] = "none" THEN "none" ELSE "exited"]
        /\ ftx' = Idle("pop") /\ frx' = Idle("pop") /\ main' = "poll"
    BY DEF Restart
  <1>2. ftx'.pc = "pop" /\ frx'.pc = "pop"
    BY <1>1 DEF Idle
  <1>3. \A s \in Sessions : tx_queue'[s] = <<>> /\ rx'[s] \notin {"wait", "add"}
    BY <1>1
  <1>4. /\ Keys(fwd_tx_queue') = {} /\ Keys(fwd_rx_queue') = {} /\ Keys(fwd_retry_queue') = {}
        /\ Performed' = {} /\ Held(ftx') = {} /\ Held(frx') = {}
    BY <1>1, <1>2, <1>3, EmptyKeys DEF Performed, Held
  <1>5. OnTheWay' = {}
    BY <1>4 DEF OnTheWay
  <1>6. InOrder'
    <2>1. DOMAIN fwd_retry_queue' = {}
      BY <1>1, SMTT(40)
    <2>2. InTurn({}, {}, {}, {}, {})
      BY TurnPairs, OlderUnion
    <2>3. Older({}, {})
      BY OlderUnion
    <2> QED BY <1>1, <1>4, <2>1, <2>2, <2>3, EmptyKeys DEF InOrder
  <1>7. MarksInOrder'
    BY <1>1, <1>2, EmptyKeys DEF MarksInOrder
  <1>8. ASSUME NEW s \in Sessions PROVE Youngest(s)' /\ OwnQueue(s)'
    <2>1. DOMAIN tx_queue'[s] = {}
      BY <1>3, SMTT(40)
    <2> QED BY <1>3, <1>5, <2>1 DEF Youngest, OwnQueue
  <1> QED BY <1>1, <1>6, <1>7, <1>8 DEF InStep

\* Only a reconnect counts as one.
LEMMA ReconnectCounted ==
  ASSUME TypeOK, [Next]_vars, bounds'.reconnects = 0
  PROVE  bounds.reconnects = 0 /\ ~ReconnectStart
  <1>1. bounds \in [faults : Nat, reconnects : Nat, crashes : Nat]
    BY DEF TypeOK, ProcType
  <1>2. ~ReconnectStart
    <2> SUFFICES ASSUME ReconnectStart PROVE FALSE
      OBVIOUS
    <2>1. bounds' = [bounds EXCEPT !.reconnects = bounds.reconnects + 1]
      BY DEF ReconnectStart
    <2> QED BY <1>1, <2>1, SMTT(40)
  <1>3. \/ bounds' = bounds
        \/ bounds' = [bounds EXCEPT !.faults = bounds.faults + 1]
        \/ bounds' = [bounds EXCEPT !.crashes = bounds.crashes + 1]
    <2>1. CASE \E s \in Sessions : SessionStep(s)
      BY <2>1 DEF SessionStep, ClientClose, WorkerNotify, RxRecv, RxWait, RxPush, RxTerminate,
                  TxPop, TxNotify, RegisterFd, MakePipe, Cleanup, procVars
    <2>2. CASE ForwarderStep
      BY <2>2 DEF ForwarderStep, FwdTxPop, FwdTxSend, FwdTxPush, FwdRxPop, FwdRxRecv,
                  FwdRxFinish, procVars
    <2>3. CASE MainStep
      BY <1>2, <2>3 DEF MainStep, ReconnectRetry, ReconnectFinish, QueryStatus, ExitRequest,
                  ExitShutdown, ExitProcess, procVars, vars
    <2>4. CASE LoseConnection \/ Crash \/ Restart \/ UNCHANGED vars
      BY <2>4 DEF LoseConnection, Crash, Restart, vars, procVars
    <2> QED BY <2>1, <2>2, <2>3, <2>4 DEF Next, Ended
  <1>4. bounds'.reconnects = bounds.reconnects
    BY <1>1, <1>3
  <1> QED BY <1>2, <1>4

\* Every step keeps the order and the marks until the first reconnect.
LEMMA RetryStep ==
  ASSUME RetryInv, [Next]_vars
  PROVE  RetryInv'
  <1>1. TypeOK /\ TypeOK'
    BY TypeStep DEF RetryInv
  <1>2. ASSUME bounds'.reconnects = 0 PROVE InStep'
    <2>1. InStep /\ ~ReconnectStart
      BY <1>1, <1>2, ReconnectCounted DEF RetryInv
    <2>2. ~ReconnectRetry /\ ~ReconnectFinish
      BY <2>1 DEF ReconnectRetry, ReconnectFinish, InStep
    <2>3. CASE MainStep
      BY <1>1, <2>1, <2>2, <2>3, RetryMain DEF MainStep
    <2>4. CASE LoseConnection \/ Crash \/ UNCHANGED vars
      BY <1>1, <2>1, <2>4, RetryMain
    <2> QED BY <1>1, <2>1, <2>3, <2>4, RetrySession, RetryForwarder, RetryRestart
            DEF Next, Ended
  <1> QED BY <1>1, <1>2 DEF RetryInv

\* Until the first reconnect, a request that waits for a retry in fwd_retry_queue
\* is younger than all requests of its session that were performed: however the
\* failures of sending and receiving and the threads interleave, forwarder_rx
\* never performs a request after it kept back an older one.
THEOREM RetriesInOrder == Spec => []RetryInOrder
  <1>1. RetryInv => RetryInOrder
    <2> SUFFICES ASSUME RetryInv, bounds.reconnects = 0, NEW p \in Range(fwd_retry_queue),
                        NEW q \in Range(tx_queue[p.ses]), q.kind = "io"
                 PROVE  q.num < p.num
      BY DEF RetryInOrder
    <2>1. InStep /\ fwd_retry_queue \in Seq(Priv)
      BY DEF RetryInv, TypeOK, QueueType
    <2>2. PICK j \in DOMAIN fwd_retry_queue : p = fwd_retry_queue[j]
      BY DEF Range
    <2>3. p \in Priv /\ p.kind = "io"
      <3>1. p \in Priv
        BY <2>1, <2>2, SMTT(40)
      <3> QED BY <2>1, <2>2, <3>1 DEF InStep, InOrder
    <2>4. p.ses \in Sessions
      BY <2>3 DEF Priv, PrivFields
    <2>5. PICK k \in DOMAIN tx_queue[p.ses] : q = tx_queue[p.ses][k]
      BY DEF Range
    <2>6. q.ses = p.ses
      BY <2>1, <2>4, <2>5 DEF InStep, OwnQueue
    <2>7. <<q.ses, q.num>> \in Performed
      <3>1. <<q.ses, q.num>> \in Keys(tx_queue[p.ses])
        BY <2>5, KeyFields DEF Keys
      <3> QED BY <2>4, <3>1 DEF Performed
    <2>8. <<p.ses, p.num>> \in Keys(fwd_retry_queue)
      BY <2>2, <2>3, KeyFields DEF Keys
    <2>9. <<q.ses, q.num>>[1] = <<p.ses, p.num>>[1] => <<q.ses, q.num>>[2] < <<p.ses, p.num>>[2]
      BY <2>1, <2>7, <2>8 DEF InStep, InOrder, Older
    <2> QED BY <2>6, <2>9
  <1> QED BY <1>1, RetryInit, RetryStep, PTL DEF Spec

=============================================================================
