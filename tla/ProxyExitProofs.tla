-------------------------- MODULE ProxyExitProofs --------------------------
(***************************************************************************)
(* The end of a session, for every value of the constants: as long as no   *)
(* transfer on the remote connection failed, the exit notice of a session  *)
(* stays behind all its requests on the whole way through the forwarder,   *)
(* so the session is freed when the last of them has been answered.  (Once *)
(* a transfer failed the notice overtakes the requests in fwd_retry_queue.)*)
(***************************************************************************)
EXTENDS ProxyProofs
USE Zenon

\* The assumption: no send and no receive has failed.
NoFailure == ~sending_failed /\ ~receiving_failed

-----------------------------------------------------------------------------
(* Queues of proxy_privs *)

\* Something of session s is in the queue; its exit notice is.
Of(q, s) == \E k \in DOMAIN q : q[k].kind # "stop" /\ q[k].ses = s
ExitOf(q, s) == \E k \in DOMAIN q : q[k].kind = "exit" /\ q[k].ses = s

\* Nothing of a session is queued behind its exit notice.
ExitLast(q) ==
  \A j, k \in DOMAIN q :
    j < k /\ q[j].kind = "exit" /\ q[k].kind # "stop" => q[k].ses # q[j].ses

\* No request in the queue is to be retried.
Fresh(q) == \A k \in DOMAIN q : ~q[k].need_retry

Hand(thread, s) == thread.pc = "busy" /\ thread.priv.ses = s

\* A tx_queue holds privs of its own session only, the exit notice last.
Own(q, s) ==
  /\ \A k \in DOMAIN q : q[k].kind # "stop" /\ q[k].ses = s
  /\ ExitLast(q)

\* Nothing of a session is in front of fwd_rx_queue any more; none is in front
\* of its tx_queue.
SentOn(s) == rx[s] = "exited" /\ ~Of(fwd_tx_queue, s) /\ ~Hand(ftx, s)
AllThrough(s) == SentOn(s) /\ ~Of(fwd_rx_queue, s) /\ ~Hand(frx, s)

\* The exit notice of a session is behind all its requests, from the rx thread
\* to the tx thread; when it has been taken out, nothing of the session is left.
ExitOrder(s) ==
  /\ rx[s] \in {"wait", "add"} => rx_priv[s].ses = s /\ ~rx_priv[s].need_retry
  /\ Own(tx_queue[s], s)
  /\ ExitOf(fwd_tx_queue, s) => rx[s] = "exited"
  /\ ExitOf(fwd_rx_queue, s) => SentOn(s)
  /\ ExitOf(tx_queue[s], s) => AllThrough(s)
  /\ tx[s] \in {"notify", "exited"} => AllThrough(s) /\ tx_queue[s] = <<>>
  /\ session[s] = "freed" => tx[s] = "exited"
  /\ session[s] = "unborn" <=> rx[s] = "none"
  /\ session[s] = "unborn" <=> tx[s] = "none"

NothingRetried ==
  /\ Fresh(fwd_tx_queue) /\ Fresh(fwd_rx_queue) /\ fwd_retry_queue = <<>>
  /\ ~ftx.priv.need_retry /\ ~frx.priv.need_retry

ExitInv ==
  /\ TypeOK
  /\ NothingRetried
  /\ ExitLast(fwd_tx_queue) /\ ExitLast(fwd_rx_queue)
  /\ \A s \in Sessions : ExitOrder(s)

\* An empty queue.
LEMMA EmptyQueue ==
  ASSUME NEW s
  PROVE  /\ ~Of(<<>>, s) /\ ~ExitOf(<<>>, s) /\ ExitLast(<<>>) /\ Fresh(<<>>)
         /\ Own(<<>>, s)
  BY SMTT(40) DEF Of, ExitOf, ExitLast, Fresh, Own

\* An exit notice is something of its session.
LEMMA ExitIsOf ==
  ASSUME NEW q, NEW s, ExitOf(q, s)
  PROVE  Of(q, s)
  BY DEF Of, ExitOf

\* What a push adds to a queue.
LEMMA PushQueue ==
  ASSUME NEW q \in Seq(Priv), NEW p \in Priv, NEW s
  PROVE  /\ Of(Append(q, p), s) <=> Of(q, s) \/ (p.kind # "stop" /\ p.ses = s)
         /\ ExitOf(Append(q, p), s) <=> ExitOf(q, s) \/ (p.kind = "exit" /\ p.ses = s)
         /\ Fresh(Append(q, p)) <=> Fresh(q) /\ ~p.need_retry
  <1> DEFINE a == Append(q, p)
  <1>1. /\ Len(q) \in Nat /\ DOMAIN q = 1 .. Len(q)
        /\ DOMAIN a = 1 .. Len(q) + 1
        /\ a[Len(q) + 1] = p
        /\ \A k \in 1 .. Len(q) : a[k] = q[k]
    BY SMTT(40)
  <1>2. DOMAIN a = DOMAIN q \cup {Len(q) + 1}
    BY <1>1, SMTT(40)
  <1> HIDE DEF a
  <1>3. /\ \A k \in DOMAIN q : k \in DOMAIN a /\ a[k] = q[k]
        /\ Len(q) + 1 \in DOMAIN a
        /\ \A k \in DOMAIN a : k \in DOMAIN q \/ a[k] = p
    BY <1>1, <1>2
  <1>4. Of(a, s) <=> Of(q, s) \/ (p.kind # "stop" /\ p.ses = s)
    BY <1>1, <1>3 DEF Of
  <1>5. ExitOf(a, s) <=> ExitOf(q, s) \/ (p.kind = "exit" /\ p.ses = s)
    BY <1>1, <1>3 DEF ExitOf
  <1>6. Fresh(a) <=> Fresh(q) /\ ~p.need_retry
    BY <1>1, <1>3 DEF Fresh
  <1> QED BY <1>4, <1>5, <1>6 DEF a

\* A push keeps the exit notices last if none of the same session is there.
LEMMA PushExitLast ==
  ASSUME NEW q \in Seq(Priv), NEW p \in Priv, ExitLast(q),
         p.kind # "stop" => ~ExitOf(q, p.ses)
  PROVE  ExitLast(Append(q, p))
  <1> DEFINE a == Append(q, p)
  <1>1. /\ Len(q) \in Nat /\ DOMAIN q = 1 .. Len(q)
        /\ DOMAIN a = 1 .. Len(q) + 1
        /\ a[Len(q) + 1] = p
        /\ \A k \in 1 .. Len(q) : a[k] = q[k]
    BY SMTT(40)
  <1> HIDE DEF a
  <1>2. SUFFICES ASSUME NEW j \in DOMAIN a, NEW k \in DOMAIN a, j < k,
                        a[j].kind = "exit", a[k].kind # "stop"
                 PROVE  a[k].ses # a[j].ses
    BY DEF ExitLast, a
  <1>3. j \in DOMAIN q /\ a[j] = q[j]
    BY <1>1, <1>2, SMTT(40)
  <1>4. CASE k \in DOMAIN q
    BY <1>1, <1>2, <1>3, <1>4 DEF ExitLast
  <1>5. CASE k = Len(q) + 1
    BY <1>1, <1>2, <1>3, <1>5 DEF ExitOf
  <1> QED BY <1>1, <1>4, <1>5, SMTT(40)

\* What a pop leaves in a queue.
LEMMA PopQueue ==
  ASSUME NEW q \in Seq(Priv), q # <<>>, NEW s
  PROVE  /\ Of(Tail(q), s) => Of(q, s)
         /\ ExitOf(Tail(q), s) => ExitOf(q, s)
         /\ ExitLast(q) => ExitLast(Tail(q))
         /\ Fresh(q) => Fresh(Tail(q)) /\ ~Head(q).need_retry
         /\ Head(q).kind # "stop" => Of(q, Head(q).ses)
         /\ Head(q).kind = "exit" => ExitOf(q, Head(q).ses)
         /\ ExitLast(q) /\ Head(q).kind = "exit" => ~Of(Tail(q), Head(q).ses)
  <1> DEFINE a == Tail(q)
             h == Head(q)
  <1>1. /\ Len(q) \in Nat /\ Len(q) > 0 /\ DOMAIN q = 1 .. Len(q)
        /\ DOMAIN a = 1 .. Len(q) - 1
        /\ q[1] = h
        /\ \A k \in 1 .. Len(q) - 1 : a[k] = q[k + 1]
    BY SMTT(40)
  <1> HIDE DEF a, h
  <1>2. 1 \in DOMAIN q /\ \A k \in DOMAIN a : k + 1 \in DOMAIN q /\ a[k] = q[k + 1]
    BY <1>1, SMTT(40)
  <1>3. (Of(a, s) => Of(q, s)) /\ (ExitOf(a, s) => ExitOf(q, s))
    BY <1>2 DEF Of, ExitOf
  <1>4. ExitLast(q) => ExitLast(a)
    BY <1>1, <1>2, SMTT(40) DEF ExitLast
  <1>5. Fresh(q) => Fresh(a) /\ ~h.need_retry
    BY <1>1, <1>2 DEF Fresh
  <1>6. (h.kind # "stop" => Of(q, h.ses)) /\ (h.kind = "exit" => ExitOf(q, h.ses))
    BY <1>1, <1>2 DEF Of, ExitOf
  <1>7. ExitLast(q) /\ h.kind = "exit" => ~Of(a, h.ses)
    <2> SUFFICES ASSUME ExitLast(q), h.kind = "exit", NEW k \in DOMAIN a,
                        a[k].kind # "stop", a[k].ses = h.ses
                 PROVE  FALSE
      BY DEF Of
    <2> QED BY <1>1, <1>2, SMTT(40) DEF ExitLast
  <1> QED BY <1>3, <1>4, <1>5, <1>6, <1>7 DEF a, h

-----------------------------------------------------------------------------
(* The inductive invariant *)

\* At the start there is nothing in the proxy.
LEMMA ExitInit == Init => ExitInv
  <1> SUFFICES ASSUME Init PROVE ExitInv
    OBVIOUS
  <1>1. TypeOK
    BY TypeInit
  <1>2. NothingRetried
    BY EmptyQueue DEF Init, NothingRetried, Idle, priv_stop_forwarder
  <1>3. ExitLast(fwd_tx_queue) /\ ExitLast(fwd_rx_queue)
    BY EmptyQueue DEF Init
  <1>4. ASSUME NEW s \in Sessions PROVE ExitOrder(s)
    <2>1. /\ fwd_tx_queue = <<>> /\ fwd_rx_queue = <<>> /\ tx_queue[s] = <<>>
          /\ rx[s] = "none" /\ tx[s] = "none" /\ session[s] = "unborn"
      BY DEF Init
    <2> QED BY <2>1, EmptyQueue DEF ExitOrder
  <1> QED BY <1>1, <1>2, <1>3, <1>4 DEF ExitInv

\* A step that leaves the threads of a session alone keeps the order of its
\* privs if it moves none of them backwards and the exit notice after the others.
LEMMA ExitOrderKept ==
  ASSUME NEW t \in Sessions, ExitOrder(t),
         session'[t] = session[t], rx'[t] = rx[t], tx'[t] = tx[t],
         rx_priv'[t] = rx_priv[t], Own(tx_queue'[t], t),
         SentOn(t) => SentOn(t)', AllThrough(t) => AllThrough(t)',
         ExitOf(fwd_tx_queue', t) => ExitOf(fwd_tx_queue, t),
         ExitOf(fwd_rx_queue', t) => ExitOf(fwd_rx_queue, t) \/ SentOn(t)',
         ExitOf(tx_queue'[t], t) => ExitOf(tx_queue[t], t) \/ AllThrough(t)',
         tx[t] \in {"notify", "exited"} => tx_queue'[t] = tx_queue[t]
  PROVE  ExitOrder(t)'
  BY DEF ExitOrder

\* Steps that neither move a proxy_priv nor change a thread of a session.
LEMMA ExitQuiet ==
  ASSUME ExitInv, TypeOK',
         UNCHANGED <<session, rx, rx_priv, tx, tx_queue, fwd_tx_queue,
                     fwd_rx_queue, fwd_retry_queue>>,
         ftx'.pc = ftx.pc, ftx'.priv = ftx.priv,
         frx'.pc = frx.pc, frx'.priv = frx.priv
  PROVE  ExitInv'
  <1>1. ASSUME NEW s \in Sessions PROVE ExitOrder(s)'
    <2>1. ExitOrder(s)
      BY DEF ExitInv
    <2>2. (Hand(ftx', s) <=> Hand(ftx, s)) /\ (Hand(frx', s) <=> Hand(frx, s))
      BY DEF Hand
    <2>3. (SentOn(s) => SentOn(s)') /\ (AllThrough(s) => AllThrough(s)')
      BY <2>2 DEF SentOn, AllThrough
    <2>4. Own(tx_queue'[s], s)
      BY <2>1 DEF ExitOrder
    <2> QED BY <2>1, <2>3, <2>4, ExitOrderKept
  <1> QED BY <1>1 DEF ExitInv, NothingRetried

\* Steps of a session that move no proxy_priv.
LEMMA ExitThreads ==
  ASSUME ExitInv, TypeOK', NEW s \in Sessions,
         UNCHANGED <<tx_queue, fwd_tx_queue, fwd_rx_queue, fwd_retry_queue,
                     ftx, frx>>,
         \/ RxRecv(s) \/ RxWait(s) \/ TxNotify(s) \/ RegisterFd(s) \/ Cleanup(s)
  PROVE  ExitInv'
  <1>1. /\ rx \in [Sessions -> {"none", "recv", "wait", "add", "exited"}]
        /\ rx_priv \in [Sessions -> Priv]
    BY DEF ExitInv, TypeOK, RxType
  <1>2. /\ tx \in [Sessions -> {"none", "run", "notify", "exited"}]
        /\ session \in [Sessions -> {"unborn", "live", "freed"}]
    BY DEF ExitInv, TypeOK, TxType, SesType
  <1>3. ASSUME NEW t \in Sessions PROVE ExitOrder(t)'
    <2>1. ExitOrder(t) /\ ExitOrder(s)
      BY DEF ExitInv
    <2>2. (SentOn(t) <=> rx[t] = "exited" /\ SentOn(t)) /\ Own(tx_queue'[t], t)
      BY <2>1 DEF SentOn, ExitOrder
    <2>3. /\ rx'[t] = rx[t] /\ tx'[t] = tx[t] /\ session'[t] = session[t]
          /\ rx_priv'[t] = rx_priv[t]
          => ExitOrder(t)'
      <3>1. rx'[t] = rx[t] => /\ SentOn(t) => SentOn(t)'
                              /\ AllThrough(t) => AllThrough(t)'
        BY DEF SentOn, AllThrough
      <3> QED BY <2>1, <2>2, <3>1, ExitOrderKept
    <2>4. rx[t] # "exited" =>
            /\ ~ExitOf(fwd_tx_queue', t) /\ ~ExitOf(fwd_rx_queue', t)
            /\ ~ExitOf(tx_queue'[t], t)
            /\ tx[t] \notin {"notify", "exited"} /\ session[t] # "freed"
      BY <2>1 DEF ExitOrder, SentOn, AllThrough
    <2>5. CASE RxRecv(s)
      <3>1. /\ rx' = [rx EXCEPT ![s] = "wait"] /\ rx[s] = "recv"
            /\ \E r \in Requests : rx_priv' = [rx_priv EXCEPT ![s] = NewPriv(s, r)]
            /\ UNCHANGED <<tx, session>>
        BY <2>5 DEF RxRecv, sesVars, txVars
      <3>2. /\ rx'[t] = IF t = s THEN "wait" ELSE rx[t]
            /\ rx_priv'[s].ses = s /\ ~rx_priv'[s].need_retry
            /\ t # s => rx_priv'[t] = rx_priv[t]
        BY <1>1, <3>1, SMTT(40) DEF NewPriv
      <3>3. CASE t = s
        BY <2>1, <2>2, <2>4, <3>1, <3>2, <3>3, SMTT(40) DEF ExitOrder
      <3> QED BY <2>3, <3>1, <3>2, <3>3
    <2>6. CASE RxWait(s)
      <3>1. /\ rx' = [rx EXCEPT ![s] = "add"] /\ rx[s] = "wait"
            /\ UNCHANGED <<tx, session, rx_priv>>
        BY <2>6 DEF RxWait, sesVars, txVars
      <3>2. rx'[t] = IF t = s THEN "add" ELSE rx[t]
        BY <1>1, <3>1
      <3>3. CASE t = s
        BY <2>1, <2>2, <2>4, <3>1, <3>2, <3>3, SMTT(40) DEF ExitOrder
      <3> QED BY <2>3, <3>1, <3>2, <3>3
    <2>7. CASE TxNotify(s)
      <3>1. /\ tx' = [tx EXCEPT ![s] = "exited"] /\ tx[s] = "notify"
            /\ UNCHANGED <<rx, rx_priv, session>>
        BY <2>7 DEF TxNotify, rxVars
      <3>2. tx'[t] = IF t = s THEN "exited" ELSE tx[t]
        BY <1>2, <3>1
      <3> QED BY <2>1, <3>1, <3>2 DEF ExitOrder, SentOn, AllThrough
    <2>8. CASE RegisterFd(s)
      <3>1. /\ rx' = [rx EXCEPT ![s] = "recv"] /\ tx' = [tx EXCEPT ![s] = "run"]
            /\ session' = [session EXCEPT ![s] = "live"] /\ session[s] = "unborn"
            /\ UNCHANGED rx_priv
        BY <2>8 DEF RegisterFd
      <3>2. /\ rx'[t] = IF t = s THEN "recv" ELSE rx[t]
            /\ tx'[t] = IF t = s THEN "run" ELSE tx[t]
            /\ session'[t] = IF t = s THEN "live" ELSE session[t]
        BY <1>1, <1>2, <3>1
      <3>3. CASE t = s
        <4>1. rx[t] = "none"
          BY <2>1, <3>1, <3>3 DEF ExitOrder
        <4> QED BY <2>1, <2>2, <2>4, <3>2, <3>3, <4>1 DEF ExitOrder
      <3> QED BY <2>3, <3>1, <3>2, <3>3
    <2>9. CASE Cleanup(s)
      <3>1. /\ session' = session \/ session' = [session EXCEPT ![s] = "freed"]
            /\ rx[s] = "exited" /\ tx[s] = "exited"
            /\ UNCHANGED <<rx, rx_priv, tx>>
        BY <2>9 DEF Cleanup, sesVars, rxVars
      <3>2. session'[t] = session[t] \/ (t = s /\ session'[t] = "freed")
        BY <1>2, <3>1
      <3> QED BY <2>1, <3>1, <3>2 DEF ExitOrder, SentOn, AllThrough
    <2> QED BY <2>5, <2>6, <2>7, <2>8, <2>9
  <1> QED BY <1>3 DEF ExitInv, NothingRetried

\* An rx thread pushes a request, or its exit notice as the last.
LEMMA ExitRx ==
  ASSUME ExitInv, TypeOK', NEW s \in Sessions, RxPush(s) \/ RxTerminate(s)
  PROVE  ExitInv'
  <1>1. /\ rx \in [Sessions -> {"none", "recv", "wait", "add", "exited"}]
        /\ rx_priv \in [Sessions -> Priv] /\ fwd_tx_queue \in Seq(Priv)
        /\ \A t \in Sessions : ExitOrder(t)
        /\ rx[s] = "add" => rx_priv[s].kind = "io"
    BY DEF ExitInv, TypeOK, RxType, QueueType
  <1>2. PICK p \in Priv :
          /\ fwd_tx_queue' = Append(fwd_tx_queue, p)
          /\ p.ses = s /\ p.kind # "stop" /\ ~p.need_retry
          /\ p.kind = "exit" => rx' = [rx EXCEPT ![s] = "exited"]
          /\ p.kind # "exit" => rx' = [rx EXCEPT ![s] = "recv"]
    <2>1. CASE RxPush(s)
      <3> DEFINE q == [rx_priv[s] EXCEPT !.may = MayReturn(content, rx_priv[s])]
      <3>1. /\ rx[s] = "add" /\ rx' = [rx EXCEPT ![s] = "recv"]
            /\ fwd_tx_queue' = Append(fwd_tx_queue, q)
        BY <2>1 DEF RxPush
      <3>2. rx_priv[s].ses = s /\ ~rx_priv[s].need_retry /\ rx_priv[s].kind = "io"
        BY <1>1, <3>1 DEF ExitOrder
      <3>3. content \in [Bytes -> SUBSET Values]
        BY DEF ExitInv, TypeOK, QueueType
      <3>4. q \in Priv
        BY <1>1, <3>3, MayReturnType
      <3>5. q.ses = s /\ ~q.need_retry /\ q.kind = "io"
        BY <1>1, <3>2 DEF Priv, PrivFields
      <3> HIDE DEF q
      <3> QED BY <3>1, <3>4, <3>5
    <2>2. CASE RxTerminate(s)
      <3>1. /\ rx' = [rx EXCEPT ![s] = "exited"]
            /\ \E iolen \in Nat, buff \in {"none", "write"} :
                 fwd_tx_queue' = Append(fwd_tx_queue, ExitPriv(s, buff, iolen))
        <4>1. \A r \in Requests : r.iolen \in Nat
          BY RequestsAssumption
        <4> QED BY <2>2, <4>1 DEF RxTerminate
      <3>2. PICK iolen \in Nat, buff \in {"none", "write"} :
              fwd_tx_queue' = Append(fwd_tx_queue, ExitPriv(s, buff, iolen))
        BY <3>1
      <3>3. /\ ExitPriv(s, buff, iolen).ses = s
            /\ ~ExitPriv(s, buff, iolen).need_retry
            /\ ExitPriv(s, buff, iolen).kind = "exit"
        BY DEF ExitPriv, priv_stop_forwarder
      <3> QED BY <3>1, <3>2, <3>3, ExitType
    <2> QED BY <2>1, <2>2
  <1>3. /\ rx[s] \in {"add", "recv"}
        /\ \A t \in Sessions : t # s => rx_priv'[t] = rx_priv[t]
        /\ UNCHANGED <<tx, tx_queue, session, fwd_rx_queue, fwd_retry_queue,
                       ftx, frx>>
    BY <1>1 DEF RxPush, RxTerminate, sesVars, rxVars, txVars, ftxVars, frxVars
  <1>4. /\ ~ExitOf(fwd_tx_queue, s) /\ ~ExitOf(fwd_rx_queue, s)
        /\ ~ExitOf(tx_queue[s], s) /\ tx[s] \notin {"notify", "exited"}
        /\ session[s] # "unborn"
    <2>1. ExitOrder(s)
      BY <1>1
    <2> QED BY <1>3, <2>1 DEF ExitOrder, SentOn, AllThrough
  <1>5. ASSUME NEW t \in Sessions PROVE ExitOrder(t)'
    <2>1. /\ Of(fwd_tx_queue', t) <=> Of(fwd_tx_queue, t) \/ s = t
          /\ ExitOf(fwd_tx_queue', t) <=>
               ExitOf(fwd_tx_queue, t) \/ (p.kind = "exit" /\ s = t)
      BY <1>1, <1>2, PushQueue, SMTT(40)
    <2>2. /\ t # s => rx'[t] = rx[t]
          /\ t = s => rx'[t] = IF p.kind = "exit" THEN "exited" ELSE "recv"
      BY <1>1, <1>2
    <2>3. ExitOrder(t)
      BY <1>1
    <2>4. CASE t # s
      <3>1. (SentOn(t) => SentOn(t)') /\ (AllThrough(t) => AllThrough(t)')
        BY <1>3, <2>1, <2>2, <2>4 DEF SentOn, AllThrough
      <3>2. Own(tx_queue'[t], t)
        BY <1>3, <2>3 DEF ExitOrder
      <3>3. /\ session'[t] = session[t] /\ tx'[t] = tx[t] /\ rx'[t] = rx[t]
            /\ rx_priv'[t] = rx_priv[t] /\ tx_queue'[t] = tx_queue[t]
        BY <1>3, <2>2, <2>4
      <3> QED BY <1>3, <2>1, <2>3, <2>4, <3>1, <3>2, <3>3, ExitOrderKept
    <2>5. CASE t = s
      <3>1. /\ rx'[t] \in {"exited", "recv"}
            /\ ExitOf(fwd_tx_queue', t) => rx'[t] = "exited"
        BY <1>4, <2>1, <2>2, <2>5
      <3>2. /\ ~ExitOf(fwd_rx_queue', t) /\ ~ExitOf(tx_queue'[t], t)
            /\ tx'[t] \notin {"notify", "exited"} /\ tx'[t] # "none"
            /\ session'[t] # "unborn" /\ session'[t] # "freed"
            /\ Own(tx_queue'[t], t)
        BY <1>3, <1>4, <2>3, <2>5 DEF ExitOrder
      <3>3. rx'[t] \notin {"wait", "add"} /\ rx'[t] # "none"
        BY <3>1
      <3> QED BY <3>1, <3>2, <3>3 DEF ExitOrder
    <2> QED BY <2>4, <2>5
  <1>6. ExitLast(fwd_tx_queue')
    BY <1>1, <1>2, <1>4, PushExitLast DEF ExitInv
  <1>7. NothingRetried'
    BY <1>1, <1>2, <1>3, PushQueue DEF ExitInv, NothingRetried
  <1> QED BY <1>3, <1>5, <1>6, <1>7 DEF ExitInv

\* The tx thread takes a reply out, or the exit notice as the last.
LEMMA ExitTx ==
  ASSUME ExitInv, TypeOK', NEW s \in Sessions, TxPop(s)
  PROVE  ExitInv'
  <1> DEFINE q == tx_queue[s]
  <1>1. /\ tx \in [Sessions -> {"none", "run", "notify", "exited"}]
        /\ tx_queue \in [Sessions -> Seq(Priv)]
        /\ \A t \in Sessions : ExitOrder(t)
    BY DEF ExitInv, TypeOK, TxType
  <1>2. /\ tx[s] = "run" /\ q # <<>>
        /\ tx_queue' = [tx_queue EXCEPT ![s] = Tail(q)]
        /\ \/ Head(q).kind = "exit" /\ tx' = [tx EXCEPT ![s] = "notify"]
           \/ tx' = tx
        /\ UNCHANGED <<rx, rx_priv, session, fwd_tx_queue, fwd_rx_queue,
                       fwd_retry_queue, ftx, frx>>
    BY DEF TxPop, sesVars, rxVars, ftxVars, frxVars
  <1>3. /\ q \in Seq(Priv)
        /\ \A k \in DOMAIN q : q[k].kind # "stop" /\ q[k].ses = s
        /\ ExitLast(q)
    BY <1>1 DEF ExitOrder, Own
  <1>4. /\ tx_queue'[s] = Tail(q)
        /\ \A t \in Sessions : t # s => tx_queue'[t] = tx_queue[t] /\ tx'[t] = tx[t]
        /\ Tail(q) \in Seq(Priv)
        /\ \A k \in DOMAIN Tail(q) : Tail(q)[k].kind # "stop" /\ Tail(q)[k].ses = s
        /\ Head(q).kind # "stop" /\ Head(q).ses = s
    <2>1. /\ DOMAIN Tail(q) = 1 .. Len(q) - 1 /\ Len(q) \in Nat /\ Len(q) > 0
          /\ DOMAIN q = 1 .. Len(q)
          /\ \A k \in 1 .. Len(q) - 1 : Tail(q)[k] = q[k + 1]
          /\ Head(q) = q[1] /\ Tail(q) \in Seq(Priv)
      BY <1>2, <1>3, SMTT(40)
    <2>2. \A k \in DOMAIN Tail(q) : k + 1 \in DOMAIN q
      BY <2>1, SMTT(40)
    <2>3. 1 \in DOMAIN q
      BY <2>1, SMTT(40)
    <2> HIDE DEF q
    <2>4. /\ \A k \in DOMAIN Tail(q) : Tail(q)[k].kind # "stop" /\ Tail(q)[k].ses = s
          /\ Head(q).kind # "stop" /\ Head(q).ses = s
      BY <1>3, <2>1, <2>2, <2>3
    <2>5. /\ tx_queue'[s] = Tail(q)
          /\ \A t \in Sessions : t # s => tx_queue'[t] = tx_queue[t] /\ tx'[t] = tx[t]
      BY <1>1, <1>2
    <2> QED BY <2>1, <2>4, <2>5
  <1> HIDE DEF q
  <1>5. /\ ExitOf(Tail(q), s) => ExitOf(q, s)
        /\ ExitLast(Tail(q))
        /\ Head(q).kind = "exit" => ExitOf(q, s) /\ ~Of(Tail(q), s)
    BY <1>2, <1>3, <1>4, PopQueue
  <1>6. Head(q).kind = "exit" => Tail(q) = <<>>
    <2> SUFFICES ASSUME Head(q).kind = "exit", Tail(q) # <<>> PROVE FALSE
      OBVIOUS
    <2>1. 1 \in DOMAIN Tail(q)
      BY <1>4, SMTT(40)
    <2> QED BY <1>4, <1>5, <2>1 DEF Of
  <1>7. Own(Tail(q), s)
    BY <1>4, <1>5 DEF Own
  <1>8. ASSUME NEW t \in Sessions PROVE ExitOrder(t)'
    <2>1. ExitOrder(t)
      BY <1>1
    <2>2. CASE t # s
      <3>1. (SentOn(t) => SentOn(t)') /\ (AllThrough(t) => AllThrough(t)')
        BY <1>2 DEF SentOn, AllThrough
      <3>2. tx_queue'[t] = tx_queue[t] /\ tx'[t] = tx[t]
        BY <1>4, <2>2
      <3>3. Own(tx_queue'[t], t)
        BY <2>1, <3>2 DEF ExitOrder
      <3> QED BY <1>2, <2>1, <3>1, <3>2, <3>3, ExitOrderKept
    <2>3. CASE t = s
      <3>1. tx'[t] = tx[t] \/ (tx'[t] = "notify" /\ Head(q).kind = "exit")
        BY <1>1, <1>2, <2>3
      <3>2. tx_queue[t] = q /\ tx_queue'[t] = Tail(q)
        BY <1>4, <2>3 DEF q
      <3>3. AllThrough(t) <=> AllThrough(t)'
        BY <1>2 DEF SentOn, AllThrough
      <3>4. CASE tx'[t] = tx[t]
        <4>1. ExitOf(tx_queue'[t], t) => ExitOf(tx_queue[t], t)
          BY <1>5, <2>3, <3>2
        <4>2. tx[t] \notin {"notify", "exited"} /\ Own(tx_queue'[t], t)
          BY <1>2, <1>7, <2>3, <3>2
        <4>3. SentOn(t) <=> SentOn(t)'
          BY <1>2 DEF SentOn
        <4> QED BY <1>2, <2>1, <3>3, <3>4, <4>1, <4>2, <4>3, ExitOrderKept
      <3>5. CASE tx'[t] = "notify" /\ Head(q).kind = "exit"
        <4>1. AllThrough(t)' /\ tx_queue'[t] = <<>> /\ Own(tx_queue'[t], t)
          BY <1>5, <1>6, <1>7, <2>1, <2>3, <3>2, <3>3, <3>5 DEF ExitOrder
        <4>2. rx'[t] = "exited" /\ ~ExitOf(fwd_tx_queue', t)
              /\ ~ExitOf(fwd_rx_queue', t) /\ SentOn(t)'
          BY <4>1, ExitIsOf DEF AllThrough, SentOn
        <4>3. session'[t] # "freed" /\ session'[t] # "unborn"
          BY <1>2, <2>1, <2>3 DEF ExitOrder
        <4>4. /\ rx'[t] \notin {"wait", "add"} /\ rx'[t] # "none"
              /\ tx'[t] # "none"
          BY <3>5, <4>2
        <4> QED BY <4>1, <4>2, <4>3, <4>4 DEF ExitOrder
      <3> QED BY <3>1, <3>4, <3>5
    <2> QED BY <2>2, <2>3
  <1> QED BY <1>2, <1>8 DEF ExitInv, NothingRetried

\* Preparing a request leaves its session and need_retry alone.
LEMMA PrepareSame ==
  ASSUME NEW p \in Priv
  PROVE  Prepare(p).ses = p.ses /\ Prepare(p).need_retry = p.need_retry
  BY DEF Prepare, prepare_read_priv, prepare_write_priv, Priv, PrivFields

\* forwarder_tx takes the head of fwd_tx_queue in hand or passes it on.
LEMMA ExitFwdTxPop ==
  ASSUME ExitInv, TypeOK', FwdTxPop
  PROVE  ExitInv'
  <1> DEFINE h == Head(fwd_tx_queue)
  <1>1. /\ fwd_tx_queue \in Seq(Priv) /\ fwd_rx_queue \in Seq(Priv)
        /\ \A t \in Sessions : ExitOrder(t)
        /\ Fresh(fwd_tx_queue) /\ Fresh(fwd_rx_queue)
        /\ ExitLast(fwd_tx_queue) /\ ExitLast(fwd_rx_queue)
        /\ ~ftx.priv.need_retry
    BY DEF ExitInv, TypeOK, QueueType, NothingRetried
  <1>2. /\ ftx.pc = "pop" /\ fwd_tx_queue # <<>>
        /\ fwd_tx_queue' = Tail(fwd_tx_queue)
        /\ UNCHANGED <<session, rx, rx_priv, tx, tx_queue, frx, fwd_retry_queue>>
    BY DEF FwdTxPop, sesVars, rxVars, txVars, frxVars
  <1>3. h \in Priv /\ ~h.need_retry
    BY <1>1, <1>2, PopType, PopQueue
  <1>4. h.kind # "stop" => h.ses \in Sessions /\ Of(fwd_tx_queue, h.ses)
    BY <1>1, <1>2, <1>3, PopQueue DEF Priv
  <1>5. /\ \/ /\ h.kind = "stop" /\ fwd_rx_queue' = Append(fwd_rx_queue, h)
              /\ ftx' = Idle("exited")
           \/ /\ h.kind = "exit" /\ fwd_rx_queue' = Append(fwd_rx_queue, h)
              /\ ftx' = ftx
           \/ /\ h.kind = "io" /\ fwd_rx_queue' = fwd_rx_queue
              /\ \/ ftx' = [pc |-> "busy", priv |-> Prepare(h), i |-> 1]
                 \/ ftx' = [pc |-> "busy", priv |-> h, i |-> 1]
    BY DEF FwdTxPop, ftxVars
  <1>6. /\ ~ftx'.priv.need_retry
        /\ ftx'.pc = "busy" => h.kind = "io" /\ ftx'.priv.ses = h.ses
    BY <1>1, <1>2, <1>3, <1>5, PrepareSame, SMTT(40) DEF Idle, priv_stop_forwarder
  <1> HIDE DEF h
  <1>7. ASSUME NEW t \in Sessions
        PROVE  /\ Of(fwd_tx_queue', t) => Of(fwd_tx_queue, t)
               /\ ExitOf(fwd_tx_queue', t) => ExitOf(fwd_tx_queue, t)
               /\ h.kind = "exit" /\ h.ses = t =>
                    ExitOf(fwd_tx_queue, t) /\ ~Of(fwd_tx_queue', t)
    BY <1>1, <1>2, PopQueue DEF h
  <1>8. ASSUME NEW t \in Sessions
        PROVE  /\ Of(fwd_rx_queue', t) =>
                    Of(fwd_rx_queue, t) \/ (h.kind # "stop" /\ h.ses = t)
               /\ ExitOf(fwd_rx_queue', t) =>
                    ExitOf(fwd_rx_queue, t) \/ (h.kind = "exit" /\ h.ses = t)
    <2>1. CASE fwd_rx_queue' = fwd_rx_queue
      BY <2>1
    <2>2. CASE fwd_rx_queue' = Append(fwd_rx_queue, h)
      BY <1>1, <1>3, <2>2, PushQueue
    <2> QED BY <1>5, <2>1, <2>2
  <1>9. ASSUME NEW t \in Sessions PROVE ExitOrder(t)'
    <2>1. ~Hand(ftx, t) /\ (Hand(ftx', t) => h.kind = "io" /\ h.ses = t)
      BY <1>2, <1>6 DEF Hand
    <2>2. h.kind # "stop" /\ h.ses = t => Of(fwd_tx_queue, t)
      BY <1>4
    <2>3. ExitOrder(t)
      BY <1>1
    <2>4. /\ SentOn(t) => SentOn(t)'
          /\ AllThrough(t) => AllThrough(t)'
      BY <1>2, <1>7, <1>8, <2>1, <2>2 DEF SentOn, AllThrough
    <2>5. h.kind = "exit" /\ h.ses = t => SentOn(t)'
      <3> SUFFICES ASSUME h.kind = "exit", h.ses = t PROVE SentOn(t)'
        OBVIOUS
      <3>1. ExitOf(fwd_tx_queue, t) /\ ~Of(fwd_tx_queue', t) /\ ~Hand(ftx', t)
        BY <1>7, <2>1
      <3> QED BY <1>2, <2>3, <3>1 DEF ExitOrder, SentOn
    <2>6. Own(tx_queue'[t], t)
      BY <1>2, <2>3 DEF ExitOrder
    <2> QED BY <1>2, <1>7, <1>8, <2>3, <2>4, <2>5, <2>6, ExitOrderKept
  <1>10. ExitLast(fwd_tx_queue') /\ Fresh(fwd_tx_queue')
    BY <1>1, <1>2, PopQueue
  <1>11. ExitLast(fwd_rx_queue') /\ Fresh(fwd_rx_queue')
    <2>1. h.kind # "stop" => ~ExitOf(fwd_rx_queue, h.ses)
      BY <1>1, <1>4 DEF ExitOrder, SentOn
    <2>2. ExitLast(Append(fwd_rx_queue, h))
      BY <1>1, <1>3, <2>1, PushExitLast
    <2>3. Fresh(Append(fwd_rx_queue, h))
      BY <1>1, <1>3, PushQueue
    <2> QED BY <1>1, <1>5, <2>2, <2>3
  <1> QED BY <1>2, <1>6, <1>9, <1>10, <1>11 DEF ExitInv, NothingRetried

\* forwarder_tx passes the request in hand on; no send has failed, so it is not
\* marked for a retry.
LEMMA ExitFwdTxPush ==
  ASSUME ExitInv, TypeOK', FwdTxPush, NoFailure
  PROVE  ExitInv'
  <1> DEFINE h == [ftx.priv EXCEPT !.need_retry = @ \/ sending_failed]
  <1>1. /\ fwd_rx_queue \in Seq(Priv) /\ ftx \in Threads
        /\ sending_failed = FALSE
        /\ \A t \in Sessions : ExitOrder(t)
        /\ Fresh(fwd_rx_queue) /\ ExitLast(fwd_rx_queue)
        /\ ~ftx.priv.need_retry
    BY DEF ExitInv, TypeOK, QueueType, FtxType, NothingRetried, NoFailure
  <1>2. /\ ftx.pc = "busy" /\ ftx' = Idle("pop")
        /\ fwd_rx_queue' = Append(fwd_rx_queue, h)
        /\ UNCHANGED <<session, rx, rx_priv, tx, tx_queue, fwd_tx_queue, frx,
                       fwd_retry_queue>>
    BY DEF FwdTxPush, sesVars, rxVars, txVars, frxVars
  <1>3. ftx.priv \in Priv /\ ftx.priv.kind = "io"
    BY <1>1, <1>2 DEF Threads
  <1>4. /\ h \in Priv /\ h.kind = "io" /\ h.ses = ftx.priv.ses /\ ~h.need_retry
    <2>1. h = [ftx.priv EXCEPT !.need_retry = FALSE]
      BY <1>1
    <2>2. [ftx.priv EXCEPT !.need_retry = FALSE].need_retry = FALSE
      BY <1>3 DEF Priv, PrivFields
    <2> HIDE DEF h
    <2> QED BY <1>3, <2>1, <2>2, RetryType
  <1> HIDE DEF h
  <1>5. h.ses \in Sessions /\ Hand(ftx, h.ses)
    BY <1>2, <1>4 DEF Hand, Priv
  <1>6. ASSUME NEW t \in Sessions
        PROVE  /\ Of(fwd_rx_queue', t) => Of(fwd_rx_queue, t) \/ Hand(ftx, t)
               /\ ExitOf(fwd_rx_queue', t) => ExitOf(fwd_rx_queue, t)
               /\ ~Hand(ftx', t)
    BY <1>1, <1>2, <1>4, <1>5, PushQueue DEF Hand, Idle
  <1>7. ASSUME NEW t \in Sessions PROVE ExitOrder(t)'
    <2>1. ExitOrder(t)
      BY <1>1
    <2>2. (SentOn(t) => SentOn(t)') /\ (AllThrough(t) => AllThrough(t)')
      BY <1>2, <1>6 DEF SentOn, AllThrough
    <2>3. Own(tx_queue'[t], t)
      BY <1>2, <2>1 DEF ExitOrder
    <2> QED BY <1>2, <1>6, <2>1, <2>2, <2>3, ExitOrderKept
  <1>8. ExitLast(fwd_rx_queue') /\ Fresh(fwd_rx_queue')
    <2>1. ~ExitOf(fwd_rx_queue, h.ses)
      BY <1>1, <1>5 DEF ExitOrder, SentOn
    <2> QED BY <1>1, <1>2, <1>4, <2>1, PushQueue, PushExitLast
  <1>9. ~ftx'.priv.need_retry
    BY <1>2 DEF Idle, priv_stop_forwarder
  <1> QED BY <1>2, <1>7, <1>8, <1>9 DEF ExitInv, NothingRetried

\* What hand_to_tx_queue does to the queues of the tx threads.
LEMMA Handed ==
  ASSUME ExitInv, NEW p \in Priv, p.kind # "stop", p.ses \in Sessions,
         HandToTxQueue(p), ~ExitOf(tx_queue[p.ses], p.ses), NEW t \in Sessions
  PROVE  /\ t # p.ses => tx_queue'[t] = tx_queue[t]
         /\ Own(tx_queue'[t], t)
         /\ ExitOf(tx_queue'[t], t) =>
              ExitOf(tx_queue[t], t) \/ (p.kind = "exit" /\ p.ses = t)
  <1> DEFINE q == tx_queue[t]
             a == Append(q, p)
  <1>1. /\ q \in Seq(Priv) /\ tx_queue \in [Sessions -> Seq(Priv)]
        /\ \A k \in DOMAIN q : q[k].kind # "stop" /\ q[k].ses = t
        /\ ExitLast(q)
    <2>1. ExitOrder(t)
      BY DEF ExitInv
    <2> QED BY <2>1 DEF ExitInv, TypeOK, TxType, ExitOrder, Own
  <1>2. /\ t = p.ses => tx_queue'[t] = a \/ tx_queue'[t] = q
        /\ t # p.ses => tx_queue'[t] = q
    BY <1>1 DEF HandToTxQueue
  <1>3. t = p.ses => \A k \in DOMAIN a : a[k].kind # "stop" /\ a[k].ses = t
    <2>1. /\ Len(q) \in Nat /\ DOMAIN q = 1 .. Len(q)
          /\ DOMAIN a = 1 .. Len(q) + 1
          /\ a[Len(q) + 1] = p
          /\ \A k \in 1 .. Len(q) : a[k] = q[k]
      BY <1>1, SMTT(40)
    <2> HIDE DEF q, a
    <2> QED BY <1>1, <2>1, SMTT(40)
  <1>4. t = p.ses => /\ ExitLast(a)
                     /\ ExitOf(a, t) => ExitOf(q, t) \/ (p.kind = "exit" /\ p.ses = t)
    BY <1>1, PushQueue, PushExitLast
  <1>5. Own(q, t) /\ (t = p.ses => Own(a, t))
    BY <1>1, <1>3, <1>4 DEF Own
  <1> HIDE DEF a
  <1> QED BY <1>1, <1>2, <1>4, <1>5

\* forwarder_rx takes the head of fwd_rx_queue in hand, or hands an exit notice
\* to the tx thread.
LEMMA ExitFwdRxPop ==
  ASSUME ExitInv, TypeOK', FwdRxPop
  PROVE  ExitInv'
  <1> DEFINE h == Head(fwd_rx_queue)
  <1>1. /\ fwd_rx_queue \in Seq(Priv)
        /\ \A t \in Sessions : ExitOrder(t)
        /\ Fresh(fwd_rx_queue) /\ ExitLast(fwd_rx_queue)
        /\ ~frx.priv.need_retry
    BY DEF ExitInv, TypeOK, QueueType, NothingRetried
  <1>2. /\ frx.pc = "pop" /\ fwd_rx_queue # <<>>
        /\ fwd_rx_queue' = Tail(fwd_rx_queue)
        /\ UNCHANGED <<session, rx, rx_priv, tx, ftx, fwd_tx_queue,
                       fwd_retry_queue>>
    BY DEF FwdRxPop, sesVars, rxVars, ftxVars
  <1>3. h \in Priv /\ ~h.need_retry
    BY <1>1, <1>2, PopType, PopQueue
  <1>4. h.kind # "stop" => h.ses \in Sessions /\ Of(fwd_rx_queue, h.ses)
    BY <1>1, <1>2, <1>3, PopQueue DEF Priv
  <1>5. \/ /\ h.kind = "stop" /\ frx' = Idle("exited") /\ tx_queue' = tx_queue
        \/ /\ h.kind = "exit" /\ frx' = frx /\ HandToTxQueue(h)
        \/ /\ h.kind = "io" /\ tx_queue' = tx_queue
           /\ frx' = [pc |-> "busy", priv |-> h, i |-> 1]
    BY DEF FwdRxPop
  <1>6. /\ ~frx'.priv.need_retry
        /\ frx'.pc = "busy" => h.kind = "io" /\ frx'.priv.ses = h.ses
    BY <1>1, <1>2, <1>3, <1>5, SMTT(40) DEF Idle, priv_stop_forwarder
  <1> HIDE DEF h
  <1>7. ASSUME NEW t \in Sessions
        PROVE  /\ Of(fwd_rx_queue', t) => Of(fwd_rx_queue, t)
               /\ ExitOf(fwd_rx_queue', t) => ExitOf(fwd_rx_queue, t)
               /\ h.kind = "exit" /\ h.ses = t =>
                    ExitOf(fwd_rx_queue, t) /\ ~Of(fwd_rx_queue', t)
    BY <1>1, <1>2, PopQueue DEF h
  <1>8. h.kind # "stop" => ~ExitOf(tx_queue[h.ses], h.ses)
    BY <1>1, <1>4 DEF ExitOrder, AllThrough
  <1>9. ASSUME NEW t \in Sessions PROVE ExitOrder(t)'
    <2>1. ~Hand(frx, t) /\ (Hand(frx', t) => h.kind = "io" /\ h.ses = t)
      BY <1>2, <1>6 DEF Hand
    <2>2. ExitOrder(t) /\ (h.kind # "stop" /\ h.ses = t => Of(fwd_rx_queue, t))
      BY <1>1, <1>4
    <2>3. CASE h.kind # "exit"
      <3>1. tx_queue'[t] = tx_queue[t]
        BY <1>5, <2>3
      <3>2. (SentOn(t) => SentOn(t)') /\ (AllThrough(t) => AllThrough(t)')
        BY <1>2, <1>7, <2>1, <2>2 DEF SentOn, AllThrough
      <3>3. Own(tx_queue'[t], t)
        BY <2>2, <3>1 DEF ExitOrder
      <3> QED BY <1>2, <1>7, <2>2, <3>1, <3>2, <3>3, ExitOrderKept
    <2>4. CASE h.kind = "exit"
      <3>1. /\ t # h.ses => tx_queue'[t] = tx_queue[t]
            /\ Own(tx_queue'[t], t)
            /\ ExitOf(tx_queue'[t], t) => ExitOf(tx_queue[t], t) \/ h.ses = t
        BY <1>3, <1>4, <1>5, <1>8, <2>4, Handed
      <3>2. h.ses = t => tx[t] \notin {"notify", "exited"}
        BY <2>2, <2>4 DEF ExitOrder, AllThrough
      <3>3. (SentOn(t) => SentOn(t)') /\ (AllThrough(t) => AllThrough(t)')
        BY <1>2, <1>7, <2>1, <2>2 DEF SentOn, AllThrough
      <3>4. h.ses = t => AllThrough(t)'
        <4> SUFFICES ASSUME h.ses = t PROVE AllThrough(t)'
          OBVIOUS
        <4>1. ExitOf(fwd_rx_queue, t) /\ ~Of(fwd_rx_queue', t) /\ ~Hand(frx', t)
          BY <1>7, <2>1, <2>4
        <4>2. SentOn(t)'
          BY <2>2, <3>3, <4>1 DEF ExitOrder
        <4> QED BY <4>1, <4>2 DEF AllThrough
      <3> QED BY <1>2, <1>7, <2>2, <3>1, <3>2, <3>3, <3>4, ExitOrderKept
    <2> QED BY <2>3, <2>4
  <1>10. ExitLast(fwd_rx_queue') /\ Fresh(fwd_rx_queue')
    BY <1>1, <1>2, PopQueue
  <1> QED BY <1>2, <1>6, <1>9, <1>10 DEF ExitInv, NothingRetried

\* forwarder_rx hands the request in hand to the tx thread; no receive has
\* failed, so it is not kept for a retry.
LEMMA ExitFwdRxFinish ==
  ASSUME ExitInv, TypeOK', FwdRxFinish, NoFailure
  PROVE  ExitInv'
  <1> DEFINE p == [frx.priv EXCEPT !.need_retry = NeedRetry(frx.priv)]
             h == [p EXCEPT !.read_buff = ReadBuff(p)]
  <1>1. /\ frx \in Threads /\ cache \in [Bytes -> Values]
        /\ receiving_failed = FALSE
        /\ \A t \in Sessions : ExitOrder(t)
        /\ ~frx.priv.need_retry
    BY DEF ExitInv, TypeOK, FrxType, NothingRetried, NoFailure
  <1>2. NeedRetry(frx.priv) = FALSE
    BY <1>1 DEF NeedRetry
  <1>3. frx.pc = "busy" /\ frx.priv \in Priv /\ frx.priv.kind = "io"
    BY <1>1 DEF FwdRxFinish, Threads
  <1>4. p \in Priv /\ p.kind = "io" /\ p.ses = frx.priv.ses /\ ~p.need_retry
    BY <1>2, <1>3, RetryType DEF Priv, PrivFields
  <1>5. /\ frx' = Idle("pop") /\ HandToTxQueue(h)
        /\ UNCHANGED <<session, rx, rx_priv, tx, ftx, fwd_tx_queue, fwd_rx_queue,
                       fwd_retry_queue>>
    BY <1>4 DEF FwdRxFinish, sesVars, rxVars, ftxVars
  <1>6. h \in Priv /\ h.kind = "io" /\ h.ses = frx.priv.ses /\ h.ses \in Sessions
    <2>1. ReadBuff(p) \in Data
      BY <1>1, ReadBuffType
    <2> HIDE DEF p
    <2>2. h \in Priv /\ h.ses = p.ses
      BY <1>4, <2>1, FilledType
    <2>3. h.kind = "io"
      BY <1>4 DEF Priv, PrivFields
    <2> HIDE DEF h
    <2> QED BY <1>4, <2>2, <2>3 DEF Priv
  <1> HIDE DEF h, p
  <1>7. ~ExitOf(tx_queue[h.ses], h.ses) /\ tx[h.ses] \notin {"notify", "exited"}
    <2>1. ExitOrder(h.ses) /\ Hand(frx, h.ses)
      BY <1>1, <1>3, <1>6 DEF Hand
    <2> QED BY <2>1 DEF ExitOrder, AllThrough
  <1>8. ASSUME NEW t \in Sessions PROVE ExitOrder(t)'
    <2>1. /\ t # h.ses => tx_queue'[t] = tx_queue[t]
          /\ Own(tx_queue'[t], t)
          /\ ExitOf(tx_queue'[t], t) => ExitOf(tx_queue[t], t)
      BY <1>5, <1>6, <1>7, Handed
    <2>2. ~Hand(frx', t)
      BY <1>5 DEF Hand, Idle
    <2>3. ExitOrder(t)
      BY <1>1
    <2>4. (SentOn(t) => SentOn(t)') /\ (AllThrough(t) => AllThrough(t)')
      BY <1>5, <2>2 DEF SentOn, AllThrough
    <2> QED BY <1>5, <1>7, <2>1, <2>3, <2>4, ExitOrderKept
  <1>9. ~frx'.priv.need_retry
    BY <1>5 DEF Idle, priv_stop_forwarder
  <1> QED BY <1>5, <1>8, <1>9 DEF ExitInv, NothingRetried

\* The main thread pushes stop markers and starts the forwarder threads anew;
\* there is nothing to retry.
LEMMA ExitMain ==
  ASSUME ExitInv, TypeOK', MainStep
  PROVE  ExitInv'
  <1> USE DEF sesVars, rxVars, txVars, ftxVars, frxVars
  <1>1. /\ fwd_tx_queue \in Seq(Priv) /\ fwd_retry_queue = <<>>
        /\ \A t \in Sessions : ExitOrder(t)
        /\ Fresh(fwd_tx_queue) /\ ExitLast(fwd_tx_queue)
    BY DEF ExitInv, TypeOK, QueueType, NothingRetried
  <1>2. CASE ReconnectStart \/ ExitRequest
    <2>1. /\ fwd_tx_queue' = Append(fwd_tx_queue, priv_stop_forwarder)
          /\ UNCHANGED <<session, rx, rx_priv, tx, tx_queue, ftx, frx,
                         fwd_rx_queue, fwd_retry_queue>>
      BY <1>2 DEF ReconnectStart, ExitRequest, StopForwarder
    <2>2. priv_stop_forwarder.kind = "stop" /\ ~priv_stop_forwarder.need_retry
      BY DEF priv_stop_forwarder
    <2>3. ASSUME NEW t \in Sessions
          PROVE  /\ Of(fwd_tx_queue', t) <=> Of(fwd_tx_queue, t)
                 /\ ExitOf(fwd_tx_queue', t) <=> ExitOf(fwd_tx_queue, t)
      BY <1>1, <2>1, <2>2, StopType, PushQueue
    <2>4. ASSUME NEW t \in Sessions PROVE ExitOrder(t)'
      <3>1. ExitOrder(t)
        BY <1>1
      <3>2. (SentOn(t) => SentOn(t)') /\ (AllThrough(t) => AllThrough(t)')
        BY <2>1, <2>3 DEF SentOn, AllThrough
      <3>3. Own(tx_queue'[t], t)
        BY <2>1, <3>1 DEF ExitOrder
      <3> QED BY <2>1, <2>3, <3>1, <3>2, <3>3, ExitOrderKept
    <2>5. ExitLast(fwd_tx_queue') /\ Fresh(fwd_tx_queue')
      BY <1>1, <2>1, <2>2, StopType, PushQueue, PushExitLast
    <2> QED BY <2>1, <2>4, <2>5 DEF ExitInv, NothingRetried
  <1>3. CASE ReconnectRetry
    BY <1>1, <1>3 DEF ReconnectRetry
  <1>4. CASE ReconnectFinish
    <2>1. /\ ftx' = Idle("pop") /\ frx' = Idle("pop")
          /\ UNCHANGED <<session, rx, rx_priv, tx, tx_queue, fwd_tx_queue,
                         fwd_rx_queue, fwd_retry_queue>>
      BY <1>4 DEF ReconnectFinish
    <2>2. ASSUME NEW t \in Sessions PROVE ExitOrder(t)'
      <3>1. ~Hand(ftx', t) /\ ~Hand(frx', t)
        BY <2>1 DEF Hand, Idle
      <3>2. ExitOrder(t)
        BY <1>1
      <3>3. (SentOn(t) => SentOn(t)') /\ (AllThrough(t) => AllThrough(t)')
        BY <2>1, <3>1 DEF SentOn, AllThrough
      <3>4. Own(tx_queue'[t], t)
        BY <2>1, <3>2 DEF ExitOrder
      <3> QED BY <2>1, <3>2, <3>3, <3>4, ExitOrderKept
    <2>3. ~ftx'.priv.need_retry /\ ~frx'.priv.need_retry
      BY <2>1 DEF Idle, priv_stop_forwarder
    <2> QED BY <2>1, <2>2, <2>3 DEF ExitInv, NothingRetried
  <1>5. CASE QueryStatus \/ ExitShutdown \/ ExitProcess
    <2>1. UNCHANGED <<session, rx, rx_priv, tx, tx_queue, fwd_tx_queue,
                      fwd_rx_queue, fwd_retry_queue, ftx, frx>>
      BY <1>5 DEF QueryStatus, ExitShutdown, ExitProcess, vars
    <2> QED BY <2>1, ExitQuiet
  <1> QED BY <1>2, <1>3, <1>4, <1>5 DEF MainStep

\* After a restart the sessions of the old process are gone with their requests.
LEMMA ExitRestart ==
  ASSUME ExitInv, TypeOK', Restart
  PROVE  ExitInv'
  <1>1. /\ ftx' = Idle("pop") /\ frx' = Idle("pop")
        /\ fwd_tx_queue' = <<>> /\ fwd_rx_queue' = <<>> /\ fwd_retry_queue' = <<>>
    BY DEF Restart
  <1>2. ASSUME NEW t \in Sessions PROVE ExitOrder(t)'
    <2>1. /\ tx_queue'[t] = <<>>
          /\ session'[t] = IF session[t] = "live" THEN "freed" ELSE session[t]
          /\ rx'[t] = IF rx[t] = "none" THEN "none" ELSE "exited"
          /\ tx'[t] = IF tx[t] = "none" THEN "none" ELSE "exited"
      BY DEF Restart
    <2>2. ~Hand(ftx', t) /\ ~Hand(frx', t)
      BY <1>1 DEF Hand, Idle
    <2>3. ExitOrder(t) /\ session[t] \in {"unborn", "live", "freed"}
      BY DEF ExitInv, TypeOK, SesType
    <2>4. ~Of(<<>>, t) /\ ~ExitOf(<<>>, t) /\ Own(<<>>, t)
      BY EmptyQueue
    <2>5. rx'[t] # "none" => AllThrough(t)'
      BY <1>1, <2>1, <2>2, <2>4 DEF SentOn, AllThrough
    <2>6. /\ session'[t] = "unborn" <=> rx'[t] = "none"
          /\ session'[t] = "unborn" <=> tx'[t] = "none"
      BY <2>1, <2>3 DEF ExitOrder
    <2>7. rx'[t] \notin {"wait", "add"} /\ tx'[t] \in {"none", "exited"}
      BY <2>1
    <2>8. session'[t] = "freed" => tx'[t] = "exited"
      BY <2>6, <2>7
    <2>9. tx'[t] \in {"notify", "exited"} => AllThrough(t)'
      BY <2>5, <2>6, <2>7
    <2> QED BY <1>1, <2>1, <2>4, <2>6, <2>7, <2>8, <2>9 DEF ExitOrder
  <1>3. NothingRetried'
    BY <1>1, EmptyQueue DEF NothingRetried, Idle, priv_stop_forwarder
  <1> QED BY <1>1, <1>2, <1>3, EmptyQueue DEF ExitInv

\* Every step keeps the invariant, as long as no transfer has failed.
LEMMA ExitStep ==
  ASSUME ExitInv, NoFailure, [Next]_vars
  PROVE  ExitInv'
  <1> USE DEF sesVars, rxVars, txVars, ftxVars, frxVars
  <1>1. TypeOK'
    BY TypeStep DEF ExitInv
  <1>2. CASE UNCHANGED vars \/ LoseConnection \/ Crash
    <2>1. UNCHANGED <<session, rx, rx_priv, tx, tx_queue, fwd_tx_queue,
                      fwd_rx_queue, fwd_retry_queue, ftx, frx>>
      BY <1>2 DEF vars, LoseConnection, Crash
    <2> QED BY <1>1, <2>1, ExitQuiet
  <1>3. ASSUME NEW s \in Sessions, SessionStep(s) PROVE ExitInv'
    <2>1. CASE ClientClose(s) \/ WorkerNotify(s) \/ MakePipe(s)
      <3>1. UNCHANGED <<session, rx, rx_priv, tx, tx_queue, fwd_tx_queue,
                        fwd_rx_queue, fwd_retry_queue, ftx, frx>>
        BY <2>1 DEF ClientClose, WorkerNotify, MakePipe
      <3> QED BY <1>1, <3>1, ExitQuiet
    <2>2. CASE RxRecv(s) \/ RxWait(s) \/ TxNotify(s) \/ RegisterFd(s) \/ Cleanup(s)
      <3>1. UNCHANGED <<tx_queue, fwd_tx_queue, fwd_rx_queue, fwd_retry_queue,
                        ftx, frx>>
        BY <2>2 DEF RxRecv, RxWait, TxNotify, RegisterFd, Cleanup
      <3> QED BY <1>1, <2>2, <3>1, ExitThreads
    <2> QED BY <1>1, <1>3, <2>1, <2>2, ExitRx, ExitTx DEF SessionStep
  <1>4. CASE ForwarderStep
    <2>1. CASE FwdTxSend \/ FwdRxRecv
      <3>1. UNCHANGED <<session, rx, rx_priv, tx, tx_queue, fwd_tx_queue,
                        fwd_rx_queue, fwd_retry_queue>>
        BY <2>1 DEF FwdTxSend, FwdRxRecv
      <3>2. ftx \in Threads /\ frx \in Threads
        BY DEF ExitInv, TypeOK, FtxType, FrxType
      <3>3. /\ \/ ftx' = ftx
               \/ ftx' = [ftx EXCEPT !.i = ftx.i + 1] \/ ftx' = [ftx EXCEPT !.i = 0]
            /\ \/ frx' = frx
               \/ frx' = [frx EXCEPT !.i = frx.i + 1] \/ frx' = [frx EXCEPT !.i = 0]
        BY <2>1 DEF FwdTxSend, FwdRxRecv
      <3>4. /\ ftx'.pc = ftx.pc /\ ftx'.priv = ftx.priv
            /\ frx'.pc = frx.pc /\ frx'.priv = frx.priv
        BY <3>2, <3>3 DEF Threads
      <3> QED BY <1>1, <3>1, <3>4, ExitQuiet
    <2> QED BY <1>1, <1>4, <2>1, ExitFwdTxPop, ExitFwdTxPush, ExitFwdRxPop,
               ExitFwdRxFinish DEF ForwarderStep
  <1> QED BY <1>1, <1>2, <1>3, <1>4, ExitMain, ExitRestart DEF Next, Ended

-----------------------------------------------------------------------------
(* What the invariant says *)

\* The elements of a queue are those of its parts.
LEMMA ToSetConcat ==
  ASSUME NEW a \in Seq(Priv), NEW b \in Seq(Priv)
  PROVE  a \o b \in Seq(Priv) /\ Range(a \o b) = Range(a) \cup Range(b)
  <1>1. /\ a \o b \in Seq(Priv) /\ Len(a) \in Nat /\ Len(b) \in Nat
        /\ DOMAIN (a \o b) = 1 .. Len(a) + Len(b)
        /\ DOMAIN a = 1 .. Len(a) /\ DOMAIN b = 1 .. Len(b)
        /\ \A k \in 1 .. Len(a) : (a \o b)[k] = a[k]
        /\ \A k \in 1 .. Len(b) : (a \o b)[Len(a) + k] = b[k]
        /\ \A k \in 1 .. Len(a) + Len(b) :
             k > Len(a) => (a \o b)[k] = b[k - Len(a)]
    BY SMTT(40)
  <1> DEFINE c == a \o b
  <1> HIDE DEF c
  <1>2. ASSUME NEW k \in DOMAIN c PROVE c[k] \in Range(a) \cup Range(b)
    <2>1. CASE k <= Len(a)
      BY <1>1, <1>2, <2>1, SMTT(40) DEF Range, c
    <2>2. CASE k > Len(a)
      <3>1. k - Len(a) \in DOMAIN b /\ c[k] = b[k - Len(a)]
        BY <1>1, <1>2, <2>2, SMTT(40) DEF c
      <3> QED BY <3>1 DEF Range
    <2> QED BY <1>1, <1>2, <2>1, <2>2, SMTT(40) DEF c
  <1>3. ASSUME NEW k \in DOMAIN a PROVE a[k] \in Range(c)
    BY <1>1, <1>3, SMTT(40) DEF Range, c
  <1>4. ASSUME NEW k \in DOMAIN b PROVE b[k] \in Range(c)
    <2>1. Len(a) + k \in DOMAIN c /\ c[Len(a) + k] = b[k]
      BY <1>1, <1>4, SMTT(40) DEF c
    <2> QED BY <2>1 DEF Range
  <1>5. Range(c) \subseteq Range(a) \cup Range(b)
    BY <1>2 DEF Range
  <1>6. Range(a) \subseteq Range(c) /\ Range(b) \subseteq Range(c)
    BY <1>3, <1>4 DEF Range
  <1>7. Range(c) = Range(a) \cup Range(b)
    BY <1>5, <1>6
  <1> QED BY <1>1, <1>7 DEF c

\* Every proxy_priv in the process is in one of the queues or in hand.
LEMMA WherePrivsAre ==
  ASSUME ExitInv, NEW p \in Counted
  PROVE  /\ p.ses \in Sessions
         /\ \/ tx_queue[p.ses] # <<>>
            \/ Of(fwd_rx_queue, p.ses) \/ Of(fwd_tx_queue, p.ses)
            \/ Hand(frx, p.ses) \/ Hand(ftx, p.ses)
  <1>1. /\ frx \in Threads /\ ftx \in Threads /\ fwd_retry_queue = <<>>
        /\ fwd_rx_queue \in Seq(Priv) /\ fwd_tx_queue \in Seq(Priv)
        /\ tx_queue \in [Sessions -> Seq(Priv)]
    BY DEF ExitInv, TypeOK, FtxType, FrxType, QueueType, TxType, NothingRetried
  <1>2. InHand(frx) \in Seq(Priv) /\ InHand(ftx) \in Seq(Priv)
    BY <1>1, SMTT(40) DEF InHand, Threads
  <1>3. Range(InHand(frx) \o fwd_rx_queue \o InHand(ftx) \o fwd_tx_queue
              \o fwd_retry_queue)
        = Range(InHand(frx)) \cup Range(fwd_rx_queue) \cup Range(InHand(ftx))
          \cup Range(fwd_tx_queue) \cup Range(fwd_retry_queue)
    <2>1. fwd_retry_queue \in Seq(Priv)
      BY <1>1, SMTT(40)
    <2>2. /\ InHand(frx) \o fwd_rx_queue \in Seq(Priv)
          /\ Range(InHand(frx) \o fwd_rx_queue)
             = Range(InHand(frx)) \cup Range(fwd_rx_queue)
      BY <1>1, <1>2, ToSetConcat
    <2>3. /\ InHand(frx) \o fwd_rx_queue \o InHand(ftx) \in Seq(Priv)
          /\ Range(InHand(frx) \o fwd_rx_queue \o InHand(ftx))
             = Range(InHand(frx) \o fwd_rx_queue) \cup Range(InHand(ftx))
      BY <1>2, <2>2, ToSetConcat
    <2>4. /\ InHand(frx) \o fwd_rx_queue \o InHand(ftx) \o fwd_tx_queue \in Seq(Priv)
          /\ Range(InHand(frx) \o fwd_rx_queue \o InHand(ftx) \o fwd_tx_queue)
             = Range(InHand(frx) \o fwd_rx_queue \o InHand(ftx))
               \cup Range(fwd_tx_queue)
      BY <1>1, <2>3, ToSetConcat
    <2>5. Range(InHand(frx) \o fwd_rx_queue \o InHand(ftx) \o fwd_tx_queue
                \o fwd_retry_queue)
          = Range(InHand(frx) \o fwd_rx_queue \o InHand(ftx) \o fwd_tx_queue)
            \cup Range(fwd_retry_queue)
      BY <2>1, <2>4, ToSetConcat
    <2> QED BY <2>2, <2>3, <2>4, <2>5
  <1>4. p \in AllPrivs /\ p.kind # "stop"
    BY DEF Counted
  <1>5. CASE \E s \in Sessions : p \in Range(tx_queue[s])
    <2>1. PICK s \in Sessions : p \in Range(tx_queue[s])
      BY <1>5
    <2>2. PICK k \in DOMAIN tx_queue[s] : p = tx_queue[s][k]
      BY <2>1 DEF Range
    <2>3. p.ses = s
      BY <2>2 DEF ExitInv, ExitOrder, Own
    <2>4. tx_queue[s] # <<>>
      BY <2>2, SMTT(40)
    <2> QED BY <2>3, <2>4
  <1>6. CASE p \in Range(fwd_rx_queue) \cup Range(fwd_tx_queue)
    <2>1. p \in Priv
      <3>1. \A q \in Seq(Priv) : Range(q) \subseteq Priv
        BY SMTT(40) DEF Range
      <3> QED BY <1>1, <1>6, <3>1
    <2>2. Of(fwd_rx_queue, p.ses) \/ Of(fwd_tx_queue, p.ses)
      BY <1>4, <1>6 DEF Range, Of
    <2> QED BY <1>4, <2>1, <2>2 DEF Priv
  <1>7. CASE p \in Range(InHand(frx)) \cup Range(InHand(ftx))
    <2>1. \/ frx.pc = "busy" /\ p = frx.priv
          \/ ftx.pc = "busy" /\ p = ftx.priv
      BY <1>7, SMTT(40) DEF Range, InHand
    <2>2. p \in Priv
      BY <1>1, <2>1 DEF Threads
    <2> QED BY <1>4, <2>1, <2>2 DEF Hand, Priv
  <1>8. p \notin Range(fwd_retry_queue)
    BY <1>1, SMTT(40) DEF Range
  <1>9. \/ p \in UNION {Range(tx_queue[s]) : s \in Sessions}
        \/ p \in Range(InHand(frx) \o fwd_rx_queue \o InHand(ftx) \o fwd_tx_queue
                       \o fwd_retry_queue)
    BY <1>4 DEF AllPrivs
  <1>10. CASE p \in UNION {Range(tx_queue[s]) : s \in Sessions}
    <2>1. \E s \in Sessions : p \in Range(tx_queue[s])
      BY <1>10
    <2> QED BY <1>5, <2>1
  <1>11. CASE p \in Range(InHand(frx) \o fwd_rx_queue \o InHand(ftx)
                          \o fwd_tx_queue \o fwd_retry_queue)
    <2>1. \/ p \in Range(fwd_rx_queue) \cup Range(fwd_tx_queue)
          \/ p \in Range(InHand(frx)) \cup Range(InHand(ftx))
      BY <1>3, <1>8, <1>11
    <2> QED BY <1>6, <1>7, <2>1
  <1> QED BY <1>9, <1>10, <1>11

\* As long as no transfer on the remote connection fails, the main thread never
\* frees a session that a request on its way will be handed to.
THEOREM SessionsPinned == Spec /\ []NoFailure => []SessionPinned
  <1>1. ExitInv => SessionPinned
    <2> SUFFICES ASSUME ExitInv, NEW p \in Counted
                 PROVE  session[p.ses] # "freed"
      BY DEF SessionPinned
    <2>1. ExitOrder(p.ses)
      BY WherePrivsAre DEF ExitInv
    <2> QED BY <2>1, WherePrivsAre DEF ExitOrder, AllThrough, SentOn
  <1> QED BY <1>1, ExitInit, ExitStep, PTL DEF Spec

\* As long as no transfer on the remote connection fails, the assertion on
\* tx_queue in the cleanup of a session holds.
THEOREM QueuesDrained == Spec /\ []NoFailure => []TxQueueDrained
  <1>1. ExitInv => TxQueueDrained
    BY DEF TxQueueDrained, ExitInv, ExitOrder
  <1> QED BY <1>1, ExitInit, ExitStep, PTL DEF Spec

=============================================================================
