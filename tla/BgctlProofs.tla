---------------------------- MODULE BgctlProofs ----------------------------
(***************************************************************************)
(* xnbd-bgctl, for every size of the disk, the windows, the queue and the  *)
(* socket buffers, and whatever the other threads and processes do         *)
(* meanwhile: --switch leaves no block behind, and --cache-all and         *)
(* --cache-all2 miss no block and count each one once.                     *)
(***************************************************************************)
EXTENDS Bgctl, TLAPS

USE SMTT(40)

MainFields == {"pc", "index", "first", "after_last", "todo", "then"}
SwitchFields == {"pc", "index", "cached", "monitor"}

\* The scan of the first xnbd-bgctl stays within the disk, ...
MainInv ==
  /\ DOMAIN main = MainFields
  /\ main.index \in Nat /\ main.first \in Nat /\ main.after_last \in 0 .. nblocks

\* ... so the requests it sends are for blocks of the disk.
RequestInv ==
  /\ bm \in SUBSET Blocks
  /\ ctl_req \in Seq(SUBSET Blocks) /\ fwd \in Seq(SUBSET Blocks)

ScanInv == MainInv /\ RequestInv

\* The count of --switch: as long as no block was missing, all blocks below the
\* index are marked, and marks stay.  The signal is sent only after that.
CountInv ==
  /\ DOMAIN switch = SwitchFields
  /\ switch.index \in 0 .. nblocks /\ switch.cached \in 0 .. switch.index
  /\ switch.cached = switch.index => 0 .. switch.index - 1 \subseteq bm
  /\ switch.pc \in {"monitor", "kill"} \/ usr2 => force \/ Blocks \subseteq bm

\* The monitoring connection is closed by the end of the proxy only.
MonitorInv ==
  /\ switch.monitor = "closed" => proxy = "down"
  /\ switch.pc = "done" => proxy = "down"

SwitchInv == ScanInv /\ CountInv /\ MonitorInv

LEMMA SwitchInit == Init => SwitchInv
  BY DiskAssumption
     DEF Init, SwitchInv, ScanInv, CountInv, MonitorInv, MainInv, RequestInv, MainFields, SwitchFields, Blocks

\* A window ends within the disk.
LEMMA WindowInDisk ==
  ASSUME main.index \in Nat
  PROVE  AFTER_LAST_MAX \in Nat /\ AFTER_LAST_MAX <= nblocks
  BY DiskAssumption, SizesAssumption DEF AFTER_LAST_MAX, Least, WindowSize

LEMMA RequestKept ==
  ASSUME RequestInv, UNCHANGED <<bm, ctl_req, fwd>>
  PROVE  RequestInv'
  BY DEF RequestInv

LEMMA RequestSent ==
  ASSUME RequestInv, NEW blocks \in SUBSET Blocks, ctl_req' = Append(ctl_req, blocks),
         UNCHANGED <<bm, fwd>>
  PROVE  RequestInv'
  BY DEF RequestInv

\* The main thread and the receiver change nothing of --switch.
LEMMA MainSteps ==
  ASSUME MainInv, MainThread \/ RxThread \/ SpuriousWakeup
  PROVE  MainInv'
  <1> USE DEF At, Move, Err
  <1>1. ASSUME NEW step, main' = [main EXCEPT !.pc = step] PROVE MainInv'
    BY <1>1 DEF MainInv, MainFields
  <1>2. ASSUME NEW step, NEW i \in Nat, main' = [main EXCEPT !.pc = step, !.index = i]
        PROVE  MainInv'
    BY <1>2 DEF MainInv, MainFields
  <1>3. ASSUME NEW i \in Nat, main' = [main EXCEPT !.first = i] PROVE MainInv'
    BY <1>3 DEF MainInv, MainFields
  <1>4. CASE UNCHANGED main
    BY <1>4 DEF MainInv
  <1>5. ASSUME NEW step, NEW todo, NEW then,
               main' = [main EXCEPT !.pc = step, !.todo = todo, !.then = then]
        PROVE  MainInv'
    BY <1>5 DEF MainInv, MainFields
  <1>6. /\ main.index \in Nat /\ main.first + 1 \in Nat
        /\ main.index + blocks_at_once \in Nat /\ main.index + SHARED_NBLOCKS \in Nat
    BY SizesAssumption DEF MainInv
  <1>11. CASE Push
    <2>1. \/ \E step : main' = [main EXCEPT !.pc = step]
          \/ main' = [main EXCEPT !.todo = Tail(@)]
      BY <1>11 DEF Push
    <2>2. CASE main' = [main EXCEPT !.todo = Tail(@)]
      BY <2>2 DEF MainInv, MainFields
    <2> QED BY <1>1, <2>1, <2>2
  <1>12. CASE QueryStatus \/ SetupSharedBuffer \/ QueryFails \/ Join
    BY <1>12, <1>1 DEF QueryStatus, SetupSharedBuffer, QueryFails, Join, Connect
  <1>13. CASE StartRegisterFd
    <2>1. \/ main' = [main EXCEPT !.pc = "error"]
          \/ main' = [main EXCEPT !.pc = "window", !.index = 0]
      BY <1>13 DEF StartRegisterFd
    <2>2. 0 \in Nat
      OBVIOUS
    <2> QED BY <1>1, <1>2, <2>1, <2>2, Zenon
  <1>14. CASE Window
    <2>1. ASSUME NEW step, main' = [main EXCEPT !.first = main.index, !.pc = step]
          PROVE  MainInv'
      BY <2>1 DEF MainInv, MainFields
    <2>2. CASE main.index < nblocks
      BY <1>14, <2>1, <2>2, Zenon DEF Window
    <2>3. CASE ~(main.index < nblocks)
      <3>1. CASE cmd = "cache_all"
        <4>1. main' = [main EXCEPT !.pc = "push", !.todo = <<"eof">>, !.then = "join"]
          BY <1>14, <2>3, <3>1, Zenon DEF Window
        <4> QED BY <1>5, <4>1, Zenon
      <3>2. CASE cmd # "cache_all"
        <4>1. main' = [main EXCEPT !.pc = "disc"]
          BY <1>14, <2>3, <3>2, Zenon DEF Window
        <4> QED BY <1>1, <4>1, Zenon
      <3> QED BY <3>1, <3>2
    <2> QED BY <2>2, <2>3
  <1>15. CASE While
    <2>1. CASE main.first < AFTER_LAST_MAX
      <3>1. main' = [main EXCEPT !.pc = "uncached", !.after_last = main.first]
        BY <1>15, <2>1 DEF While
      <3>2. main.first \in 0 .. nblocks
        BY <2>1, <1>6, WindowInDisk, DiskAssumption DEF MainInv
      <3> QED BY <3>1, <3>2 DEF MainInv, MainFields
    <2>2. CASE ~(main.first < AFTER_LAST_MAX)
      <3>1. main' = [main EXCEPT !.pc = "window", !.index = main.index + blocks_at_once]
        BY <1>15, <2>2 DEF While
      <3> QED BY <1>2, <1>6, <3>1, Zenon
    <2> QED BY <2>1, <2>2
  <1>16. CASE ScanUncached
    <2>1. \/ \E step : main' = [main EXCEPT !.pc = step]
          \/ /\ main' = [main EXCEPT !.after_last = main.after_last + 1]
             /\ main.after_last < AFTER_LAST_MAX
      BY <1>16 DEF ScanUncached
    <2>2. ASSUME main' = [main EXCEPT !.after_last = main.after_last + 1],
                 main.after_last < AFTER_LAST_MAX
          PROVE  MainInv'
      <3>1. main.after_last + 1 \in 0 .. nblocks
        BY <2>2, <1>6, WindowInDisk, DiskAssumption DEF MainInv
      <3> QED BY <2>2, <3>1 DEF MainInv, MainFields
    <2> QED BY <1>1, <2>1, <2>2
  <1>17. CASE SendCache
    <2>1. ASSUME NEW todo, main' = [main EXCEPT !.pc = "push", !.then = "cached", !.todo = todo]
          PROVE  MainInv'
      BY <2>1 DEF MainInv, MainFields
    <2> QED BY <1>1, <1>17, <2>1, Zenon DEF SendCache
  <1>18. CASE ScanCached
    <2> DEFINE first == IF main.first < main.after_last THEN main.after_last ELSE main.first
    <2>1. \/ \E step : main' = [main EXCEPT !.pc = step]
          \/ main' = [main EXCEPT !.first = first + 1]
          \/ \E todo : main' = [main EXCEPT !.first = first, !.pc = "push",
                                  !.then = "while", !.todo = todo]
      BY <1>18, Zenon DEF ScanCached
    <2>2. first \in Nat /\ first + 1 \in Nat
      BY DiskAssumption DEF MainInv
    <2>3. ASSUME NEW todo, main' = [main EXCEPT !.first = first, !.pc = "push",
                                      !.then = "while", !.todo = todo]
          PROVE  MainInv'
      BY <2>2, <2>3 DEF MainInv, MainFields
    <2> QED BY <1>1, <1>3, <2>1, <2>2, <2>3, Zenon
  <1>19. CASE EndRegisterFd
    BY <1>1, <1>19 DEF EndRegisterFd
  <1>20. CASE AllCached
    <2>1. \/ \E step : main' = [main EXCEPT !.pc = step]
          \/ main' = [main EXCEPT !.first = main.first + 1]
          \/ main' = [main EXCEPT !.pc = "window", !.index = main.index + SHARED_NBLOCKS]
      BY <1>20 DEF AllCached
    <2> QED BY <1>1, <1>2, <1>3, <1>6, <2>1, Zenon
  <1>21. CASE CacheReply
    <2>1. \/ main' = [main EXCEPT !.pc = "error"]
          \/ main' = [main EXCEPT !.pc = "window", !.index = main.index + SHARED_NBLOCKS]
      BY <1>21 DEF CacheReply
    <2> QED BY <1>1, <1>2, <1>6, <2>1, Zenon
  <1>22. CASE Pop \/ RecvHeader \/ SpuriousWakeup
    BY <1>22, <1>1, <1>4 DEF Pop, RecvHeader, SpuriousWakeup
  <1> QED
    BY <1>11, <1>12, <1>13, <1>14, <1>15, <1>16, <1>17, <1>18, <1>19, <1>20, <1>21,
       <1>22 DEF MainThread, RxThread

LEMMA RequestSteps ==
  ASSUME ScanInv, MainThread \/ RxThread \/ SpuriousWakeup
  PROVE  RequestInv' /\ UNCHANGED <<bm, proxy, switch, usr2>>
  <1> USE DEF ScanInv, proxyVars, sockVars
  <1>1. CASE SendCache
    <2>1. main.first .. main.after_last - 1 \in SUBSET Blocks
      BY DiskAssumption DEF Blocks, MainInv
    <2> QED BY <1>1, <2>1, RequestKept, RequestSent, Zenon DEF SendCache
  <1>2. CASE AllCached
    <2>1. main.index .. AFTER_LAST_MAX - 1 \in SUBSET Blocks
      BY DiskAssumption, WindowInDisk DEF Blocks, MainInv
    <2> QED BY <1>2, <2>1, RequestKept, RequestSent, Zenon DEF AllCached
  <1>3. CASE EndRegisterFd
    <2>1. {} \in SUBSET Blocks
      OBVIOUS
    <2> QED BY <1>3, <2>1, RequestKept, RequestSent, Zenon DEF EndRegisterFd
  <1>4. CASE ~(SendCache \/ AllCached \/ EndRegisterFd)
    BY <1>4, RequestKept
       DEF MainThread, RxThread, Push, QueryStatus, QueryFails, StartRegisterFd, Window,
           While, ScanUncached, ScanCached, Join, SetupSharedBuffer, CacheReply, Pop,
           RecvHeader, SpuriousWakeup
  <1> QED BY <1>1, <1>2, <1>3, <1>4

LEMMA SwitchKept ==
  ASSUME CountInv, MonitorInv, UNCHANGED <<switch, usr2>>, bm \subseteq bm',
         proxy' = proxy \/ proxy # "down"
  PROVE  CountInv' /\ MonitorInv'
  BY DEF CountInv, MonitorInv, SwitchFields

LEMMA SwitchProxy ==
  ASSUME SwitchInv, ProxyProcess \/ MasterSwitches \/ OtherSession \/ ServerEnds
  PROVE  SwitchInv'
  <1> USE DEF SwitchInv
  <1>1. CASE ProxyAccept
    BY <1>1 DEF ProxyAccept, ScanInv, MainInv, RequestInv, At, CountInv, SwitchFields, MonitorInv
  <1>2. CASE ProxyExit
    BY <1>2 DEF ProxyExit, sockVars, cacheVars, ScanInv, MainInv, RequestInv, At, CountInv, SwitchFields,
                MonitorInv
  <1>3. CASE ProxyReceive
    <2>1. ScanInv'
      <3>1. ctl_req \in Seq(SUBSET Blocks) /\ ctl_req # <<>> /\ fwd \in Seq(SUBSET Blocks)
        BY <1>3 DEF ProxyReceive, ScanInv, RequestInv
      <3>2. Head(ctl_req) \in SUBSET Blocks /\ Tail(ctl_req) \in Seq(SUBSET Blocks)
        BY <3>1
      <3>3. Append(fwd, Head(ctl_req)) \in Seq(SUBSET Blocks)
        BY <3>1, <3>2
      <3>4. RequestInv'
        BY <1>3, <3>1, <3>2, <3>3 DEF ProxyReceive, ScanInv, RequestInv
      <3> QED BY <1>3, <3>4 DEF ProxyReceive, cacheVars, ScanInv, MainInv
    <2> QED BY <1>3, <2>1, SwitchKept DEF ProxyReceive
  <1>4. CASE ProxyMark
    <2>1. ScanInv'
      BY <1>4 DEF ProxyMark, proxyVars, sockVars, cacheVars, ScanInv, MainInv, RequestInv, At
    <2> QED BY <1>4, <2>1, SwitchKept DEF ProxyMark, proxyVars
  <1>5. CASE ProxyReply
    <2>1. ScanInv'
      BY <1>5 DEF ProxyReply, cacheVars, ScanInv, MainInv, RequestInv, At
    <2> QED BY <1>5, <2>1, SwitchKept DEF ProxyReply
  <1>6. CASE OtherSession
    <2>1. ScanInv'
      BY <1>6 DEF OtherSession, proxyVars, sockVars, cacheVars, ScanInv, MainInv, RequestInv, At
    <2> QED BY <1>6, <2>1, SwitchKept DEF OtherSession, proxyVars
  <1>7. CASE MasterSwitches \/ ServerEnds
    <2>1. ScanInv'
      BY <1>7 DEF MasterSwitches, ServerEnds, sockVars, cacheVars, ScanInv, MainInv, RequestInv, At
    <2> QED BY <1>7, <2>1, SwitchKept DEF MasterSwitches, ServerEnds
  <1> QED
    BY <1>1, <1>2, <1>3, <1>4, <1>5, <1>6, <1>7 DEF ProxyProcess

LEMMA SwitchSteps ==
  ASSUME SwitchInv, SwitchProcess \/ SwitchQuery
  PROVE  SwitchInv'
  <1> USE DEF SwitchInv, MonitorInv, CountInv, SwitchFields, SwitchErr
  <1>1. ScanInv'
    BY Zenon DEF SwitchProcess, SwitchQuery, SwitchQueryFails, Popcount,
           StartMonitorConnection, Kill, WaitForTargetMode,
           proxyVars, sockVars, cacheVars, ScanInv, MainInv, RequestInv, At
  <1>2. CASE SwitchQuery
    BY <1>1, <1>2 DEF SwitchQuery, proxyVars
  <1>3. CASE SwitchQueryFails
    BY <1>1, <1>3 DEF SwitchQueryFails, proxyVars
  <1>4. CASE Popcount
    BY <1>1, <1>4, DiskAssumption DEF Popcount, proxyVars, Blocks
  <1>5. CASE StartMonitorConnection
    <2>1. CASE proxy = "down"
      BY <1>1, <1>5, <2>1 DEF StartMonitorConnection, proxyVars
    <2>2. CASE proxy # "down"
      <3>1. switch' = [switch EXCEPT !.pc = "kill", !.monitor = "backlog"]
        BY <1>5, <2>2 DEF StartMonitorConnection
      <3>2. /\ DOMAIN switch' = SwitchFields
            /\ switch'.pc = "kill" /\ switch'.monitor = "backlog"
            /\ switch'.index = switch.index /\ switch'.cached = switch.cached
        BY <3>1 DEF SwitchFields
      <3> QED BY <1>1, <1>5, <3>2 DEF StartMonitorConnection, proxyVars
    <2> QED BY <2>1, <2>2
  <1>6. CASE Kill
    BY <1>1, <1>6 DEF Kill, proxyVars
  <1>7. CASE WaitForTargetMode
    BY <1>1, <1>7 DEF WaitForTargetMode, proxyVars
  <1> QED
    BY <1>2, <1>3, <1>4, <1>5, <1>6, <1>7, Zenon DEF SwitchProcess

LEMMA SwitchStep == SwitchInv /\ [Next]_vars => SwitchInv'
  <1> SUFFICES ASSUME SwitchInv, [Next]_vars PROVE SwitchInv'
    OBVIOUS
  <1>1. CASE MainThread \/ RxThread \/ SpuriousWakeup
    BY <1>1, MainSteps, RequestSteps, SwitchKept DEF SwitchInv, ScanInv
  <1>2. CASE UNCHANGED vars
    BY <1>2, SwitchKept
       DEF SwitchInv, ScanInv, MainInv, RequestInv, At, vars, proxyVars, sockVars, cacheVars
  <1> QED
    BY <1>1, <1>2, SwitchProxy, SwitchSteps DEF Next, Over

\* A switch that is not forced leaves no block on the remote server, however
\* the count of the blocks, their arrival and other sessions interleave.
THEOREM SwitchesComplete == Spec => []SwitchComplete
  <1>1. SwitchInv => SwitchComplete
    BY CommandsAssumption, Zenon DEF SwitchInv, ScanInv, RequestInv, CountInv, SwitchComplete
  <1> QED
    BY <1>1, SwitchInit, SwitchStep, PTL DEF Spec

\* --switch reports the end of the proxy only when the proxy has ended.
THEOREM SwitchesReturn == Spec => []SwitchReturns
  <1>1. SwitchInv => SwitchReturns
    BY DEF SwitchInv, MonitorInv, SwitchReturns
  <1> QED
    BY <1>1, SwitchInit, SwitchStep, PTL DEF Spec

-----------------------------------------------------------------------------
(* xnbd-bgctl --cache-all and --cache-all2                                 *)

Pushing(next) == main.pc \in {"push", "cond_push"} /\ main.then = next

\* The end of the blocks that the main thread is through with: they are marked or
\* asked for and, with --cache-all, the receiver has an item for each of them.
Reached ==
  IF main.pc \in {"query", "answer", "setup", "register", "error"} THEN 0
  ELSE IF main.pc = "window" THEN Least(main.index, nblocks)
  ELSE IF main.pc \in {"while", "uncached", "send"} \/ Pushing("while") THEN main.first
  ELSE IF main.pc = "cached" \/ Pushing("cached") THEN main.after_last
  ELSE IF main.pc = "all_cached" THEN main.index
  ELSE IF main.pc = "reply" THEN AFTER_LAST_MAX
  ELSE nblocks

\* Where the main thread can be, and how its indexes lie in the window.
LoopInv ==
  /\ main.pc \in {"push", "cond_push"} => main.then \in {"cached", "while", "join"}
  /\ main.then = "join" => main.pc \in {"push", "cond_push", "join", "disc", "ended", "done", "error"}
  /\ main.pc \in {"push", "cond_push", "while", "uncached", "send", "cached", "join"} =>
       cmd = "cache_all"
  /\ main.pc \in {"all_cached", "reply"} => cmd # "cache_all"
  /\ \/ main.pc \in {"while", "uncached", "send", "cached", "all_cached"}
     \/ Pushing("cached") \/ Pushing("while")
     => main.index <= main.first /\ main.first <= AFTER_LAST_MAX
  /\ main.pc \in {"uncached", "send"} \/ Pushing("cached") => main.first <= main.after_last
  /\ main.pc \in {"uncached", "send", "cached"} \/ Pushing("cached") =>
       main.after_last <= AFTER_LAST_MAX

\* DISC is the last request of the session, and the session ends after it.
SessionInv ==
  /\ \A i \in DOMAIN ctl_req :
       ctl_req[i] = {} => i = Len(ctl_req) /\ main.pc \in {"ended", "done", "error"}
  /\ session = "ended" =>
       ctl_req = <<>> /\ fwd = <<>> /\ main.pc \in {"ended", "done", "error"}

Covered(b) ==
  \/ b \in bm
  \/ \E i \in DOMAIN ctl_req : b \in ctl_req[i]
  \/ \E i \in DOMAIN fwd : b \in fwd[i]

\* No block that was passed is left out.
CoverInv ==
  /\ \A b \in 0 .. Reached - 1 : Covered(b)
  /\ main.pc = "cached" => main.after_last .. main.first - 1 \subseteq bm
  /\ main.pc = "all_cached" => main.index .. main.first - 1 \subseteq bm
  /\ main.pc = "done" => Blocks \subseteq bm

\* The end of the queue is pushed once, and last.
EofInv ==
  /\ main.todo \in Seq(Items) /\ q \in Seq(Items)
  /\ main.pc \notin {"push", "cond_push", "error"} => main.todo = <<>>
  /\ IF main.then = "join" THEN main.todo \in {<<>>, <<"eof">>}
     ELSE \A i \in DOMAIN main.todo : main.todo[i] # "eof"
  /\ \A i \in DOMAIN q : q[i] = "eof" => i = Len(q) /\ main.todo = <<>> /\ main.then = "join"
  /\ main.then = "join" /\ main.todo = <<>> /\ rx \notin {"done", "dead"} =>
       q # <<>> /\ q[Len(q)] = "eof"

\* The receiver.
ReceiverInv ==
  /\ cmd # "cache_all" => rx \in {"none", "dead"}
  /\ main.pc = "error" => rx = "dead"
  /\ main.pc \in {"query", "answer", "setup", "register"} => rx = "none"
  /\ rx = "done" => main.then = "join" /\ main.todo = <<>> /\ q = <<>>
  /\ main.pc \in {"disc", "ended", "done"} /\ cmd = "cache_all" => rx = "done"

\* The blocks counted, and the items that are on their way to be counted.
Tally ==
  progress.remote + progress.cache + (IF rx = "recv_header" THEN 1 ELSE 0)
    + Len(q) + Len(main.todo)

\* They make up the blocks passed, and the end of the queue.
TallyInv ==
  /\ DOMAIN progress = {"remote", "cache"} /\ progress.remote \in Nat /\ progress.cache \in Nat
  /\ progress.remote + progress.cache <= nblocks
  /\ cmd = "cache_all" /\ rx # "dead" =>
       Tally = Reached + (IF main.then = "join" /\ rx # "done" THEN 1 ELSE 0)

CacheInv ==
  ScanInv /\ LoopInv /\ SessionInv /\ CoverInv /\ EofInv /\ ReceiverInv /\ TallyInv

\* What the main thread is left with after a step.
Goes(pc, index, first, after_last, todo, then) ==
  /\ main'.pc = pc /\ main'.index = index /\ main'.first = first
  /\ main'.after_last = after_last /\ main'.todo = todo /\ main'.then = then

LEMMA CacheInit == Init => CacheInv
  <1> SUFFICES ASSUME Init PROVE CacheInv
    OBVIOUS
  <1> USE DEF Init
  <1>1. ScanInv
    BY SwitchInit DEF SwitchInv
  <1>2. LoopInv /\ ReceiverInv
    BY DEF LoopInv, ReceiverInv, Pushing
  <1>3. SessionInv
    BY DEF SessionInv
  <1>4. Reached = 0
    BY DEF Reached
  <1>5. CoverInv
    BY <1>4 DEF CoverInv
  <1>6. EofInv
    BY DEF EofInv
  <1>7. TallyInv
    BY <1>4, DiskAssumption DEF TallyInv, Tally
  <1> QED BY <1>1, <1>2, <1>3, <1>5, <1>6, <1>7 DEF CacheInv

\* A request that was received, marked or answered is still seen to.
LEMMA CoveredStays ==
  ASSUME NEW b, Covered(b), UNCHANGED <<ctl_req, fwd>>, bm \subseteq bm'
  PROVE  Covered(b)'
  BY DEF Covered

LEMMA CoveredSent ==
  ASSUME RequestInv, NEW blocks, ctl_req' = Append(ctl_req, blocks), UNCHANGED <<bm, fwd>>
  PROVE  /\ \A b : Covered(b) => Covered(b)'
         /\ \A b \in blocks : Covered(b)'
  <1>1. /\ DOMAIN ctl_req \subseteq DOMAIN ctl_req' /\ \A i \in DOMAIN ctl_req : ctl_req'[i] = ctl_req[i]
        /\ Len(ctl_req) + 1 \in DOMAIN ctl_req' /\ ctl_req'[Len(ctl_req) + 1] = blocks
    BY DEF RequestInv
  <1> QED BY <1>1, Zenon DEF Covered

\* What the main thread needs of the position it has reached.
LEMMA ReachedInDisk ==
  ASSUME MainInv, LoopInv
  PROVE  Reached \in 0 .. nblocks
  BY DiskAssumption, WindowInDisk DEF MainInv, LoopInv, Reached, Least, Pushing

\* err() ends the process, and nothing it was promised to do remains.
LEMMA CacheErr ==
  ASSUME CacheInv, Err, UNCHANGED <<bm, ctl_req, fwd, session, cmd, q, progress>>
  PROVE  LoopInv' /\ SessionInv' /\ CoverInv' /\ EofInv' /\ ReceiverInv' /\ TallyInv'
  <1> USE DEF CacheInv
  <1>1. Goes("error", main.index, main.first, main.after_last, main.todo, main.then) /\ rx' = "dead"
    BY Zenon DEF Err, Goes, ScanInv, MainInv, MainFields
  <1>2. LoopInv' /\ ReceiverInv'
    BY <1>1 DEF Goes, LoopInv, ReceiverInv, Pushing
  <1>3. SessionInv'
    BY <1>1 DEF Goes, SessionInv
  <1>4. CoverInv'
    BY <1>1 DEF Goes, CoverInv, Reached
  <1>5. EofInv' /\ TallyInv'
    BY <1>1 DEF Goes, EofInv, TallyInv
  <1> QED BY <1>2, <1>3, <1>4, <1>5

Steady == UNCHANGED <<bm, ctl_req, fwd, session, cmd, rx, q, progress>>

\* A step of the main thread that only looks around.
LEMMA CacheQuiet ==
  ASSUME CacheInv, Steady, Reached' = Reached, LoopInv',
         main'.todo = main.todo, main'.then = main.then,
         main.pc \notin {"ended", "done", "error"}, main'.pc \notin {"done", "error"},
         main'.pc \notin {"push", "cond_push"} => main.todo = <<>>,
         main'.pc \in {"disc", "ended"} /\ cmd = "cache_all" => rx = "done",
         main'.pc \in {"query", "answer", "setup", "register"} => rx = "none",
         main'.pc = "cached" => main'.after_last .. main'.first - 1 \subseteq bm,
         main'.pc = "all_cached" => main'.index .. main'.first - 1 \subseteq bm
  PROVE  LoopInv' /\ SessionInv' /\ CoverInv' /\ EofInv' /\ ReceiverInv' /\ TallyInv'
  <1> USE DEF CacheInv, Steady
  <1>1. SessionInv'
    BY DEF SessionInv
  <1>2. CoverInv'
    <2>1. \A b : Covered(b) => Covered(b)'
      BY CoveredStays, Zenon
    <2> QED BY <2>1 DEF CoverInv
  <1>3. EofInv'
    BY DEF EofInv
  <1>4. ReceiverInv'
    BY Zenon DEF ReceiverInv
  <1>5. TallyInv'
    BY Zenon DEF TallyInv, Tally
  <1> QED BY <1>1, <1>2, <1>3, <1>4, <1>5

\* The steps before and after the loop.
LEMMA CacheStart ==
  ASSUME CacheInv, QueryStatus \/ SetupSharedBuffer \/ QueryFails \/ Join
  PROVE  LoopInv' /\ SessionInv' /\ CoverInv' /\ EofInv' /\ ReceiverInv' /\ TallyInv'
  <1> USE DEF QueryStatus, SetupSharedBuffer, QueryFails, Join, Connect, proxyVars, sockVars
  <1>1. CASE Err
    <2>1. UNCHANGED <<bm, ctl_req, fwd, session, cmd, q, progress>>
      OBVIOUS
    <2> QED BY <1>1, <2>1, CacheErr, Zenon
  <1>2. CASE ~Err
    <2>1. PICK step : /\ main' = [main EXCEPT !.pc = step]
                      /\ \/ step \in {"answer", "register"} /\ main.pc \in {"query", "setup"}
                         \/ step = "disc" /\ main.pc = "join" /\ rx = "done"
      BY <1>2, Zenon DEF At, Move
    <2>2. Goes(step, main.index, main.first, main.after_last, main.todo, main.then)
      BY <2>1, Zenon DEF Goes, CacheInv, ScanInv, MainInv, MainFields
    <2>3. Steady
      BY <1>2, Zenon DEF Steady
    <2>4. LoopInv'
      BY <2>1, <2>2 DEF Goes, CacheInv, LoopInv, Pushing
    <2>5. Reached' = Reached
      BY <2>1, <2>2 DEF Goes, Reached, Pushing
    <2>6. main.todo = <<>> /\ (step # "disc" => rx = "none")
      BY <2>1 DEF CacheInv, EofInv, ReceiverInv
    <2> QED BY <2>1, <2>2, <2>3, <2>4, <2>5, <2>6, CacheQuiet DEF Goes
  <1> QED BY <1>1, <1>2, Zenon

LEMMA CacheRegister ==
  ASSUME CacheInv, StartRegisterFd
  PROVE  LoopInv' /\ SessionInv' /\ CoverInv' /\ EofInv' /\ ReceiverInv' /\ TallyInv'
  <1> USE DEF proxyVars
  <1>0. UNCHANGED <<bm, ctl_req, fwd, session, cmd, q, progress>>
    BY DEF StartRegisterFd
  <1>1. CASE proxy = "down"
    BY <1>0, <1>1, CacheErr DEF StartRegisterFd
  <1>2. CASE proxy # "down"
    <2>0. main' = [main EXCEPT !.pc = "window", !.index = 0]
      BY <1>2 DEF StartRegisterFd
    <2>1. Goes("window", 0, main.first, main.after_last, main.todo, main.then)
      BY <2>0 DEF Goes, CacheInv, ScanInv, MainInv, MainFields
    <2>2. /\ main.pc = "register" /\ main.todo = <<>> /\ rx = "none" /\ main.then # "join"
          /\ rx' = IF cmd = "cache_all" THEN "pop" ELSE rx
      BY <1>2, Zenon DEF StartRegisterFd, At, CacheInv, EofInv, ReceiverInv, LoopInv
    <2>3. Reached = 0 /\ Reached' = 0
      BY <2>1, <2>2, DiskAssumption DEF Goes, Reached, Least, Pushing
    <2>4. LoopInv' /\ ReceiverInv'
      BY <1>0, <2>1, <2>2, Zenon DEF Goes, CacheInv, LoopInv, ReceiverInv, Pushing
    <2>5. SessionInv' /\ CoverInv'
      BY <1>0, <2>1, <2>2, <2>3 DEF Goes, CacheInv, SessionInv, CoverInv
    <2>6. EofInv' /\ TallyInv'
      BY <1>0, <2>1, <2>2, <2>3 DEF Goes, CacheInv, EofInv, TallyInv, Tally
    <2> QED BY <2>4, <2>5, <2>6
  <1> QED BY <1>1, <1>2

\* The loop over the windows, and the one over the runs of a window.
LEMMA CacheWindow ==
  ASSUME CacheInv, Window
  PROVE  LoopInv' /\ SessionInv' /\ CoverInv' /\ EofInv' /\ ReceiverInv' /\ TallyInv'
  <1> USE DEF proxyVars, sockVars
  <1>0. Steady /\ main.pc = "window" /\ main.todo = <<>> /\ main.then # "join" /\ rx # "done"
    BY DEF Window, At, Steady, CacheInv, EofInv, LoopInv, ReceiverInv
  <1>a. main.index \in Nat /\ AFTER_LAST_MAX \in Nat
    BY WindowInDisk DEF CacheInv, ScanInv, MainInv
  <1>1. CASE main.index < nblocks
    <2>1. PICK step : /\ step = IF cmd = "cache_all" THEN "while" ELSE "all_cached"
                      /\ main' = [main EXCEPT !.first = main.index, !.pc = step]
      BY <1>1, Zenon DEF Window
    <2>2. Goes(step, main.index, main.index, main.after_last, main.todo, main.then)
      BY <2>1 DEF Goes, CacheInv, ScanInv, MainInv, MainFields
    <2>3. Reached' = Reached
      BY <1>0, <1>1, <1>a, <2>1, <2>2 DEF Goes, Reached, Pushing, Least
    <2>4. AFTER_LAST_MAX' = AFTER_LAST_MAX /\ main.index <= AFTER_LAST_MAX
      BY <1>0, <1>1, <1>a, <2>2, DiskAssumption, SizesAssumption
         DEF Goes, AFTER_LAST_MAX, WindowSize, Least, Steady
    <2>5. LoopInv'
      BY <1>0, <1>a, <2>1, <2>2, <2>4 DEF Goes, LoopInv, Pushing, Steady
    <2>6. main'.index .. main'.first - 1 = {}
      BY <1>a, <2>2 DEF Goes
    <2> QED BY <1>0, <2>1, <2>2, <2>3, <2>5, <2>6, CacheQuiet DEF Goes
  <1>2. CASE ~(main.index < nblocks) /\ cmd # "cache_all"
    <2>1. main' = [main EXCEPT !.pc = "disc"]
      BY <1>2, Zenon DEF Window
    <2>2. Goes("disc", main.index, main.first, main.after_last, main.todo, main.then)
      BY <2>1, Zenon DEF Goes, CacheInv, ScanInv, MainInv, MainFields
    <2>3. Reached' = Reached
      BY <1>0, <1>2, <1>a, <2>2, DiskAssumption DEF Goes, Reached, Pushing, Least
    <2>4. LoopInv'
      BY <1>0, <2>2 DEF Goes, LoopInv, Pushing
    <2> QED BY <1>0, <1>2, <2>2, <2>3, <2>4, CacheQuiet DEF Goes
  <1>3. CASE ~(main.index < nblocks) /\ cmd = "cache_all"
    <2>1. main' = [main EXCEPT !.pc = "push", !.todo = <<"eof">>, !.then = "join"]
      BY <1>3, Zenon DEF Window
    <2>2. Goes("push", main.index, main.first, main.after_last, <<"eof">>, "join")
      BY <2>1, Zenon DEF Goes, CacheInv, ScanInv, MainInv, MainFields
    <2>3. Reached = nblocks /\ Reached' = nblocks
      BY <1>0, <1>3, <1>a, <2>2, DiskAssumption, Zenon DEF Goes, Reached, Pushing, Least
    <2>4. LoopInv' /\ ReceiverInv'
      BY <1>0, <1>3, <2>2 DEF Goes, LoopInv, ReceiverInv, Pushing, CacheInv, Steady
    <2>5. SessionInv'
      BY <1>0, <2>2 DEF Goes, CacheInv, SessionInv, Steady
    <2>6. CoverInv'
      <3>1. \A b : Covered(b) => Covered(b)'
        BY <1>0, CoveredStays, Zenon DEF Steady
      <3> QED BY <2>2, <2>3, <3>1, Zenon DEF Goes, CacheInv, CoverInv
    <2>7. EofInv'
      <3>1. <<"eof">> \in Seq(Items) /\ <<"eof">> # <<>>
        BY DEF Items
      <3> QED BY <1>0, <2>2, <3>1 DEF Goes, CacheInv, EofInv, Steady
    <2>8. TallyInv'
      <3>1. Len(<<"eof">>) = 1 /\ Len(<<>>) = 0
        OBVIOUS
      <3>2. Len(q) \in Nat
        BY DEF CacheInv, EofInv
      <3> QED BY <1>0, <1>3, <2>2, <2>3, <3>1, <3>2, DiskAssumption
              DEF Goes, CacheInv, TallyInv, Tally, Steady
    <2> QED BY <2>4, <2>5, <2>6, <2>7, <2>8
  <1> QED BY <1>1, <1>2, <1>3

LEMMA CacheWhile ==
  ASSUME CacheInv, While
  PROVE  LoopInv' /\ SessionInv' /\ CoverInv' /\ EofInv' /\ ReceiverInv' /\ TallyInv'
  <1> USE DEF proxyVars, sockVars
  <1>0. Steady /\ main.pc = "while" /\ main.todo = <<>> /\ main.then # "join" /\ cmd = "cache_all"
    BY Zenon DEF While, At, Steady, CacheInv, EofInv, LoopInv
  <1>a. /\ main.index \in Nat /\ main.first \in Nat /\ AFTER_LAST_MAX \in Nat
        /\ main.index <= main.first /\ main.first <= AFTER_LAST_MAX
    BY <1>0, WindowInDisk, Zenon DEF CacheInv, ScanInv, MainInv, LoopInv
  <1>1. CASE main.first < AFTER_LAST_MAX
    <2>1. main' = [main EXCEPT !.pc = "uncached", !.after_last = main.first]
      BY <1>1, Zenon DEF While
    <2>2. Goes("uncached", main.index, main.first, main.first, main.todo, main.then)
      BY <2>1, Zenon DEF Goes, CacheInv, ScanInv, MainInv, MainFields
    <2>3. Reached' = Reached
      BY <1>0, <2>2, Zenon DEF Goes, Reached, Pushing
    <2>4. AFTER_LAST_MAX' = AFTER_LAST_MAX
      BY <1>0, <2>2, Zenon DEF Goes, AFTER_LAST_MAX, WindowSize, Steady
    <2>5. LoopInv'
      BY <1>0, <1>a, <2>2, <2>4 DEF Goes, LoopInv, Pushing, Steady
    <2> QED BY <1>0, <2>2, <2>3, <2>5, CacheQuiet DEF Goes
  <1>2. CASE ~(main.first < AFTER_LAST_MAX)
    <2>1. main' = [main EXCEPT !.pc = "window", !.index = main.index + blocks_at_once]
      BY <1>2 DEF While
    <2>2. Goes("window", main.index + blocks_at_once, main.first, main.after_last, main.todo, main.then)
      BY <2>1, Zenon DEF Goes, CacheInv, ScanInv, MainInv, MainFields
    <2>3. Reached' = Reached
      BY <1>0, <1>2, <1>a, <2>2 DEF Goes, Reached, Pushing, AFTER_LAST_MAX, WindowSize
    <2>4. LoopInv'
      BY <1>0, <2>2 DEF Goes, LoopInv, Pushing
    <2> QED BY <1>0, <2>2, <2>3, <2>4, CacheQuiet DEF Goes
  <1> QED BY <1>1, <1>2

LEMMA CacheUncached ==
  ASSUME CacheInv, ScanUncached
  PROVE  LoopInv' /\ SessionInv' /\ CoverInv' /\ EofInv' /\ ReceiverInv' /\ TallyInv'
  <1> USE DEF proxyVars, sockVars
  <1>0. /\ UNCHANGED <<bm, ctl_req, fwd, session, cmd, q, progress>>
        /\ main.pc = "uncached" /\ main.todo = <<>> /\ main.then # "join" /\ cmd = "cache_all"
    BY Zenon DEF ScanUncached, At, CacheInv, EofInv, LoopInv
  <1>a. /\ main.index \in Nat /\ main.first \in Nat /\ AFTER_LAST_MAX \in Nat /\ main.after_last \in Nat
        /\ main.index <= main.first /\ main.first <= main.after_last /\ main.after_last <= AFTER_LAST_MAX
    BY <1>0, WindowInDisk, DiskAssumption DEF CacheInv, ScanInv, MainInv, LoopInv
  <1>1. CASE Faults(main.after_last)
    BY <1>0, <1>1, CacheErr, Zenon DEF ScanUncached
  <1>2. CASE ~Faults(main.after_last)
    <2>1. PICK step, n : /\ Goes(step, main.index, main.first, n, main.todo, main.then)
                         /\ step \in {"uncached", "send"} /\ n \in Nat
                         /\ main.after_last <= n /\ n <= AFTER_LAST_MAX
      <3>1. CASE main.after_last \notin bm /\ main.after_last < AFTER_LAST_MAX
        <4>1. main' = [main EXCEPT !.after_last = main.after_last + 1]
          BY <1>2, <3>1 DEF ScanUncached
        <4>2. Goes("uncached", main.index, main.first, main.after_last + 1, main.todo, main.then)
          BY <1>0, <4>1 DEF Goes, CacheInv, ScanInv, MainInv, MainFields
        <4>3. /\ main.after_last + 1 \in Nat /\ main.after_last <= main.after_last + 1
              /\ main.after_last + 1 <= AFTER_LAST_MAX
          BY <1>a, <3>1
        <4> QED BY <4>2, <4>3
      <3>2. CASE ~(main.after_last \notin bm /\ main.after_last < AFTER_LAST_MAX)
        <4>1. main' = [main EXCEPT !.pc = "send"]
          BY <1>2, <3>2, Zenon DEF ScanUncached
        <4>2. Goes("send", main.index, main.first, main.after_last, main.todo, main.then)
          BY <4>1 DEF Goes, CacheInv, ScanInv, MainInv, MainFields
        <4> QED BY <1>a, <4>2
      <3> QED BY <3>1, <3>2
    <2>2. Steady
      BY <1>0, <1>2, Zenon DEF Steady, ScanUncached
    <2>3. Reached' = Reached
      BY <1>0, <2>1, Zenon DEF Goes, Reached, Pushing
    <2>4. AFTER_LAST_MAX' = AFTER_LAST_MAX
      BY <1>0, <2>1, Zenon DEF Goes, AFTER_LAST_MAX, WindowSize
    <2>5. LoopInv'
      BY <1>0, <1>a, <2>1, <2>4 DEF Goes, LoopInv, Pushing
    <2> QED BY <1>0, <2>1, <2>2, <2>3, <2>5, CacheQuiet DEF Goes
  <1> QED BY <1>1, <1>2

\* The shapes of a queue after a push and after a pop.
LEMMA Pushed ==
  ASSUME NEW S, NEW s \in Seq(S), NEW x \in S, NEW t, t = Append(s, x)
  PROVE  /\ t \in Seq(S) /\ Len(t) = Len(s) + 1 /\ t # <<>> /\ t[Len(s) + 1] = x
         /\ DOMAIN s = 1 .. Len(s) /\ DOMAIN t = 1 .. Len(s) + 1 /\ Len(s) \in Nat
         /\ \A i \in 1 .. Len(s) : t[i] = s[i]
  OBVIOUS

LEMMA Popped ==
  ASSUME NEW S, NEW s \in Seq(S), s # <<>>, NEW t, t = Tail(s)
  PROVE  /\ t \in Seq(S) /\ Len(t) = Len(s) - 1 /\ Head(s) = s[1] /\ Head(s) \in S
         /\ DOMAIN s = 1 .. Len(s) /\ DOMAIN t = 1 .. Len(s) - 1 /\ Len(s) \in Nat \ {0}
         /\ \A i \in 1 .. Len(s) - 1 : t[i] = s[i + 1]
         /\ (t = <<>> <=> Len(s) = 1)
  <1>1. t \in Seq(S) /\ Len(t) = Len(s) - 1 /\ Len(s) \in Nat \ {0}
    OBVIOUS
  <1>2. Head(s) = s[1] /\ Head(s) \in S
    BY <1>1
  <1>3. DOMAIN s = 1 .. Len(s) /\ DOMAIN t = 1 .. Len(s) - 1
    BY <1>1
  <1>4. \A i \in 1 .. Len(s) - 1 : t[i] = s[i + 1]
    OBVIOUS
  <1>5. t = <<>> <=> Len(s) = 1
    BY <1>1
  <1> QED BY <1>1, <1>2, <1>3, <1>4, <1>5, Zenon

\* A request for blocks is not the last one of the session.
LEMMA SessionSent ==
  ASSUME ScanInv, SessionInv, main.pc \notin {"ended", "done", "error"},
         NEW blocks \in SUBSET Blocks, blocks # {}, ctl_req' = Append(ctl_req, blocks),
         UNCHANGED <<session, fwd>>
  PROVE  SessionInv'
  <1>1. \A i \in DOMAIN ctl_req : ctl_req[i] # {}
    BY DEF SessionInv
  <1>2. /\ DOMAIN ctl_req = 1 .. Len(ctl_req) /\ DOMAIN ctl_req' = 1 .. Len(ctl_req) + 1
        /\ Len(ctl_req) \in Nat /\ ctl_req'[Len(ctl_req) + 1] = blocks
        /\ \A i \in 1 .. Len(ctl_req) : ctl_req'[i] = ctl_req[i]
    BY Pushed DEF ScanInv, RequestInv
  <1>3. ASSUME NEW i \in 1 .. Len(ctl_req) + 1, ctl_req'[i] = {} PROVE FALSE
    BY <1>1, <1>2, <1>3
  <1> QED BY <1>2, <1>3 DEF SessionInv

LEMMA CacheSend ==
  ASSUME CacheInv, SendCache
  PROVE  LoopInv' /\ SessionInv' /\ CoverInv' /\ EofInv' /\ ReceiverInv' /\ TallyInv'
  <1> USE DEF proxyVars, sockVars
  <1>0. /\ UNCHANGED <<bm, fwd, session, cmd, q, progress>>
        /\ main.pc = "send" /\ main.todo = <<>> /\ main.then # "join" /\ cmd = "cache_all" /\ rx # "done"
    BY DEF SendCache, At, CacheInv, EofInv, LoopInv, ReceiverInv
  <1>a. /\ main.index \in Nat /\ main.first \in Nat /\ AFTER_LAST_MAX \in Nat /\ main.after_last \in Nat
        /\ main.index <= main.first /\ main.first <= main.after_last /\ main.after_last <= AFTER_LAST_MAX
        /\ AFTER_LAST_MAX <= nblocks
    BY <1>0, WindowInDisk, DiskAssumption DEF CacheInv, ScanInv, MainInv, LoopInv
  <1>1. CASE main.after_last = main.first
    <2>1. main' = [main EXCEPT !.pc = "cached"] /\ Steady
      BY <1>0, <1>1 DEF SendCache, Move, Steady
    <2>2. Goes("cached", main.index, main.first, main.after_last, main.todo, main.then)
      BY <2>1, Zenon DEF Goes, CacheInv, ScanInv, MainInv, MainFields
    <2>3. Reached' = Reached /\ main'.after_last .. main'.first - 1 = {}
      BY <1>0, <1>1, <1>a, <2>2 DEF Goes, Reached, Pushing
    <2>4. AFTER_LAST_MAX' = AFTER_LAST_MAX
      BY <1>0, <2>2, Zenon DEF Goes, AFTER_LAST_MAX, WindowSize
    <2>5. LoopInv'
      BY <1>0, <1>a, <1>1, <2>2, <2>4 DEF Goes, LoopInv, Pushing
    <2> QED BY <1>0, <2>1, <2>2, <2>3, <2>5, CacheQuiet DEF Goes
  <1>2. CASE main.after_last # main.first /\ proxy = "down"
    BY <1>0, <1>2, CacheErr DEF SendCache
  <1>3. CASE main.after_last # main.first /\ proxy # "down"
    <2> DEFINE n == main.after_last - main.first
    <2>0. n \in Nat \ {0}
      BY <1>a, <1>3
    <2>1. PICK todo, blocks :
            /\ todo = [k \in 1 .. n |-> IF k = 1 THEN "remote_first" ELSE "remote_later"]
            /\ blocks = main.first .. main.after_last - 1
            /\ ctl_req' = Append(ctl_req, blocks) /\ UNCHANGED rx
            /\ main' = [main EXCEPT !.pc = "push", !.then = "cached", !.todo = todo]
      BY <1>3, Zenon DEF SendCache
    <2>2. Goes("push", main.index, main.first, main.after_last, todo, "cached")
      BY <2>1 DEF Goes, CacheInv, ScanInv, MainInv, MainFields
    <2>3. /\ todo \in Seq(Items) /\ Len(todo) = n /\ DOMAIN todo = 1 .. n
          /\ \A i \in DOMAIN todo : todo[i] # "eof"
      BY <2>0, <2>1 DEF Items
    <2>4. blocks \in SUBSET Blocks /\ blocks # {}
      BY <1>a, <1>3, <2>1, DiskAssumption DEF Blocks
    <2>5. Reached = main.first /\ Reached' = main.after_last
      BY <1>0, <2>2, Zenon DEF Goes, Reached, Pushing
    <2>6. AFTER_LAST_MAX' = AFTER_LAST_MAX
      BY <1>0, <2>2, Zenon DEF Goes, AFTER_LAST_MAX, WindowSize
    <2>7. LoopInv' /\ ReceiverInv'
      BY <1>0, <1>a, <2>1, <2>2, <2>6 DEF Goes, LoopInv, Pushing, ReceiverInv, CacheInv
    <2>8. SessionInv'
      <3>1. main.pc \notin {"ended", "done", "error"} /\ UNCHANGED <<session, fwd>>
        BY <1>0
      <3> QED BY <2>1, <2>4, <3>1, SessionSent, Zenon DEF CacheInv
    <2>9. CoverInv'
      <3>1. (\A b : Covered(b) => Covered(b)') /\ \A b \in blocks : Covered(b)'
        BY <1>0, <2>1, CoveredSent, Zenon DEF CacheInv, ScanInv
      <3>2. \A b \in 0 .. main.after_last - 1 : b \in 0 .. main.first - 1 \/ b \in blocks
        BY <1>a, <2>1
      <3> QED BY <2>2, <2>5, <3>1, <3>2 DEF Goes, CacheInv, CoverInv
    <2>10. EofInv'
      BY <1>0, <2>1, <2>2, <2>3 DEF Goes, CacheInv, EofInv
    <2>11. TallyInv'
      <3>1. Len(q) \in Nat /\ Len(main.todo) = 0
        BY <1>0 DEF CacheInv, EofInv
      <3> QED BY <1>0, <1>a, <2>1, <2>2, <2>3, <2>5, <3>1 DEF Goes, CacheInv, TallyInv, Tally
    <2> QED BY <2>7, <2>8, <2>9, <2>10, <2>11
  <1> QED BY <1>1, <1>2, <1>3

LEMMA CacheCached ==
  ASSUME CacheInv, ScanCached
  PROVE  LoopInv' /\ SessionInv' /\ CoverInv' /\ EofInv' /\ ReceiverInv' /\ TallyInv'
  <1> USE DEF proxyVars, sockVars
  <1>0. /\ UNCHANGED <<bm, ctl_req, fwd, session, cmd, q, progress>>
        /\ main.pc = "cached" /\ main.todo = <<>> /\ main.then # "join" /\ cmd = "cache_all" /\ rx # "done"
    BY DEF ScanCached, At, CacheInv, EofInv, LoopInv, ReceiverInv
  <1>a. /\ main.index \in Nat /\ main.first \in Nat /\ AFTER_LAST_MAX \in Nat /\ main.after_last \in Nat
        /\ main.index <= main.first /\ main.first <= AFTER_LAST_MAX
        /\ main.after_last <= AFTER_LAST_MAX /\ AFTER_LAST_MAX <= nblocks
        /\ main.after_last .. main.first - 1 \subseteq bm
    BY <1>0, WindowInDisk, DiskAssumption DEF CacheInv, ScanInv, MainInv, LoopInv, CoverInv
  <1>b. PICK first : first = IF main.first < main.after_last THEN main.after_last ELSE main.first
    OBVIOUS
  <1>c. /\ first \in Nat /\ main.index <= first /\ first <= AFTER_LAST_MAX
        /\ main.after_last <= first /\ main.after_last .. first - 1 \subseteq bm
    BY <1>a, <1>b
  <1>1. CASE Faults(first)
    BY <1>0, <1>b, <1>1, CacheErr DEF ScanCached
  <1>2. CASE ~Faults(first) /\ first \in bm /\ first < AFTER_LAST_MAX
    <2>1. main' = [main EXCEPT !.first = first + 1] /\ Steady
      BY <1>0, <1>b, <1>2, Zenon DEF ScanCached, Steady
    <2>2. Goes("cached", main.index, first + 1, main.after_last, main.todo, main.then)
      BY <1>0, <2>1 DEF Goes, CacheInv, ScanInv, MainInv, MainFields
    <2>3. Reached' = Reached /\ main'.after_last .. main'.first - 1 \subseteq bm
      BY <1>0, <1>2, <1>c, <1>a, <2>2 DEF Goes, Reached, Pushing
    <2>4. AFTER_LAST_MAX' = AFTER_LAST_MAX
      BY <1>0, <2>2, Zenon DEF Goes, AFTER_LAST_MAX, WindowSize
    <2>5. LoopInv'
      BY <1>0, <1>a, <1>c, <1>2, <2>2, <2>4 DEF Goes, LoopInv, Pushing
    <2> QED BY <1>0, <2>1, <2>2, <2>3, <2>5, CacheQuiet DEF Goes
  <1>3. CASE ~Faults(first) /\ ~(first \in bm /\ first < AFTER_LAST_MAX)
    <2> DEFINE n == first - main.after_last
    <2>0. n \in Nat
      BY <1>a, <1>c
    <2>1. PICK todo : /\ todo = [k \in 1 .. n |-> "cached"] /\ UNCHANGED rx
                      /\ main' = [main EXCEPT !.first = first, !.pc = "push", !.then = "while", !.todo = todo]
      BY <1>b, <1>3, Zenon DEF ScanCached
    <2>2. Goes("push", main.index, first, main.after_last, todo, "while")
      BY <2>1 DEF Goes, CacheInv, ScanInv, MainInv, MainFields
    <2>3. /\ todo \in Seq(Items) /\ Len(todo) = n /\ DOMAIN todo = 1 .. n
          /\ \A i \in DOMAIN todo : todo[i] # "eof"
      BY <2>0, <2>1 DEF Items
    <2>5. Reached = main.after_last /\ Reached' = first
      BY <1>0, <2>2, Zenon DEF Goes, Reached, Pushing
    <2>6. AFTER_LAST_MAX' = AFTER_LAST_MAX
      BY <1>0, <2>2 DEF Goes, AFTER_LAST_MAX, WindowSize
    <2>7. LoopInv' /\ ReceiverInv'
      BY <1>0, <1>a, <1>c, <2>1, <2>2, <2>6 DEF Goes, LoopInv, Pushing, ReceiverInv, CacheInv
    <2>8. SessionInv'
      BY <1>0, <2>2, Zenon DEF Goes, CacheInv, SessionInv
    <2>9. CoverInv'
      <3>1. \A b : (Covered(b) => Covered(b)') /\ (b \in bm => Covered(b)')
        BY <1>0 DEF Covered
      <3>2. \A b \in 0 .. first - 1 : b \in 0 .. main.after_last - 1 \/ b \in bm
        BY <1>a, <1>c
      <3> QED BY <2>2, <2>5, <3>1, <3>2, Zenon DEF Goes, CacheInv, CoverInv
    <2>10. EofInv'
      BY <1>0, <2>1, <2>2, <2>3 DEF Goes, CacheInv, EofInv
    <2>11. TallyInv'
      <3>1. Len(q) \in Nat /\ Len(main.todo) = 0
        BY <1>0 DEF CacheInv, EofInv
      <3> QED BY <1>0, <1>a, <1>c, <2>1, <2>2, <2>3, <2>5, <3>1 DEF Goes, CacheInv, TallyInv, Tally
    <2> QED BY <2>7, <2>8, <2>9, <2>10, <2>11
  <1> QED BY <1>1, <1>2, <1>3

\* The queue: an item is pushed, ...
LEMMA CachePush ==
  ASSUME CacheInv, Push
  PROVE  LoopInv' /\ SessionInv' /\ CoverInv' /\ EofInv' /\ ReceiverInv' /\ TallyInv'
  <1> USE DEF proxyVars, sockVars
  <1>0. /\ UNCHANGED <<bm, ctl_req, fwd, session, cmd, progress>>
        /\ main.pc = "push" /\ main.then \in {"cached", "while", "join"} /\ cmd = "cache_all"
    BY DEF Push, At, CacheInv, LoopInv
  <1>1. CASE main.todo = <<>> \/ ~(Len(q) < max_size)
    <2>1. PICK step : /\ main' = [main EXCEPT !.pc = step] /\ UNCHANGED <<q, rx>>
                      /\ (step = main.then /\ main.todo = <<>>) \/ step = "cond_push"
      BY <1>1, Zenon DEF Push, Move
    <2>2. Goes(step, main.index, main.first, main.after_last, main.todo, main.then)
      BY <2>1 DEF Goes, CacheInv, ScanInv, MainInv, MainFields
    <2>3. Steady
      BY <1>0, <2>1 DEF Steady
    <2>4. Reached' = Reached
      BY <1>0, <2>1, <2>2, Zenon DEF Goes, Reached, Pushing
    <2>5. AFTER_LAST_MAX' = AFTER_LAST_MAX
      BY <1>0, <2>2 DEF Goes, AFTER_LAST_MAX, WindowSize
    <2>6. LoopInv'
      BY <1>0, <2>1, <2>2, <2>5 DEF Goes, CacheInv, LoopInv, Pushing
    <2>7. main'.pc = "cached" => main'.after_last .. main'.first - 1 = {}
      BY <1>0, <2>1, <2>2, DiskAssumption DEF Goes, CacheInv, LoopInv, Pushing, ScanInv, MainInv
    <2>8. /\ main'.pc \notin {"done", "error", "disc", "ended", "query", "answer", "setup", "register", "all_cached"}
          /\ main'.pc \notin {"push", "cond_push"} => main.todo = <<>>
      BY <1>0, <2>1, <2>2 DEF Goes
    <2> QED BY <1>0, <2>2, <2>3, <2>4, <2>6, <2>7, <2>8, CacheQuiet DEF Goes
  <1>2. CASE main.todo # <<>> /\ Len(q) < max_size
    <2>0. PICK item, todo : item = Head(main.todo) /\ todo = Tail(main.todo)
      BY Zenon
    <2>1. /\ main' = [main EXCEPT !.todo = todo] /\ q' = Append(q, item)
          /\ rx' = IF rx = "cond_pop" THEN "pop" ELSE rx
      BY <1>2, <2>0 DEF Push
    <2>2. Goes("push", main.index, main.first, main.after_last, todo, main.then)
      BY <1>0, <2>1, Zenon DEF Goes, CacheInv, ScanInv, MainInv, MainFields
    <2>3. Reached' = Reached
      BY <1>0, <2>2, Zenon DEF Goes, Reached, Pushing
    <2>4. AFTER_LAST_MAX' = AFTER_LAST_MAX
      BY <1>0, <2>2, Zenon DEF Goes, AFTER_LAST_MAX, WindowSize
    <2>5. LoopInv'
      BY <1>0, <2>2, <2>4, Zenon DEF Goes, CacheInv, LoopInv, Pushing
    <2>6. SessionInv'
      BY <1>0, <2>2, Zenon DEF Goes, CacheInv, SessionInv
    <2>7. CoverInv'
      <3>1. \A b : Covered(b) => Covered(b)'
        BY <1>0, CoveredStays, Zenon
      <3> QED BY <2>2, <2>3, <3>1 DEF Goes, CacheInv, CoverInv
    <2>8. /\ todo \in Seq(Items) /\ Len(todo) = Len(main.todo) - 1 /\ item = main.todo[1] /\ item \in Items
          /\ DOMAIN main.todo = 1 .. Len(main.todo) /\ DOMAIN todo = 1 .. Len(main.todo) - 1
          /\ Len(main.todo) \in Nat \ {0} /\ \A i \in 1 .. Len(main.todo) - 1 : todo[i] = main.todo[i + 1]
          /\ (todo = <<>> <=> Len(main.todo) = 1)
      BY <1>2, <2>0, Popped DEF CacheInv, EofInv
    <2>9. /\ q' \in Seq(Items) /\ Len(q') = Len(q) + 1 /\ q' # <<>> /\ q'[Len(q) + 1] = item
          /\ DOMAIN q = 1 .. Len(q) /\ DOMAIN q' = 1 .. Len(q) + 1 /\ Len(q) \in Nat
          /\ \A i \in 1 .. Len(q) : q'[i] = q[i]
      BY <2>1, <2>8, Pushed DEF CacheInv, EofInv
    <2>10. \A i \in 1 .. Len(q) : q[i] # "eof"
      BY <1>2, <2>9, Zenon DEF CacheInv, EofInv
    <2>11. IF main.then = "join" THEN item = "eof" /\ todo = <<>>
           ELSE item # "eof" /\ \A i \in DOMAIN todo : todo[i] # "eof"
      <3>1. CASE main.then = "join"
        <4>1. main.todo = <<"eof">>
          BY <1>2, <3>1 DEF CacheInv, EofInv
        <4> QED BY <2>0, <3>1, <4>1
      <3>2. CASE main.then # "join"
        <4>1. \A i \in DOMAIN main.todo : main.todo[i] # "eof"
          BY <3>2 DEF CacheInv, EofInv
        <4>2. 1 \in DOMAIN main.todo /\ \A i \in 1 .. Len(main.todo) - 1 : i + 1 \in DOMAIN main.todo
          BY <2>8
        <4>3. item # "eof"
          BY <2>8, <4>1, <4>2, Zenon
        <4>4. ASSUME NEW i \in 1 .. Len(main.todo) - 1 PROVE todo[i] # "eof"
          BY <2>8, <4>1, <4>2, Zenon
        <4> QED BY <2>8, <3>2, <4>3, <4>4, Zenon
      <3> QED BY <3>1, <3>2
    <2>12. EofInv'
      <3>1. q' \in Seq(Items) /\ main'.todo \in Seq(Items) /\ main'.pc = "push"
        BY <2>2, <2>8, <2>9 DEF Goes
      <3>2. IF main'.then = "join" THEN main'.todo \in {<<>>, <<"eof">>}
            ELSE \A i \in DOMAIN main'.todo : main'.todo[i] # "eof"
        BY <2>2, <2>11, Zenon DEF Goes
      <3>3. \A i \in DOMAIN q' : q'[i] = "eof" => i = Len(q') /\ main'.todo = <<>> /\ main'.then = "join"
        BY <2>2, <2>9, <2>10, <2>11 DEF Goes
      <3>4. main'.then = "join" => q' # <<>> /\ q'[Len(q')] = "eof"
        BY <2>2, <2>9, <2>11 DEF Goes
      <3> QED BY <3>1, <3>2, <3>3, <3>4, Zenon DEF EofInv
    <2>13. ReceiverInv'
      BY <1>0, <1>2, <2>1, <2>2 DEF Goes, CacheInv, ReceiverInv
    <2>14. TallyInv'
      <3>1. /\ rx # "done" /\ rx' # "done" /\ (rx' = "dead" <=> rx = "dead")
            /\ (rx' = "recv_header" <=> rx = "recv_header")
        BY <1>2, <2>1, Zenon DEF CacheInv, ReceiverInv
      <3>2. /\ main'.todo = todo /\ main'.then = main.then /\ UNCHANGED <<progress, cmd>>
            /\ Len(todo) = Len(main.todo) - 1 /\ Len(q') = Len(q) + 1
            /\ Len(main.todo) \in Nat /\ Len(q) \in Nat
        BY <1>0, <2>2, <2>8, <2>9 DEF Goes
      <3>3. progress.remote \in Nat /\ progress.cache \in Nat
        BY DEF CacheInv, TallyInv
      <3>4. Tally' = Tally
        <4>1. PICK m, n, h : /\ m = Len(q) /\ n = Len(main.todo)
                             /\ h = IF rx = "recv_header" THEN 1 ELSE 0
          BY Zenon
        <4>2. /\ Len(main'.todo) = n - 1 /\ Len(q') = m + 1 /\ m \in Nat /\ n \in Nat
              /\ h = IF rx' = "recv_header" THEN 1 ELSE 0
          BY <3>1, <3>2, <4>1, Zenon
        <4>3. /\ Tally' = progress.remote + progress.cache + h + (m + 1) + (n - 1)
              /\ Tally = progress.remote + progress.cache + h + m + n
          BY <3>2, <4>1, <4>2, Zenon DEF Tally
        <4>4. h \in {0, 1}
          BY <4>1
        <4> QED BY <3>3, <4>2, <4>3, <4>4
      <3> QED BY <2>3, <3>1, <3>2, <3>4 DEF CacheInv, TallyInv
    <2> QED BY <2>5, <2>6, <2>7, <2>12, <2>13, <2>14
  <1> QED BY <1>1, <1>2

\* ... and popped.
LEMMA CachePop ==
  ASSUME CacheInv, Pop
  PROVE  LoopInv' /\ SessionInv' /\ CoverInv' /\ EofInv' /\ ReceiverInv' /\ TallyInv'
  <1> USE DEF proxyVars, sockVars
  <1>0. UNCHANGED <<bm, ctl_req, fwd, session, cmd>> /\ rx = "pop" /\ cmd = "cache_all"
    BY DEF Pop, CacheInv, ReceiverInv
  <1>1. CASE q = <<>>
    <2>1. UNCHANGED <<main, q, progress>> /\ rx' = "cond_pop"
      BY <1>1 DEF Pop
    <2>2. Reached' = Reached /\ Tally' = Tally
      BY <1>0, <2>1, Zenon DEF Reached, Tally, Pushing, AFTER_LAST_MAX, WindowSize
    <2>3. LoopInv' /\ SessionInv'
      BY <1>0, <2>1 DEF CacheInv, LoopInv, SessionInv, Pushing, AFTER_LAST_MAX, WindowSize
    <2>4. CoverInv'
      BY <1>0, <2>1, <2>2, Zenon DEF CacheInv, CoverInv, Covered
    <2>5. EofInv' /\ ReceiverInv' /\ TallyInv'
      BY <1>0, <2>1, <2>2 DEF CacheInv, EofInv, ReceiverInv, TallyInv
    <2> QED BY <2>3, <2>4, <2>5
  <1>2. CASE q # <<>>
    <2>0. PICK item : item = Head(q)
      BY Zenon
    <2>a. q' = Tail(q) /\ rx' = AfterPop(item) /\ progress' = Counted(item)
      BY <1>2, <2>0 DEF Pop
    <2>b. main' = main \/ (main.pc = "cond_push" /\ main' = [main EXCEPT !.pc = "push"])
      <3>1. main' = IF At("cond_push") /\ Len(q) - 1 < max_size THEN [main EXCEPT !.pc = "push"] ELSE main
        BY <1>2, Zenon DEF Pop
      <3>2. CASE At("cond_push") /\ Len(q) - 1 < max_size
        BY <3>1, <3>2, Zenon DEF At
      <3>3. CASE ~(At("cond_push") /\ Len(q) - 1 < max_size)
        BY <3>1, <3>3
      <3> QED BY <3>2, <3>3, Zenon
    <2>1. /\ q' = Tail(q) /\ rx' = AfterPop(item) /\ progress' = Counted(item)
          /\ main' = main \/ (main.pc = "cond_push" /\ main' = [main EXCEPT !.pc = "push"])
      BY <2>a, <2>b, Zenon
    <2>2. PICK step : /\ Goes(step, main.index, main.first, main.after_last, main.todo, main.then)
                      /\ step = main.pc \/ (main.pc = "cond_push" /\ step = "push")
      BY <2>1, Zenon DEF Goes, CacheInv, ScanInv, MainInv, MainFields
    <2>3. Reached' = Reached
      BY <1>0, <2>2, Zenon DEF Goes, Reached, Pushing, AFTER_LAST_MAX, WindowSize
    <2>4. AFTER_LAST_MAX' = AFTER_LAST_MAX
      BY <1>0, <2>2, Zenon DEF Goes, AFTER_LAST_MAX, WindowSize
    <2>5. LoopInv'
      BY <1>0, <2>2, <2>4, Zenon DEF Goes, CacheInv, LoopInv, Pushing
    <2>6. SessionInv'
      BY <1>0, <2>2, Zenon DEF Goes, CacheInv, SessionInv
    <2>7. CoverInv'
      <3>1. \A b : Covered(b) => Covered(b)'
        BY <1>0, CoveredStays
      <3> QED BY <1>0, <2>2, <2>3, <3>1 DEF Goes, CacheInv, CoverInv
    <2>8. /\ q' \in Seq(Items) /\ Len(q') = Len(q) - 1 /\ item = q[1] /\ item \in Items
          /\ DOMAIN q = 1 .. Len(q) /\ DOMAIN q' = 1 .. Len(q) - 1
          /\ Len(q) \in Nat \ {0} /\ \A i \in 1 .. Len(q) - 1 : q'[i] = q[i + 1]
          /\ (q' = <<>> <=> Len(q) = 1)
      BY <1>2, <2>0, <2>1, Popped DEF CacheInv, EofInv
    <2>9. item = "eof" => Len(q) = 1 /\ main.todo = <<>> /\ main.then = "join"
      <3>1. 1 \in DOMAIN q
        BY <2>8
      <3>2. \A i \in DOMAIN q : q[i] = "eof" => i = Len(q) /\ main.todo = <<>> /\ main.then = "join"
        BY DEF CacheInv, EofInv
      <3> QED BY <2>8, <3>1, <3>2, Zenon
    <2>10. item # "eof" /\ main.then = "join" /\ main.todo = <<>> => Len(q) > 1 /\ q[Len(q)] = "eof"
      BY <1>0, <2>8 DEF CacheInv, EofInv
    <2>11. rx' \in {"done", "recv_header", "pop"} /\ (rx' = "done" <=> item = "eof")
      BY <2>1, Zenon DEF AfterPop
    <2>12. EofInv'
      <3>1. /\ q' \in Seq(Items) /\ main'.todo \in Seq(Items) /\ main'.todo = main.todo /\ main'.then = main.then
            /\ main'.pc \notin {"push", "cond_push", "error"} => main'.todo = <<>>
        BY <2>2, <2>8, Zenon DEF Goes, CacheInv, EofInv
      <3>2. IF main'.then = "join" THEN main'.todo \in {<<>>, <<"eof">>}
            ELSE \A i \in DOMAIN main'.todo : main'.todo[i] # "eof"
        BY <2>2, Zenon DEF Goes, CacheInv, EofInv
      <3>3. ASSUME NEW i \in 1 .. Len(q) - 1, q'[i] = "eof"
            PROVE  i = Len(q') /\ main'.todo = <<>> /\ main'.then = "join"
        <4>1. i + 1 \in DOMAIN q /\ q[i + 1] = "eof"
          BY <2>8, <3>3
        <4>2. i + 1 = Len(q) /\ main.todo = <<>> /\ main.then = "join"
          BY <4>1 DEF CacheInv, EofInv
        <4> QED BY <2>8, <3>1, <4>2
      <3>4. ASSUME main.then = "join", main.todo = <<>>, rx' # "done"
            PROVE  q' # <<>> /\ q'[Len(q')] = "eof"
        <4>1. Len(q) > 1 /\ q[Len(q)] = "eof"
          BY <2>10, <2>11, <3>4
        <4>2. Len(q) - 1 \in 1 .. Len(q) - 1 /\ (Len(q) - 1) + 1 = Len(q)
          BY <2>8, <4>1
        <4> QED BY <2>8, <4>1, <4>2
      <3> QED BY <2>8, <3>1, <3>2, <3>3, <3>4, Zenon DEF EofInv
    <2>13. ReceiverInv'
      BY <1>0, <2>1, <2>2, <2>8, <2>9, <2>11 DEF Goes, CacheInv, ReceiverInv
    <2>14. TallyInv'
      <3>1. Len(main.todo) \in Nat /\ (main.then = "join" /\ item # "eof" => Len(q) + Len(main.todo) > 1)
        <4>1. main.todo \in Seq(Items) /\ (main.todo # <<>> => Len(main.todo) > 0)
          BY DEF CacheInv, EofInv
        <4> QED BY <2>8, <2>10, <4>1
      <3>2. Reached \in 0 .. nblocks
        BY ReachedInDisk, Zenon DEF CacheInv, ScanInv
      <3>3. Tally = Reached + (IF main.then = "join" THEN 1 ELSE 0)
        BY <1>0 DEF CacheInv, TallyInv
      <3>4. /\ DOMAIN progress = {"remote", "cache"} /\ progress.remote \in Nat /\ progress.cache \in Nat
            /\ progress.remote + progress.cache <= nblocks
        BY Zenon DEF CacheInv, TallyInv
      <3>5. CASE item = "eof"
        <4>1. progress' = progress /\ rx' = "done"
          BY <2>1, <3>5 DEF Counted, AfterPop
        <4>2. Len(q') = 0 /\ Len(q) = 1 /\ main'.todo = main.todo /\ main.then = "join"
          <5>1. Len(q) = 1 /\ main.then = "join" /\ Len(q') = Len(q) - 1
            BY <2>8, <2>9, <3>5, Zenon
          <5> QED BY <2>2, <5>1 DEF Goes
        <4>3. Tally' = Tally - 1
          BY <1>0, <3>1, <3>4, <4>1, <4>2 DEF Tally
        <4> QED BY <1>0, <2>3, <3>2, <3>3, <3>4, <4>1, <4>2, <4>3, DiskAssumption DEF TallyInv
      <3>6. CASE item = "remote_first"
        <4>1. progress' = progress /\ rx' = "recv_header"
          BY <2>1, <3>6, Zenon DEF Counted, AfterPop
        <4> QED BY <1>0, <2>2, <2>3, <2>8, <3>1, <3>2, <3>3, <3>4, <4>1 DEF Goes, TallyInv, Tally
      <3>7. CASE item \in {"remote_later", "cached"}
        <4>1. /\ DOMAIN progress' = {"remote", "cache"} /\ rx' = "pop"
              /\ progress'.remote \in Nat /\ progress'.cache \in Nat
              /\ progress'.remote + progress'.cache = progress.remote + progress.cache + 1
          BY <2>1, <3>4, <3>7 DEF Counted, AfterPop
        <4>2. Tally' = Tally /\ progress'.remote + progress'.cache <= nblocks
          BY <1>0, <2>2, <2>8, <3>1, <3>2, <3>3, <3>4, <3>7, <4>1, DiskAssumption DEF Goes, Tally
        <4> QED BY <1>0, <2>2, <2>3, <3>3, <4>1, <4>2 DEF Goes, TallyInv
      <3> QED BY <2>8, <3>5, <3>6, <3>7, Zenon DEF Items
    <2> QED BY <2>5, <2>6, <2>7, <2>12, <2>13, <2>14
  <1> QED BY <1>1, <1>2

LEMMA CacheRecv ==
  ASSUME CacheInv, RecvHeader
  PROVE  LoopInv' /\ SessionInv' /\ CoverInv' /\ EofInv' /\ ReceiverInv' /\ TallyInv'
  <1> USE DEF proxyVars
  <1>0. UNCHANGED <<bm, ctl_req, fwd, session, cmd, q>> /\ rx = "recv_header" /\ cmd = "cache_all"
    BY DEF RecvHeader, CacheInv, ReceiverInv
  <1>1. CASE ~(ctl_rep > 0)
    BY <1>0, <1>1, CacheErr DEF RecvHeader
  <1>2. CASE ctl_rep > 0
    <2>1. main' = main /\ rx' = "pop" /\ progress' = [progress EXCEPT !.remote = @ + 1]
      BY <1>2 DEF RecvHeader
    <2>2. Reached' = Reached
      BY <1>0, <2>1 DEF Reached, Pushing, AFTER_LAST_MAX, WindowSize
    <2>3. LoopInv' /\ SessionInv'
      BY <1>0, <2>1 DEF CacheInv, LoopInv, SessionInv, Pushing, AFTER_LAST_MAX, WindowSize
    <2>4. CoverInv'
      BY <1>0, <2>1, <2>2 DEF CacheInv, CoverInv, Covered
    <2>5. EofInv' /\ ReceiverInv'
      BY <1>0, <2>1 DEF CacheInv, EofInv, ReceiverInv
    <2>6. TallyInv'
      <3>1. PICK m, n : m = Len(q) /\ n = Len(main.todo)
        BY Zenon
      <3>2. m \in Nat /\ n \in Nat /\ (main.then = "join" => m + n > 0)
        <4>1. m \in Nat /\ n \in Nat /\ (m = 0 => q = <<>>) /\ (n = 0 => main.todo = <<>>)
          BY <3>1 DEF CacheInv, EofInv
        <4>2. main.then = "join" /\ main.todo = <<>> => q # <<>>
          BY <1>0, Zenon DEF CacheInv, EofInv
        <4> QED BY <4>1, <4>2
      <3>3. Reached \in 0 .. nblocks
        BY ReachedInDisk DEF CacheInv, ScanInv
      <3>4. /\ DOMAIN progress = {"remote", "cache"} /\ progress.remote \in Nat /\ progress.cache \in Nat
            /\ Tally = Reached + (IF main.then = "join" THEN 1 ELSE 0)
        BY <1>0 DEF CacheInv, TallyInv
      <3>5. /\ DOMAIN progress' = {"remote", "cache"}
            /\ progress'.remote = progress.remote + 1 /\ progress'.cache = progress.cache
        BY <2>1, <3>4
      <3>6. /\ Tally = progress.remote + progress.cache + 1 + m + n
            /\ Tally' = (progress.remote + 1) + progress.cache + 0 + m + n
        BY <1>0, <2>1, <3>1, <3>5 DEF Tally
      <3>7. Tally' = Tally /\ progress'.remote + progress'.cache <= nblocks
        BY <3>2, <3>3, <3>4, <3>5, <3>6, DiskAssumption
      <3> QED BY <1>0, <2>1, <2>2, <3>4, <3>5, <3>7 DEF TallyInv
    <2> QED BY <2>3, <2>4, <2>5, <2>6
  <1> QED BY <1>1, <1>2

LEMMA CacheWakeup ==
  ASSUME CacheInv, SpuriousWakeup
  PROVE  LoopInv' /\ SessionInv' /\ CoverInv' /\ EofInv' /\ ReceiverInv' /\ TallyInv'
  <1> USE DEF proxyVars, sockVars
  <1>0. UNCHANGED <<bm, ctl_req, fwd, session, cmd, q, progress>>
    BY DEF SpuriousWakeup
  <1>1. CASE At("cond_push") /\ Move("push") /\ UNCHANGED rx
    <2>1. Goes("push", main.index, main.first, main.after_last, main.todo, main.then) /\ main.pc = "cond_push"
      BY <1>1 DEF At, Move, Goes, CacheInv, ScanInv, MainInv, MainFields
    <2>2. Reached' = Reached /\ AFTER_LAST_MAX' = AFTER_LAST_MAX
      BY <1>0, <2>1, Zenon DEF Goes, Reached, Pushing, AFTER_LAST_MAX, WindowSize
    <2>3. LoopInv'
      BY <1>0, <2>1, <2>2, Zenon DEF Goes, CacheInv, LoopInv, Pushing
    <2>4. Steady
      BY <1>0, <1>1 DEF Steady
    <2> QED BY <2>1, <2>2, <2>3, <2>4, CacheQuiet, Zenon DEF Goes
  <1>2. CASE rx = "cond_pop" /\ rx' = "pop" /\ UNCHANGED main
    <2>2. Reached' = Reached /\ Tally' = Tally
      BY <1>0, <1>2, Zenon DEF Reached, Tally, Pushing, AFTER_LAST_MAX, WindowSize
    <2>3. LoopInv' /\ SessionInv'
      BY <1>0, <1>2, Zenon DEF CacheInv, LoopInv, SessionInv, Pushing, AFTER_LAST_MAX, WindowSize
    <2>4. CoverInv'
      BY <1>0, <1>2, <2>2, Zenon DEF CacheInv, CoverInv, Covered
    <2>5. EofInv' /\ ReceiverInv' /\ TallyInv'
      BY <1>0, <1>2, <2>2, Zenon DEF CacheInv, EofInv, ReceiverInv, TallyInv
    <2> QED BY <2>3, <2>4, <2>5
  <1> QED BY <1>1, <1>2, Zenon DEF SpuriousWakeup

\* The session is ended when all its requests are through, so that the blocks
\* that were passed are marked by then.
LEMMA CacheEnd ==
  ASSUME CacheInv, EndRegisterFd
  PROVE  LoopInv' /\ SessionInv' /\ CoverInv' /\ EofInv' /\ ReceiverInv' /\ TallyInv'
  <1> USE DEF proxyVars
  <1>0. UNCHANGED <<bm, fwd, session, cmd, q, progress>>
    BY Zenon DEF EndRegisterFd
  <1>1. CASE At("disc") /\ Move("ended") /\ UNCHANGED <<ctl_req, rx>>
    <2>1. Goes("ended", main.index, main.first, main.after_last, main.todo, main.then) /\ main.pc = "disc"
      BY <1>1, Zenon DEF At, Move, Goes, CacheInv, ScanInv, MainInv, MainFields
    <2>2. Reached' = Reached
      BY <2>1, Zenon DEF Goes, Reached, Pushing
    <2>3. LoopInv' /\ Steady
      BY <1>0, <1>1, <2>1, Zenon DEF Goes, CacheInv, LoopInv, Pushing, Steady
    <2>4. main.todo = <<>> /\ (cmd = "cache_all" => rx = "done")
      BY <2>1, Zenon DEF CacheInv, EofInv, ReceiverInv
    <2> QED BY <2>1, <2>2, <2>3, <2>4, CacheQuiet DEF Goes
  <1>2. CASE At("disc") /\ Move("ended") /\ ctl_req' = Append(ctl_req, {}) /\ UNCHANGED rx
    <2>1. Goes("ended", main.index, main.first, main.after_last, main.todo, main.then) /\ main.pc = "disc"
      BY <1>2, Zenon DEF At, Move, Goes, CacheInv, ScanInv, MainInv, MainFields
    <2>2. Reached' = Reached
      BY <2>1 DEF Goes, Reached, Pushing
    <2>3. LoopInv'
      BY <1>0, <2>1, Zenon DEF Goes, CacheInv, LoopInv, Pushing
    <2>4. SessionInv'
      <3>1. \A i \in DOMAIN ctl_req : ctl_req[i] # {}
        BY <2>1, Zenon DEF CacheInv, SessionInv
      <3>2. /\ DOMAIN ctl_req = 1 .. Len(ctl_req) /\ DOMAIN ctl_req' = 1 .. Len(ctl_req) + 1
            /\ Len(ctl_req) \in Nat /\ Len(ctl_req') = Len(ctl_req) + 1
            /\ \A i \in 1 .. Len(ctl_req) : ctl_req'[i] = ctl_req[i]
        <4>1. ctl_req \in Seq(SUBSET Blocks) /\ {} \in SUBSET Blocks
          BY Zenon DEF CacheInv, ScanInv, RequestInv
        <4> QED BY <1>2, <4>1, Pushed
      <3>3. \A i \in DOMAIN ctl_req' : ctl_req'[i] = {} => i = Len(ctl_req')
        BY <3>1, <3>2
      <3>4. session # "ended"
        BY <2>1, Zenon DEF CacheInv, SessionInv
      <3> QED BY <1>0, <2>1, <3>3, <3>4, Zenon DEF Goes, SessionInv
    <2>5. CoverInv'
      <3>1. \A b : Covered(b) => Covered(b)'
        BY <1>0, <1>2, CoveredSent, Zenon DEF CacheInv, ScanInv
      <3> QED BY <2>1, <2>2, <3>1 DEF Goes, CacheInv, CoverInv
    <2>6. EofInv' /\ ReceiverInv'
      BY <1>0, <1>2, <2>1, Zenon DEF Goes, CacheInv, EofInv, ReceiverInv
    <2>7. TallyInv'
      BY <1>0, <1>2, <2>1, <2>2 DEF Goes, CacheInv, TallyInv, Tally
    <2> QED BY <2>3, <2>4, <2>5, <2>6, <2>7
  <1>3. CASE At("ended") /\ session = "ended" /\ Move("done") /\ UNCHANGED <<ctl_req, rx>>
    <2>1. Goes("done", main.index, main.first, main.after_last, main.todo, main.then) /\ main.pc = "ended"
      BY <1>3, Zenon DEF At, Move, Goes, CacheInv, ScanInv, MainInv, MainFields
    <2>2. Reached' = Reached /\ Reached = nblocks
      BY <2>1, Zenon DEF Goes, Reached, Pushing
    <2>3. LoopInv' /\ SessionInv'
      BY <1>0, <1>3, <2>1, Zenon DEF Goes, CacheInv, LoopInv, SessionInv, Pushing
    <2>4. CoverInv'
      <3>1. ctl_req = <<>> /\ fwd = <<>>
        BY <1>3 DEF CacheInv, SessionInv
      <3>2. \A b : Covered(b) => b \in bm
        BY <3>1 DEF Covered
      <3>3. Blocks \subseteq bm
        BY <2>2, <3>2 DEF CacheInv, CoverInv, Blocks
      <3>4. \A b : Covered(b) => Covered(b)'
        BY <1>0, <1>3, CoveredStays, Zenon
      <3> QED BY <1>0, <2>1, <2>2, <3>3, <3>4 DEF Goes, CacheInv, CoverInv
    <2>5. EofInv' /\ ReceiverInv'
      BY <1>0, <1>3, <2>1, Zenon DEF Goes, CacheInv, EofInv, ReceiverInv
    <2>6. TallyInv'
      BY <1>0, <1>3, <2>1, <2>2, Zenon DEF Goes, CacheInv, TallyInv, Tally
    <2> QED BY <2>3, <2>4, <2>5, <2>6
  <1>4. CASE Err /\ UNCHANGED ctl_req
    BY <1>0, <1>4, CacheErr, Zenon
  <1> QED BY <1>1, <1>2, <1>3, <1>4, Zenon DEF EndRegisterFd

\* --cache-all2: a window that has a block missing is asked for as a whole.
LEMMA CacheAllCached ==
  ASSUME CacheInv, AllCached
  PROVE  LoopInv' /\ SessionInv' /\ CoverInv' /\ EofInv' /\ ReceiverInv' /\ TallyInv'
  <1> USE DEF proxyVars
  <1>0. /\ UNCHANGED <<bm, fwd, session, cmd, q, progress>>
        /\ main.pc = "all_cached" /\ main.todo = <<>> /\ main.then # "join" /\ cmd # "cache_all"
    BY Zenon DEF AllCached, At, CacheInv, EofInv, LoopInv
  <1>a. /\ main.index \in Nat /\ main.first \in Nat /\ AFTER_LAST_MAX \in Nat
        /\ main.index <= main.first /\ main.first <= AFTER_LAST_MAX /\ AFTER_LAST_MAX <= nblocks
        /\ main.index .. main.first - 1 \subseteq bm
    BY <1>0, WindowInDisk, DiskAssumption, Zenon DEF CacheInv, ScanInv, MainInv, LoopInv, CoverInv
  <1>b. Reached = main.index
    BY <1>0, Zenon DEF Reached, Pushing
  <1>1. CASE main.first < AFTER_LAST_MAX /\ main.first \in bm
    <2>1. main' = [main EXCEPT !.first = main.first + 1] /\ UNCHANGED <<ctl_req, rx>>
      BY <1>1 DEF AllCached
    <2>2. Goes("all_cached", main.index, main.first + 1, main.after_last, main.todo, main.then)
      BY <1>0, <2>1, Zenon DEF Goes, CacheInv, ScanInv, MainInv, MainFields
    <2>3. Reached' = Reached /\ AFTER_LAST_MAX' = AFTER_LAST_MAX
      BY <1>0, <2>2 DEF Goes, Reached, Pushing, AFTER_LAST_MAX, WindowSize
    <2>4. LoopInv' /\ Steady
      BY <1>0, <1>a, <1>1, <2>1, <2>2, <2>3 DEF Goes, LoopInv, Pushing, Steady
    <2>5. main'.index .. main'.first - 1 \subseteq bm
      BY <1>a, <1>1, <2>2 DEF Goes
    <2> QED BY <1>0, <2>2, <2>3, <2>4, <2>5, CacheQuiet DEF Goes
  <1>2. CASE main.first = AFTER_LAST_MAX
    <2>1. main' = [main EXCEPT !.pc = "window", !.index = main.index + SHARED_NBLOCKS]
      BY <1>2, <1>a DEF AllCached
    <2>2. Goes("window", main.index + SHARED_NBLOCKS, main.first, main.after_last, main.todo, main.then)
      BY <2>1 DEF Goes, CacheInv, ScanInv, MainInv, MainFields
    <2>3. Reached' = AFTER_LAST_MAX
      BY <1>0, <2>2 DEF Goes, Reached, Pushing, AFTER_LAST_MAX, WindowSize
    <2>4. LoopInv' /\ UNCHANGED <<ctl_req, rx>>
      BY <1>0, <1>a, <1>2, <2>2, Zenon DEF Goes, LoopInv, Pushing, AllCached
    <2>5. SessionInv'
      BY <1>0, <2>2, <2>4, Zenon DEF Goes, CacheInv, SessionInv
    <2>6. CoverInv'
      <3>1. \A b : (Covered(b) => Covered(b)') /\ (b \in bm => Covered(b)')
        BY <1>0, <2>4, Zenon DEF Covered
      <3>2. \A b \in 0 .. AFTER_LAST_MAX - 1 : b \in 0 .. main.index - 1 \/ b \in bm
        BY <1>a, <1>2
      <3> QED BY <1>b, <2>2, <2>3, <3>1, <3>2, Zenon DEF Goes, CacheInv, CoverInv
    <2>7. EofInv' /\ ReceiverInv' /\ TallyInv'
      BY <1>0, <2>2, <2>4, Zenon DEF Goes, CacheInv, EofInv, ReceiverInv, TallyInv
    <2> QED BY <2>4, <2>5, <2>6, <2>7
  <1>3. CASE ~(main.first < AFTER_LAST_MAX /\ main.first \in bm) /\ main.first # AFTER_LAST_MAX
    <2>1. CASE proxy = "down"
      <3>1. Err /\ UNCHANGED ctl_req
        BY <1>3, <2>1 DEF AllCached
      <3> QED BY <1>0, <3>1, CacheErr
    <2>2. CASE proxy # "down"
      <3>0. PICK blocks : blocks = main.index .. AFTER_LAST_MAX - 1
        BY Zenon
      <3>1. ctl_req' = Append(ctl_req, blocks) /\ main' = [main EXCEPT !.pc = "reply"] /\ UNCHANGED rx
        BY <1>3, <2>2, <3>0 DEF AllCached, Move
      <3>2. Goes("reply", main.index, main.first, main.after_last, main.todo, main.then)
        BY <3>1, Zenon DEF Goes, CacheInv, ScanInv, MainInv, MainFields
      <3>3. Reached' = AFTER_LAST_MAX
        BY <1>0, <3>2, Zenon DEF Goes, Reached, Pushing, AFTER_LAST_MAX, WindowSize
      <3>4. blocks \in SUBSET Blocks /\ blocks # {}
        BY <1>a, <1>3, <3>0, DiskAssumption DEF Blocks
      <3>5. LoopInv'
        BY <1>0, <3>2 DEF Goes, LoopInv, Pushing
      <3>6. SessionInv'
        <4>1. main.pc \notin {"ended", "done", "error"} /\ UNCHANGED <<session, fwd>>
          BY <1>0
        <4> QED BY <3>1, <3>4, <4>1, SessionSent, Zenon DEF CacheInv
      <3>7. CoverInv'
        <4>1. (\A b : Covered(b) => Covered(b)') /\ \A b \in blocks : Covered(b)'
          BY <1>0, <3>1, CoveredSent, Zenon DEF CacheInv, ScanInv
        <4>2. \A b \in 0 .. AFTER_LAST_MAX - 1 : b \in 0 .. main.index - 1 \/ b \in blocks
          BY <1>a, <3>0
        <4> QED BY <1>b, <3>2, <3>3, <4>1, <4>2 DEF Goes, CacheInv, CoverInv
      <3>8. EofInv'
        <4>1. main'.todo = main.todo /\ main'.then = main.then /\ UNCHANGED <<q, rx>> /\ main'.pc = "reply"
          BY <1>0, <3>1, <3>2 DEF Goes
        <4> QED BY <1>0, <4>1 DEF CacheInv, EofInv
      <3>9. ReceiverInv' /\ TallyInv'
        BY <1>0, <3>1, <3>2 DEF Goes, CacheInv, ReceiverInv, TallyInv
      <3> QED BY <3>5, <3>6, <3>7, <3>8, <3>9
    <2> QED BY <2>1, <2>2
  <1> QED BY <1>1, <1>2, <1>3

LEMMA CacheReplied ==
  ASSUME CacheInv, CacheReply
  PROVE  LoopInv' /\ SessionInv' /\ CoverInv' /\ EofInv' /\ ReceiverInv' /\ TallyInv'
  <1> USE DEF proxyVars
  <1>0. /\ UNCHANGED <<bm, ctl_req, fwd, session, cmd, q, progress>>
        /\ main.pc = "reply" /\ main.todo = <<>> /\ main.then # "join" /\ cmd # "cache_all"
    BY DEF CacheReply, At, CacheInv, EofInv, LoopInv
  <1>1. CASE ~(ctl_rep > 0)
    BY <1>0, <1>1, CacheErr, Zenon DEF CacheReply
  <1>2. CASE ctl_rep > 0
    <2>1. main' = [main EXCEPT !.pc = "window", !.index = main.index + SHARED_NBLOCKS]
      BY <1>2, Zenon DEF CacheReply
    <2>2. Goes("window", main.index + SHARED_NBLOCKS, main.first, main.after_last, main.todo, main.then)
      BY <2>1 DEF Goes, CacheInv, ScanInv, MainInv, MainFields
    <2>3. Reached' = Reached
      BY <1>0, <2>2 DEF Goes, Reached, Pushing, AFTER_LAST_MAX, WindowSize
    <2>4. LoopInv' /\ Steady
      BY <1>0, <1>2, <2>2, Zenon DEF Goes, LoopInv, Pushing, Steady, CacheReply
    <2> QED BY <1>0, <2>2, <2>3, <2>4, CacheQuiet DEF Goes
  <1> QED BY <1>1, <1>2

-----------------------------------------------------------------------------
(* The proxy, seen from the requests                                       *)

\* A step that leaves the threads of xnbd-bgctl alone.
LEMMA CacheElsewhere ==
  ASSUME CacheInv, UNCHANGED <<cmd, main, rx, q, progress>>, bm \subseteq bm', SessionInv',
         \A b : Covered(b) => Covered(b)'
  PROVE  LoopInv' /\ SessionInv' /\ CoverInv' /\ EofInv' /\ ReceiverInv' /\ TallyInv'
  <1>1. Reached' = Reached /\ Tally' = Tally
    BY Zenon DEF Reached, Tally, Pushing, AFTER_LAST_MAX, WindowSize
  <1>2. LoopInv'
    BY Zenon DEF CacheInv, LoopInv, Pushing, AFTER_LAST_MAX, WindowSize
  <1>3. CoverInv'
    BY <1>1, Zenon DEF CacheInv, CoverInv
  <1>4. EofInv' /\ ReceiverInv' /\ TallyInv'
    BY <1>1, Zenon DEF CacheInv, EofInv, ReceiverInv, TallyInv
  <1> QED BY <1>2, <1>3, <1>4, Zenon

LEMMA CacheProxy ==
  ASSUME CacheInv, ProxyProcess \/ MasterSwitches \/ OtherSession \/ ServerEnds
  PROVE  LoopInv' /\ SessionInv' /\ CoverInv' /\ EofInv' /\ ReceiverInv' /\ TallyInv'
  <1> USE DEF proxyVars, sockVars, cacheVars
  <1>1. CASE ProxyAccept
    <2>0. UNCHANGED <<bm, ctl_req, fwd, cmd, rx, q, progress>> /\ (session' = session \/ session' = "active")
      BY <1>1, Zenon DEF ProxyAccept
    <2>1. CASE main' = main
      <3>1. SessionInv'
        BY <2>0, <2>1 DEF CacheInv, SessionInv
      <3>2. \A b : Covered(b) => Covered(b)'
        BY <2>0, CoveredStays
      <3> QED BY <2>0, <2>1, <3>1, <3>2, CacheElsewhere, Zenon
    <2>2. CASE main' # main
      <3>1. PICK step : /\ main.pc = "answer" /\ main' = [main EXCEPT !.pc = step]
                        /\ step \in {"register", "setup"}
        BY <1>1, <2>2, Zenon DEF ProxyAccept, At
      <3>2. Goes(step, main.index, main.first, main.after_last, main.todo, main.then)
        BY <3>1 DEF Goes, CacheInv, ScanInv, MainInv, MainFields
      <3>3. Reached = 0 /\ Reached' = 0
        BY <3>1, <3>2 DEF Goes, Reached
      <3>4. LoopInv' /\ SessionInv'
        BY <2>0, <3>1, <3>2 DEF Goes, CacheInv, LoopInv, SessionInv, Pushing
      <3>5. CoverInv'
        BY <3>1, <3>2, <3>3 DEF Goes, CoverInv
      <3>6. EofInv' /\ ReceiverInv'
        BY <2>0, <3>1, <3>2, Zenon DEF Goes, CacheInv, EofInv, ReceiverInv
      <3>7. TallyInv'
        BY <2>0, <3>2, <3>3, Zenon DEF Goes, CacheInv, TallyInv, Tally
      <3> QED BY <3>4, <3>5, <3>6, <3>7
    <2> QED BY <2>1, <2>2
  <1>2. CASE ProxyExit \/ ProxyMark \/ OtherSession \/ MasterSwitches \/ ServerEnds
    <2>1. UNCHANGED <<ctl_req, fwd, session, cmd, main, rx, q, progress>> /\ bm \subseteq bm'
      BY <1>2, Zenon DEF ProxyExit, ProxyMark, OtherSession, MasterSwitches, ServerEnds
    <2>2. SessionInv'
      BY <2>1, Zenon DEF CacheInv, SessionInv
    <2>3. \A b : Covered(b) => Covered(b)'
      BY <2>1, CoveredStays, Zenon
    <2> QED BY <2>1, <2>2, <2>3, CacheElsewhere
  <1>3. CASE ProxyReceive
    <2>0. /\ UNCHANGED <<bm, cmd, main, rx, q, progress>> /\ ctl_req # <<>> /\ session = "active"
          /\ ctl_req' = Tail(ctl_req) /\ ctl_req \in Seq(SUBSET Blocks) /\ fwd \in Seq(SUBSET Blocks)
      BY <1>3 DEF ProxyReceive, CacheInv, ScanInv, RequestInv
    <2>1. PICK blocks : blocks = Head(ctl_req)
      BY Zenon
    <2>2. /\ Len(ctl_req') = Len(ctl_req) - 1 /\ blocks = ctl_req[1] /\ blocks \in SUBSET Blocks
          /\ DOMAIN ctl_req = 1 .. Len(ctl_req) /\ DOMAIN ctl_req' = 1 .. Len(ctl_req) - 1
          /\ Len(ctl_req) \in Nat \ {0} /\ \A i \in 1 .. Len(ctl_req) - 1 : ctl_req'[i] = ctl_req[i + 1]
          /\ (ctl_req' = <<>> <=> Len(ctl_req) = 1)
      BY <2>0, <2>1, Popped
    <2>3. \A b : (\E i \in DOMAIN ctl_req : b \in ctl_req[i])
                 => b \in blocks \/ \E i \in DOMAIN ctl_req' : b \in ctl_req'[i]
      <3> SUFFICES ASSUME NEW b, NEW i \in DOMAIN ctl_req, b \in ctl_req[i], b \notin blocks
                   PROVE  \E j \in DOMAIN ctl_req' : b \in ctl_req'[j]
        OBVIOUS
      <3>1. i # 1
        BY <2>2, Zenon
      <3>2. i - 1 \in 1 .. Len(ctl_req) - 1 /\ (i - 1) + 1 = i
        BY <2>2, <3>1
      <3>3. ctl_req'[i - 1] = ctl_req[i]
        BY <2>2, <3>2, Zenon
      <3> QED BY <2>2, <3>2, <3>3, Zenon
    <2>4. \A i \in DOMAIN ctl_req' :
            ctl_req'[i] = {} => i = Len(ctl_req') /\ main.pc \in {"ended", "done", "error"}
      <3> SUFFICES ASSUME NEW i \in 1 .. Len(ctl_req) - 1, ctl_req'[i] = {}
                   PROVE  i = Len(ctl_req') /\ main.pc \in {"ended", "done", "error"}
        BY <2>2, Zenon
      <3>1. i + 1 \in DOMAIN ctl_req /\ ctl_req[i + 1] = {}
        BY <2>2
      <3>2. i + 1 = Len(ctl_req) /\ main.pc \in {"ended", "done", "error"}
        BY <3>1, Zenon DEF CacheInv, SessionInv
      <3> QED BY <2>2, <3>2
    <2>5. CASE blocks = {}
      <3>1. fwd = <<>> /\ fwd' = fwd /\ session' = "ended"
        BY <1>3, <2>1, <2>5 DEF ProxyReceive
      <3>2. Len(ctl_req) = 1 /\ main.pc \in {"ended", "done", "error"}
        <4>1. 1 \in DOMAIN ctl_req /\ ctl_req[1] = {}
          BY <2>2, <2>5
        <4>2. \A i \in DOMAIN ctl_req :
                ctl_req[i] = {} => i = Len(ctl_req) /\ main.pc \in {"ended", "done", "error"}
          BY DEF CacheInv, SessionInv
        <4> QED BY <4>1, <4>2, Zenon
      <3>3. SessionInv'
        BY <2>0, <2>2, <2>4, <3>1, <3>2, Zenon DEF SessionInv
      <3>4. \A b : Covered(b) => Covered(b)'
        BY <2>0, <2>3, <2>5, <3>1, Zenon DEF Covered
      <3> QED BY <2>0, <3>3, <3>4, CacheElsewhere, Zenon
    <2>6. CASE blocks # {}
      <3>1. fwd' = Append(fwd, blocks) /\ session' = session
        BY <1>3, <2>1, <2>6, Zenon DEF ProxyReceive
      <3>2. /\ DOMAIN fwd = 1 .. Len(fwd) /\ DOMAIN fwd' = 1 .. Len(fwd) + 1 /\ Len(fwd) \in Nat
            /\ fwd'[Len(fwd) + 1] = blocks /\ \A i \in 1 .. Len(fwd) : fwd'[i] = fwd[i]
        BY <2>0, <2>2, <3>1, Pushed
      <3>3. SessionInv'
        BY <2>0, <2>4, <3>1, Zenon DEF SessionInv
      <3>4. \A b : (\E i \in DOMAIN fwd : b \in fwd[i]) \/ b \in blocks => \E i \in DOMAIN fwd' : b \in fwd'[i]
        BY <3>2
      <3>5. \A b : Covered(b) => Covered(b)'
        BY <2>0, <2>3, <3>4, Zenon DEF Covered
      <3> QED BY <2>0, <3>3, <3>5, CacheElsewhere
    <2> QED BY <2>5, <2>6, Zenon
  <1>4. CASE ProxyReply
    <2>0. /\ UNCHANGED <<bm, ctl_req, session, cmd, main, rx, q, progress>>
          /\ fwd # <<>> /\ fwd' = Tail(fwd) /\ fwd \in Seq(SUBSET Blocks) /\ Head(fwd) \subseteq bm
      BY <1>4, Zenon DEF ProxyReply, CacheInv, ScanInv, RequestInv
    <2>1. /\ DOMAIN fwd = 1 .. Len(fwd) /\ DOMAIN fwd' = 1 .. Len(fwd) - 1 /\ Len(fwd) \in Nat \ {0}
          /\ fwd[1] \subseteq bm /\ \A i \in 1 .. Len(fwd) - 1 : fwd'[i] = fwd[i + 1]
      BY <2>0, Popped
    <2>2. \A b : (\E i \in DOMAIN fwd : b \in fwd[i]) => b \in bm \/ \E i \in DOMAIN fwd' : b \in fwd'[i]
      <3> SUFFICES ASSUME NEW b, NEW i \in DOMAIN fwd, b \in fwd[i], b \notin bm
                   PROVE  \E j \in DOMAIN fwd' : b \in fwd'[j]
        OBVIOUS
      <3>1. i # 1
        BY <2>1, Zenon
      <3>2. i - 1 \in 1 .. Len(fwd) - 1 /\ (i - 1) + 1 = i
        BY <2>1, <3>1
      <3>3. fwd'[i - 1] = fwd[i]
        BY <2>1, <3>2, Zenon
      <3> QED BY <2>1, <3>2, <3>3, Zenon
    <2>3. SessionInv'
      BY <2>0 DEF CacheInv, SessionInv
    <2>4. \A b : Covered(b) => Covered(b)'
      BY <2>0, <2>2, Zenon DEF Covered
    <2> QED BY <2>0, <2>3, <2>4, CacheElsewhere, Zenon
  <1> QED BY <1>1, <1>2, <1>3, <1>4, Zenon DEF ProxyProcess

LEMMA CacheStep == CacheInv /\ SwitchInv /\ [Next]_vars => CacheInv'
  <1> SUFFICES ASSUME CacheInv, SwitchInv, [Next]_vars PROVE CacheInv'
    OBVIOUS
  <1>0. ScanInv'
    BY SwitchStep DEF SwitchInv
  <1>1. CASE MainThread \/ RxThread \/ SpuriousWakeup
    BY <1>0, <1>1, CachePush, CacheStart, CacheRegister, CacheWindow, CacheWhile, CacheUncached, CacheSend,
       CacheCached, CacheEnd, CacheAllCached, CacheReplied, CachePop, CacheRecv, CacheWakeup, Zenon
       DEF MainThread, RxThread, CacheInv
  <1>2. CASE ProxyProcess \/ MasterSwitches \/ OtherSession \/ ServerEnds
    BY <1>0, <1>2, CacheProxy, Zenon DEF CacheInv
  <1>3. CASE SwitchProcess \/ SwitchQuery \/ UNCHANGED vars
    <2>1. UNCHANGED <<bm, ctl_req, fwd, session, cmd, main, rx, q, progress>>
      BY <1>3, Zenon DEF SwitchProcess, SwitchQuery, SwitchQueryFails, Popcount, StartMonitorConnection, Kill,
                  WaitForTargetMode, vars, proxyVars, sockVars, cacheVars
    <2>2. SessionInv'
      BY <2>1, Zenon DEF CacheInv, SessionInv
    <2>3. \A b : Covered(b) => Covered(b)'
      BY <2>1, CoveredStays
    <2> QED BY <1>0, <2>1, <2>2, <2>3, CacheElsewhere, Zenon DEF CacheInv
  <1> QED BY <1>1, <1>2, <1>3 DEF Next, Over

LEMMA CacheAlways == Spec => []CacheInv
  BY SwitchInit, SwitchStep, CacheInit, CacheStep, PTL DEF Spec

\* --cache-all and --cache-all2 end without an error only when every block is in
\* the cache, for every disk, window and queue size.
THEOREM CachesEverything == Spec => []NothingMissed
  <1>1. CacheInv => NothingMissed
    BY Zenon DEF CacheInv, ScanInv, RequestInv, CoverInv, NothingMissed, At
  <1> QED BY <1>1, CacheAlways, PTL

\* The assertions of refresh_progress(): however the marks in the bitmap, the
\* queue and the replies interleave, each block is counted once.
THEOREM CountsEachBlock == Spec => []ProgressExact
  <1>1. CacheInv => ProgressExact
    <2> SUFFICES ASSUME CacheInv, main.pc = "done", cmd = "cache_all"
                 PROVE  progress.remote + progress.cache = nblocks
      BY Zenon DEF CacheInv, TallyInv, ProgressExact, At
    <2>1. rx = "done" /\ main.then = "join" /\ main.todo = <<>> /\ q = <<>>
      BY Zenon DEF CacheInv, ReceiverInv
    <2>2. Tally = nblocks
      BY <2>1, DiskAssumption DEF CacheInv, TallyInv, Reached, Pushing
    <2> QED BY <2>1, <2>2, DiskAssumption DEF CacheInv, TallyInv, Tally
  <1> QED BY <1>1, CacheAlways, PTL

=============================================================================
