-------------------------- MODULE ProxyQueueProofs --------------------------
(***************************************************************************)
(* How far the proxy exceeds --max-queue-size, for every value of the      *)
(* constants.  QueueBound is not inductive: a step of an rx thread is      *)
(* bounded by how many others passed mem_usage_wait() before it and how    *)
(* many are still to send an exit notice, so the invariant counts both.    *)
(***************************************************************************)
EXTENDS ProxyProofs, FiniteSetTheorems
USE Zenon

\* The rx threads between mem_usage_wait() and mem_usage_add(), and those that
\* have not sent their exit notice.
Adding == {s \in Sessions : rx[s] = "add"}
Remaining == {s \in Sessions : rx[s] # "exited"}

\* Every thread in Adding and in Remaining may still add one to the queue.
QueueInv ==
  /\ TypeOK
  /\ \A s \in Sessions : session[s] = "unborn" => rx[s] = "none"
  /\ proxy_max_que_size > 0 =>
       cur_use_que + Cardinality(Adding) + Cardinality(Remaining)
         <= proxy_max_que_size + 2 * Cardinality(Sessions)

\* Both sets are finite and no larger than Sessions.
LEMMA Counts ==
  /\ Cardinality(Sessions) \in Nat
  /\ Cardinality(Adding) \in Nat /\ Cardinality(Adding) <= Cardinality(Sessions)
  /\ Cardinality(Remaining) \in Nat
  /\ Cardinality(Remaining) <= Cardinality(Sessions)
  /\ IsFiniteSet(Adding) /\ IsFiniteSet(Remaining)
  <1>1. Adding \subseteq Sessions /\ Remaining \subseteq Sessions
    BY DEF Adding, Remaining
  <1> QED BY <1>1, SessionsAssumption, FS_Subset, FS_CardinalityType

\* The same in the next state.
LEMMA CountsNext ==
  /\ Cardinality(Adding') \in Nat /\ Cardinality(Adding') <= Cardinality(Sessions)
  /\ Cardinality(Remaining') \in Nat
  /\ Cardinality(Remaining') <= Cardinality(Sessions)
  <1>1. Adding' \subseteq Sessions /\ Remaining' \subseteq Sessions
    BY DEF Adding, Remaining
  <1> QED BY <1>1, SessionsAssumption, FS_Subset, FS_CardinalityType

\* At the start nothing is queued.
LEMMA QueueInit == Init => QueueInv
  <1> SUFFICES ASSUME Init PROVE QueueInv
    OBVIOUS
  <1>1. cur_use_que = 0 /\ \A s \in Sessions : rx[s] = "none"
    BY DEF Init
  <1>2. Adding = {}
    BY <1>1 DEF Adding
  <1>3. Cardinality(Adding) = 0
    BY <1>2, FS_EmptySet
  <1> QED BY <1>1, <1>3, TypeInit, Counts, LimitsAssumption, SMTT(40) DEF QueueInv

\* A step that leaves rx and session alone and adds nothing to the queue.
LEMMA QueueQuiet ==
  ASSUME QueueInv, TypeOK', UNCHANGED <<rx, session>>, cur_use_que' <= cur_use_que
  PROVE  QueueInv'
  <1>1. Adding' = Adding /\ Remaining' = Remaining
    BY DEF Adding, Remaining
  <1>2. cur_use_que \in Int /\ cur_use_que' \in Int
    BY DEF QueueInv, TypeOK, MemType
  <1> QED BY <1>1, <1>2, Counts, LimitsAssumption, SMTT(40) DEF QueueInv

\* One case for each action of a session that changes rx, session or the queue.
LEMMA QueueSession ==
  ASSUME QueueInv, TypeOK', NEW s \in Sessions, SessionStep(s)
  PROVE  QueueInv'
  <1> USE DEF sesVars, rxVars, txVars, ftxVars, frxVars, netVars, memVars, procVars
  <1>1. /\ cur_use_que \in Int /\ cur_use_que' \in Int
        /\ rx \in [Sessions -> {"none", "recv", "wait", "add", "exited"}]
        /\ session \in [Sessions -> {"unborn", "live", "freed"}]
    BY DEF QueueInv, TypeOK, MemType, RxType, SesType
  <1>2. CASE \/ ClientClose(s) \/ WorkerNotify(s) \/ TxNotify(s) \/ MakePipe(s)
    <2>1. UNCHANGED <<rx, session, cur_use_que>>
      BY <1>2 DEF ClientClose, WorkerNotify, TxNotify, MakePipe
    <2> QED BY <1>1, <2>1, QueueQuiet, SMTT(40)
  <1>3. CASE RxRecv(s)
    <2>1. /\ Adding' = Adding /\ Remaining' = Remaining
          /\ cur_use_que' = cur_use_que
          /\ \A t \in Sessions : session'[t] = "unborn" => rx'[t] = "none"
      BY <1>1, <1>3 DEF RxRecv, Adding, Remaining, QueueInv
    <2> QED BY <2>1 DEF QueueInv
  <1>4. CASE RxWait(s)
    <2>1. /\ proxy_max_que_size > 0 => cur_use_que' <= proxy_max_que_size
          /\ \A t \in Sessions : session'[t] = "unborn" => rx'[t] = "none"
      BY <1>1, <1>4 DEF RxWait, MemAvailable, QueueInv
    <2> QED BY <1>1, <2>1, Counts, CountsNext, LimitsAssumption, SMTT(40) DEF QueueInv
  <1>5. CASE RxPush(s)
    <2>1. /\ Adding' = Adding \ {s} /\ s \in Adding /\ Remaining' = Remaining
          /\ proxy_max_que_size > 0 => cur_use_que' = cur_use_que + 1
          /\ \A t \in Sessions : session'[t] = "unborn" => rx'[t] = "none"
      BY <1>1, <1>5 DEF RxPush, Adding, Remaining, QueueInv, mem_usage_add
    <2>2. Cardinality(Adding') = Cardinality(Adding) - 1
      BY <2>1, Counts, FS_RemoveElement
    <2> QED BY <1>1, <2>1, <2>2, Counts, LimitsAssumption, SMTT(40) DEF QueueInv
  <1>6. CASE RxTerminate(s)
    <2>1. /\ Remaining' = Remaining \ {s} /\ s \in Remaining /\ Adding' = Adding
          /\ proxy_max_que_size > 0 => cur_use_que' = cur_use_que + 1
          /\ \A t \in Sessions : session'[t] = "unborn" => rx'[t] = "none"
      BY <1>1, <1>6 DEF RxTerminate, Adding, Remaining, QueueInv, mem_usage_add
    <2>2. Cardinality(Remaining') = Cardinality(Remaining) - 1
      BY <2>1, Counts, FS_RemoveElement
    <2> QED BY <1>1, <2>1, <2>2, Counts, LimitsAssumption, SMTT(40) DEF QueueInv
  <1>7. CASE TxPop(s)
    <2>1. cur_use_que' <= cur_use_que
      BY <1>1, <1>7, SMTT(40) DEF TxPop, mem_usage_del
    <2> QED BY <1>7, <2>1, QueueQuiet DEF TxPop
  <1>8. CASE RegisterFd(s)
    <2>1. /\ Adding' = Adding /\ Remaining' = Remaining
          /\ cur_use_que' = cur_use_que
          /\ \A t \in Sessions : session'[t] = "unborn" => rx'[t] = "none"
      BY <1>1, <1>8 DEF RegisterFd, Adding, Remaining, QueueInv
    <2> QED BY <2>1 DEF QueueInv
  <1>9. CASE Cleanup(s)
    <2>1. /\ UNCHANGED <<rx, cur_use_que>>
          /\ \A t \in Sessions : session'[t] = "unborn" => rx'[t] = "none"
      BY <1>1, <1>9 DEF Cleanup, QueueInv
    <2>2. Adding' = Adding /\ Remaining' = Remaining
      BY <2>1 DEF Adding, Remaining
    <2> QED BY <2>1, <2>2 DEF QueueInv
  <1> QED BY <1>2, <1>3, <1>4, <1>5, <1>6, <1>7, <1>8, <1>9 DEF SessionStep

\* The forwarder threads, the main thread and failures do not touch the count;
\* a restart begins with an empty queue.
LEMMA QueueStep ==
  ASSUME QueueInv, [Next]_vars
  PROVE  QueueInv'
  <1> USE DEF sesVars, rxVars, txVars, ftxVars, frxVars, netVars, memVars, procVars
  <1>1. TypeOK' /\ cur_use_que \in Int
    BY TypeStep DEF QueueInv, TypeOK, MemType
  <1>2. CASE UNCHANGED vars
    BY <1>1, <1>2, QueueQuiet, SMTT(40) DEF vars
  <1>3. CASE \E s \in Sessions : SessionStep(s)
    BY <1>1, <1>3, QueueSession
  <1>4. CASE ForwarderStep
    <2>1. CASE FwdTxPop \/ FwdTxSend \/ FwdTxPush
      <3>1. UNCHANGED <<rx, session, cur_use_que>>
        BY <2>1 DEF FwdTxPop, FwdTxSend, FwdTxPush
      <3> QED BY <1>1, <3>1, QueueQuiet, SMTT(40)
    <2>2. CASE FwdRxPop \/ FwdRxRecv \/ FwdRxFinish
      <3>1. UNCHANGED <<rx, session, cur_use_que>>
        BY <2>2 DEF FwdRxPop, FwdRxRecv, FwdRxFinish
      <3> QED BY <1>1, <3>1, QueueQuiet, SMTT(40)
    <2> QED BY <1>4, <2>1, <2>2 DEF ForwarderStep
  <1>5. CASE MainStep
    <2>1. UNCHANGED <<rx, session, cur_use_que>>
      BY <1>5 DEF MainStep, ReconnectStart, ReconnectRetry, ReconnectFinish,
         QueryStatus, ExitRequest, ExitShutdown, ExitProcess, vars
    <2> QED BY <1>1, <2>1, QueueQuiet, SMTT(40)
  <1>6. CASE LoseConnection \/ Crash
    <2>1. UNCHANGED <<rx, session, cur_use_que>>
      BY <1>6 DEF LoseConnection, Crash
    <2> QED BY <1>1, <2>1, QueueQuiet, SMTT(40)
  <1>7. CASE Restart
    <2>1. /\ cur_use_que' = 0
          /\ \A t \in Sessions : session'[t] = "unborn" => rx'[t] = "none"
      BY <1>7 DEF Restart, QueueInv
    <2> QED BY <1>1, <2>1, Counts, CountsNext, LimitsAssumption, SMTT(40) DEF QueueInv
  <1> QED BY <1>2, <1>3, <1>4, <1>5, <1>6, <1>7 DEF Next, Ended

\* However the rx threads interleave between mem_usage_wait() and
\* mem_usage_add(), the queue exceeds its limit by at most two entries for every
\* session.
THEOREM QueueBounded == Spec => []QueueBound
  <1>1. QueueInv => QueueBound
    <2> SUFFICES ASSUME QueueInv PROVE QueueBound
      OBVIOUS
    <2>1. cur_use_que \in Int
      BY DEF QueueInv, TypeOK, MemType
    <2> QED BY <2>1, Counts, LimitsAssumption, SMTT(40) DEF QueueInv, QueueBound
  <1> QED BY <1>1, QueueInit, QueueStep, PTL DEF Spec

=============================================================================
