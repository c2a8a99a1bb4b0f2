-------------------------- MODULE DiskServerProofs --------------------------
(***************************************************************************)
(* The target and the copy-on-write mode, for every disk, block size and   *)
(* number of workers.  If the clients take turns, the layers hold what     *)
(* they wrote between any two accesses, and every step of a worker is a    *)
(* step of DiskService or changes nothing that its clients see.            *)
(***************************************************************************)
EXTENDS DiskRefinement, TLAPS

USE SMTT(40)

\* The clients that the promise is made to: they take turns, and send no FLUSH
\* to a copy-on-write server.
TakeTurns ==
  /\ Sharing = "turns"
  /\ Sends \subseteq ({"target", "cow_target"} \X {"READ", "WRITE", "TRIM"})
                       \cup {<<"target", "FLUSH">>}

-----------------------------------------------------------------------------
(* The invariant *)

Active(s) == pc[s] \notin Idle
Type(s) == req[s].iotype
First(s) == FirstBlock(req[s])
Last(s) == LastBlock(req[s])
Touched(s) == RangeOf(req[s])

\* The steps of a worker in the mode it runs in.
CopySteps == {"test_sta", "test_end", "copy", "bit_read", "bit_write"}
StepsOf(iotype) ==
  IF cow THEN CASE iotype = "READ" -> {"lookup", "send", "reply"}
                [] iotype = "WRITE" -> CopySteps \cup {"data", "reply"}
                [] iotype = "TRIM" -> CopySteps \cup {"punch"}
                [] OTHER -> {}
  ELSE CASE iotype = "READ" -> {"lseek", "read", "reply"}
         [] iotype = "WRITE" -> {"data", "reply"}
         [] iotype = "TRIM" -> {"punch"}
         [] iotype = "FLUSH" -> {"reply"}
         [] OTHER -> {}

ShapeInv ==
  /\ cmd \in {"target", "cow_target"}
  /\ disk \in [Bytes -> DiskValues] /\ top \in [Bytes -> DiskValues]
  /\ content \in [Bytes -> SUBSET DiskValues]
  /\ bm \subseteq Blocks
  /\ DOMAIN pc = Sessions /\ DOMAIN req = Sessions /\ DOMAIN reply = Sessions
  /\ DOMAIN index = Sessions /\ DOMAIN copy = Sessions /\ DOMAIN found = Sessions
  /\ DOMAIN word = Sessions /\ DOMAIN buf = Sessions
  /\ num \in [Sessions -> 0 .. MaxReq]

\* A worker has a request of its mode and is at a step of this request; in a loop
\* over the blocks the index is one of them.
WorkInv(s) ==
  Active(s) =>
    /\ req[s] \in Requests /\ <<cmd, Type(s)>> \in Sends /\ num[s] > 0
    /\ pc[s] \in StepsOf(Type(s))
    /\ Type(s) # "FLUSH" => index[s] \in First(s) .. Last(s)
    /\ pc[s] \in CopySteps \ {"bit_read", "bit_write"} => index[s] = First(s)
    /\ Type(s) # "READ" => buf[s] = NoData

ApartInv ==
  \A s, t \in Sessions : s # t /\ Active(s) /\ Active(t) => Compatible(req[s], req[t])

\* What a READ has, and what it has found out, is right although others mark
\* blocks meanwhile.
ReadInv(s) ==
  Active(s) /\ Type(s) = "READ" =>
    /\ pc[s] = "read" => offset = req[s].iofrom
    /\ found[s] \subseteq bm
    /\ \A x \in Touched(s) :
         pc[s] = "send" \/ (pc[s] = "lookup" /\ BlockOf(x) < index[s]) =>
           IF BlockOf(x) \in found[s] THEN top[x] \in content[x] ELSE disk[x] \in content[x]
    /\ \A x \in Bytes :
         /\ pc[s] \in {"lookup", "send", "reply"} /\ x \notin Touched(s) => buf[s][x] = Empty
         /\ x \in Touched(s) /\ (pc[s] = "reply" \/ (pc[s] = "send" /\ BlockOf(x) < index[s])) =>
              buf[s][x] \in content[x]
    /\ pc[s] \in {"lookup", "send", "reply"} => DOMAIN buf[s] = Bytes

\* Nobody else writes what a WRITE has written.
WriteInv(s) ==
  Active(s) /\ Type(s) = "WRITE" => \A x \in Touched(s) :
    /\ content[x] = {<<s, num[s]>>}
    /\ pc[s] = "reply" \/ (pc[s] = "data" /\ BlockOf(x) < index[s]) =>
         (IF cow THEN top[x] ELSE disk[x]) = <<s, num[s]>>

TrimInv(s) == Active(s) /\ Type(s) = "TRIM" => \A x \in Touched(s) : Zero \in content[x]

\* The blocks of the request are copied where they have to be before they are
\* marked, and marked before data comes.
CopyInv(s) ==
  cow /\ Active(s) /\ Writes(req[s]) =>
    /\ pc[s] = "test_end" =>
         /\ copy[s] \subseteq {First(s)} \ bm
         /\ req[s].iofrom % CBLOCKSIZE # 0 => First(s) \in bm \cup copy[s]
    /\ pc[s] = "copy" => copy[s] \subseteq {First(s), Last(s)} \ bm
    /\ pc[s] \in {"copy", "bit_read", "bit_write"} =>
         \A x \in Bytes \ Touched(s) : BlockOf(x) \in First(s) .. Last(s) =>
           \/ BlockOf(x) \in bm
           \/ pc[s] = "copy" /\ BlockOf(x) \in copy[s]
           \/ top[x] = disk[x]
    /\ pc[s] \in {"bit_read", "bit_write"} => First(s) .. index[s] - 1 \subseteq bm
    /\ pc[s] = "bit_write" => word[s] = bm
    /\ pc[s] \in {"data", "punch", "reply"} => First(s) .. Last(s) \subseteq bm

SessionInv(s) == WorkInv(s) /\ ReadInv(s) /\ WriteInv(s) /\ TrimInv(s) /\ CopyInv(s)

\* No WRITE that is on its way covers x.
Settled(x) == \A s \in Sessions : Active(s) /\ Type(s) = "WRITE" => x \notin Touched(s)

ViewInv == \A x \in Bytes : Settled(x) => View(x) \in content[x]

\* A block that is not marked has nothing in the top layer but a copy.
TopInv == cow => \A x \in Bytes : BlockOf(x) \in bm \/ top[x] \in {Zero, disk[x]}

IInv ==
  /\ ShapeInv /\ ApartInv /\ ViewInv /\ TopInv
  /\ \A s \in Sessions : SessionInv(s)

-----------------------------------------------------------------------------
(* Bytes and blocks *)

\* The quotient and the remainder that block indices are computed with.
LEMMA DivMod ==
  ASSUME NEW a \in Nat
  PROVE  /\ a \div CBLOCKSIZE \in Nat
         /\ a % CBLOCKSIZE \in 0 .. CBLOCKSIZE - 1
         /\ a = CBLOCKSIZE * (a \div CBLOCKSIZE) + (a % CBLOCKSIZE)
  BY CBlockSizeAssumption

\* Multiples of the block size.
LEMMA Products ==
  ASSUME NEW b \in Int, NEW c \in Int
  PROVE  /\ CBLOCKSIZE * b \in Int /\ CBLOCKSIZE * (b + 1) = CBLOCKSIZE * b + CBLOCKSIZE
         /\ b <= c => CBLOCKSIZE * b <= CBLOCKSIZE * c
         /\ b < c => CBLOCKSIZE * b + CBLOCKSIZE <= CBLOCKSIZE * c
  <1>1. CBLOCKSIZE * (b + 1) = CBLOCKSIZE * b + CBLOCKSIZE /\ CBLOCKSIZE * b \in Int
    BY CBlockSizeAssumption
  <1>2. ASSUME NEW d \in Int, d <= c PROVE CBLOCKSIZE * d <= CBLOCKSIZE * c
    BY <1>2, CBlockSizeAssumption
  <1>3. b < c => b + 1 <= c
    OBVIOUS
  <1> QED BY <1>1, <1>2, <1>3

\* Byte a is in block b if it is among the CBLOCKSIZE bytes from its start on.
LEMMA InBlock ==
  ASSUME NEW a \in Nat, NEW b \in Int
  PROVE  /\ a \div CBLOCKSIZE < b <=> a < CBLOCKSIZE * b
         /\ b < a \div CBLOCKSIZE <=> CBLOCKSIZE * b + CBLOCKSIZE <= a
  <1>1. PICK q \in Nat : q = a \div CBLOCKSIZE
    BY DivMod
  <1>2. PICK m \in Int : m = CBLOCKSIZE * q
    BY <1>1, CBlockSizeAssumption
  <1>3. PICK n \in Int : n = CBLOCKSIZE * b
    BY CBlockSizeAssumption
  <1>4. CBLOCKSIZE \in Nat \ {0} /\ m <= a /\ a < m + CBLOCKSIZE
    BY <1>1, <1>2, DivMod, CBlockSizeAssumption
  <1>5. /\ q <= b => m <= n
        /\ q < b => m + CBLOCKSIZE <= n
        /\ b <= q => n <= m
        /\ b < q => n + CBLOCKSIZE <= m
    <2>1. q \in Int
      OBVIOUS
    <2>2. /\ q <= b => CBLOCKSIZE * q <= CBLOCKSIZE * b
          /\ q < b => CBLOCKSIZE * q + CBLOCKSIZE <= CBLOCKSIZE * b
          /\ b <= q => CBLOCKSIZE * b <= CBLOCKSIZE * q
          /\ b < q => CBLOCKSIZE * b + CBLOCKSIZE <= CBLOCKSIZE * q
      BY <2>1, Products, Zenon
    <2> QED BY <1>2, <1>3, <2>2, Zenon
  <1>6. q < b <=> a < n
    BY <1>4, <1>5
  <1>7. b < q <=> n + CBLOCKSIZE <= a
    BY <1>4, <1>5
  <1> QED BY <1>1, <1>3, <1>6, <1>7

\* A whole number of blocks leaves no remainder.
LEMMA Aligned ==
  ASSUME NEW a \in Nat
  PROVE  a % CBLOCKSIZE = 0 <=> a = CBLOCKSIZE * (a \div CBLOCKSIZE)
  <1> PICK m \in Int : m = CBLOCKSIZE * (a \div CBLOCKSIZE)
    BY DivMod, CBlockSizeAssumption
  <1> PICK k \in Int : k = a % CBLOCKSIZE
    BY DivMod, CBlockSizeAssumption
  <1>1. a = m + k
    BY DivMod
  <1> QED BY <1>1

\* The end index of a request that does not end at offset zero is the block of
\* its last byte.
LEMMA EndBlock ==
  ASSUME NEW e \in Nat \ {0}
  PROVE  /\ get_bindex_end(e) \in Nat
         /\ CBLOCKSIZE * get_bindex_end(e) < e
         /\ e <= CBLOCKSIZE * get_bindex_end(e) + CBLOCKSIZE
         /\ e % CBLOCKSIZE = 0 <=> e = CBLOCKSIZE * get_bindex_end(e) + CBLOCKSIZE
  <1> PICK q \in Nat : q = e \div CBLOCKSIZE
    BY DivMod
  <1> PICK m \in Int : m = CBLOCKSIZE * q
    BY CBlockSizeAssumption
  <1>1. CBLOCKSIZE \in Nat \ {0} /\ m <= e /\ e < m + CBLOCKSIZE /\ (e % CBLOCKSIZE = 0 <=> e = m)
    BY DivMod, Aligned, CBlockSizeAssumption
  <1>2. CASE e % CBLOCKSIZE = 0
    <2>1. get_bindex_end(e) = q - 1
      BY <1>2 DEF get_bindex_end
    <2>2. CBLOCKSIZE * (q - 1) + CBLOCKSIZE = m /\ CBLOCKSIZE * (q - 1) \in Int
      BY Products, q - 1 \in Int, (q - 1) + 1 = q
    <2>3. q # 0
      BY <1>1, <1>2, CBlockSizeAssumption
    <2> QED BY <1>1, <1>2, <2>1, <2>2, <2>3
  <1>3. CASE e % CBLOCKSIZE # 0
    <2>1. get_bindex_end(e) = q
      BY <1>3 DEF get_bindex_end
    <2> QED BY <1>1, <1>3, <2>1
  <1> QED BY <1>2, <1>3

\* The block that get_bindex_sta() computes for a byte is the one that holds it.
LEMMA BytesOfBlock ==
  ASSUME NEW x \in Bytes, NEW b \in Nat
  PROVE  /\ BlockOf(x) \in Nat
         /\ x \in BlockBytes(b) <=> BlockOf(x) = b
  <1> PICK m \in Int : m = CBLOCKSIZE * b
    BY CBlockSizeAssumption
  <1>1. b * CBLOCKSIZE = m /\ 1 * CBLOCKSIZE = CBLOCKSIZE
    BY CBlockSizeAssumption
  <1>2. x \in Nat /\ x < disksize /\ disksize \in Nat /\ CBLOCKSIZE \in Nat
    BY DiskSizeAssumption, CBlockSizeAssumption DEF Bytes
  <1>3. x \in BlockBytes(b) <=> m <= x /\ x < m + CBLOCKSIZE
    BY <1>1, <1>2 DEF BlockBytes, RunBytes, ByteRange, confine_iolen_within_disk
  <1>4. BlockOf(x) \in Nat /\ (BlockOf(x) < b <=> x < m) /\ (b < BlockOf(x) <=> m + CBLOCKSIZE <= x)
    <2>1. x \div CBLOCKSIZE \in Nat
      BY <1>2, DivMod
    <2>2. /\ x \div CBLOCKSIZE < b <=> x < CBLOCKSIZE * b
          /\ b < x \div CBLOCKSIZE <=> CBLOCKSIZE * b + CBLOCKSIZE <= x
      BY <1>2, b \in Int, InBlock
    <2> QED BY <2>1, <2>2 DEF BlockOf
  <1> QED BY <1>2, <1>3, <1>4

\* The blocks that the loops over a request go through are blocks of the disk, and
\* those of its bytes; only the first and the last can have other bytes.
LEMMA RequestBlocks ==
  ASSUME NEW r \in Requests, r.iotype # "FLUSH"
  PROVE  /\ FirstBlock(r) \in Nat /\ LastBlock(r) \in Nat /\ FirstBlock(r) <= LastBlock(r)
         /\ FirstBlock(r) .. LastBlock(r) \subseteq Blocks
         /\ RangeOf(r) \subseteq Bytes
         /\ \A x \in RangeOf(r) : BlockOf(x) \in FirstBlock(r) .. LastBlock(r)
         /\ \A x \in Bytes \ RangeOf(r) : BlockOf(x) \in FirstBlock(r) .. LastBlock(r) =>
              \/ BlockOf(x) = FirstBlock(r) /\ r.iofrom % CBLOCKSIZE # 0
              \/ BlockOf(x) = LastBlock(r) /\ ioend(r) % CBLOCKSIZE # 0
  <1> PICK i \in Nat, n \in Nat, e \in Nat : i = r.iofrom /\ n = r.iolen /\ e = i + n
    BY RequestsAssumption
  <1>1. n > 0 /\ e <= disksize /\ e = ioend(r) /\ e # 0 /\ disksize \in Nat \ {0}
    BY RequestsAssumption, DiskSizeAssumption DEF GoodRequest, ioend
  <1> PICK f \in Nat : f = i \div CBLOCKSIZE
    BY DivMod
  <1> PICK l \in Nat : l = get_bindex_end(e)
    BY <1>1, EndBlock
  <1> PICK p \in Nat : p = get_bindex_end(disksize)
    BY <1>1, EndBlock
  <1>2. FirstBlock(r) = f /\ LastBlock(r) = l /\ get_disk_nblocks = p + 1
    BY <1>1, DivMod DEF FirstBlock, LastBlock, get_bindex_sta, get_disk_nblocks, get_bindex_end
  <1>3. RangeOf(r) = i .. e - 1 /\ RangeOf(r) \subseteq Bytes /\ Bytes \subseteq Nat /\ i \in RangeOf(r)
    BY <1>1 DEF RangeOf, ByteRange, Bytes
  <1> PICK cf \in Int, cl \in Int, cp \in Int :
        cf = CBLOCKSIZE * f /\ cl = CBLOCKSIZE * l /\ cp = CBLOCKSIZE * p
    BY CBlockSizeAssumption
  <1>4. /\ CBLOCKSIZE \in Nat
        /\ cf <= i /\ i < cf + CBLOCKSIZE /\ (i % CBLOCKSIZE = 0 => i = cf)
        /\ cl < e /\ e <= cl + CBLOCKSIZE /\ (e % CBLOCKSIZE = 0 => e = cl + CBLOCKSIZE)
        /\ disksize <= cp + CBLOCKSIZE
    <2>1. i % CBLOCKSIZE = 0 => i = cf
      <3>1. i % CBLOCKSIZE = 0 <=> i = CBLOCKSIZE * (i \div CBLOCKSIZE)
        BY Aligned, Zenon
      <3> QED BY <3>1, Zenon
    <2>2. CBLOCKSIZE \in Nat /\ cf <= i /\ i < cf + CBLOCKSIZE
      BY DivMod, CBlockSizeAssumption
    <2>3. cl < e /\ e <= cl + CBLOCKSIZE /\ (e % CBLOCKSIZE = 0 => e = cl + CBLOCKSIZE)
      BY <1>1, e \in Nat \ {0}, EndBlock
    <2>4. disksize <= cp + CBLOCKSIZE
      BY <1>1, EndBlock
    <2> QED BY <2>1, <2>2, <2>3, <2>4
  <1>5. ASSUME NEW x \in Bytes
        PROVE  /\ x \in Nat /\ BlockOf(x) \in Nat
               /\ BlockOf(x) < f <=> x < cf
               /\ f < BlockOf(x) <=> cf + CBLOCKSIZE <= x
               /\ BlockOf(x) < l <=> x < cl
               /\ l < BlockOf(x) <=> cl + CBLOCKSIZE <= x
    <2>1. x \in Nat /\ x \div CBLOCKSIZE \in Nat
      BY <1>3, DivMod
    <2>2. /\ x \div CBLOCKSIZE < f <=> x < CBLOCKSIZE * f
          /\ f < x \div CBLOCKSIZE <=> CBLOCKSIZE * f + CBLOCKSIZE <= x
      BY <2>1, f \in Int, InBlock
    <2>3. /\ x \div CBLOCKSIZE < l <=> x < CBLOCKSIZE * l
          /\ l < x \div CBLOCKSIZE <=> CBLOCKSIZE * l + CBLOCKSIZE <= x
      BY <2>1, l \in Int, InBlock
    <2> QED BY <2>1, <2>2, <2>3 DEF BlockOf
  <1>6. \A x \in RangeOf(r) : f <= BlockOf(x) /\ BlockOf(x) <= l
    <2> SUFFICES ASSUME NEW x \in RangeOf(r) PROVE f <= BlockOf(x) /\ BlockOf(x) <= l
      OBVIOUS
    <2>1. x \in Bytes /\ i <= x /\ x < e
      BY <1>3
    <2> QED BY <2>1, <1>4, <1>5
  <1>7. f <= l
    BY <1>3, <1>5, <1>6
  <1>8. l <= p
    BY <1>1, <1>4, Products
  <1>9. f .. l \subseteq Blocks
    BY <1>2, <1>8 DEF Blocks
  <1>10. ASSUME NEW x \in Bytes, x \notin RangeOf(r), BlockOf(x) \in f .. l
         PROVE  \/ BlockOf(x) = f /\ i % CBLOCKSIZE # 0
                \/ BlockOf(x) = l /\ e % CBLOCKSIZE # 0
    <2>1. x < i \/ e <= x
      BY <1>3, <1>5, <1>10
    <2>2. CASE x < i
      BY <1>4, <1>5, <1>10, <2>2
    <2>3. CASE e <= x
      BY <1>4, <1>5, <1>10, <2>3
    <2> QED BY <2>1, <2>2, <2>3
  <1> QED BY <1>1, <1>2, <1>3, <1>5, <1>6, <1>7, <1>9, <1>10

-----------------------------------------------------------------------------
(* Workers *)

\* The fields of the mapped request of a worker,
LEMMA HeadPending ==
  ASSUME NEW s \in Sessions, Active(s)
  PROVE  /\ Pending[s] # <<>> /\ Head(Pending[s]).num = num[s]
         /\ Head(Pending[s]).req = req[s] /\ Head(Pending[s]).may = MayReturn(content, req[s])
  <1>1. Pending[s] = <<[num |-> num[s], req |-> req[s], may |-> MayReturn(content, req[s])]>>
    BY DEF Pending, Active
  <1> QED BY <1>1

\* those of the reply to it,
LEMMA OneReply ==
  ASSUME NEW q, NEW n, NEW e, NEW d, q = [num |-> n, error |-> e, data |-> d]
  PROVE  q.num = n /\ q.error = e /\ q.data = d
  OBVIOUS

\* and the number of the next one.
LEMMA NextNum == ASSUME NEW n \in 0 .. MaxReq, n < MaxReq PROVE n + 1 \in 1 .. MaxReq
  BY MaxReqAssumption

USE Zenon

\* The request of a worker, and what its next step says about it.
LEMMA AtWork ==
  ASSUME TakeTurns, IInv, NEW s \in Sessions, Active(s)
  PROVE  /\ req[s] \in Requests /\ num[s] \in 1 .. MaxReq /\ pc[s] \in StepsOf(Type(s))
         /\ Type(s) \in {"READ", "WRITE", "TRIM", "FLUSH"}
         /\ cow => Type(s) # "FLUSH"
         /\ Type(s) # "FLUSH" => index[s] \in First(s) .. Last(s)
  <1>1. req[s] \in Requests /\ <<cmd, Type(s)>> \in Sends /\ num[s] > 0 /\ pc[s] \in StepsOf(Type(s))
        /\ (Type(s) # "FLUSH" => index[s] \in First(s) .. Last(s))
    BY DEF IInv, SessionInv, WorkInv
  <1>2. num[s] \in 1 .. MaxReq
    BY <1>1, MaxReqAssumption, SMTT(40) DEF IInv, ShapeInv
  <1>3. Type(s) \in {"READ", "WRITE", "TRIM", "FLUSH"} /\ (cow => Type(s) # "FLUSH")
    BY <1>1 DEF TakeTurns, cow
  <1> QED BY <1>1, <1>2, <1>3

\* The step of a worker tells the mode and the type of its request.
LEMMA StepType ==
  ASSUME TakeTurns, IInv, NEW s \in Sessions
  PROVE  /\ pc[s] \in {"lookup", "send"} => cow /\ Type(s) = "READ"
         /\ pc[s] \in {"lseek", "read"} => ~cow /\ Type(s) = "READ"
         /\ pc[s] \in CopySteps => cow /\ Type(s) \in {"WRITE", "TRIM"}
         /\ pc[s] = "data" => Type(s) = "WRITE"
         /\ pc[s] = "punch" => Type(s) = "TRIM"
         /\ pc[s] = "reply" => Type(s) # "TRIM"
  <1>1. CASE Active(s)
    BY <1>1, AtWork DEF StepsOf, CopySteps
  <1>2. CASE ~Active(s)
    BY <1>2 DEF Active, Idle, CopySteps
  <1> QED BY <1>1, <1>2

\* The blocks of a request are blocks of the disk.
LEMMA WorkBlocks ==
  ASSUME TakeTurns, IInv, NEW s \in Sessions, Active(s), Type(s) # "FLUSH"
  PROVE  /\ First(s) \in Nat /\ Last(s) \in Nat /\ First(s) <= Last(s) /\ index[s] \in Nat
         /\ First(s) .. Last(s) \subseteq Blocks
         /\ Touched(s) \subseteq Bytes
         /\ \A x \in Touched(s) : BlockOf(x) \in First(s) .. Last(s)
         /\ \A x \in Bytes \ Touched(s) : BlockOf(x) \in First(s) .. Last(s) =>
              \/ BlockOf(x) = First(s) /\ req[s].iofrom % CBLOCKSIZE # 0
              \/ BlockOf(x) = Last(s) /\ ioend(req[s]) % CBLOCKSIZE # 0
  <1>1. req[s] \in Requests /\ index[s] \in First(s) .. Last(s)
    BY AtWork
  <1> QED BY <1>1, RequestBlocks, SMTT(40) DEF First, Last, Touched, Type

\* Two workers keep apart.
LEMMA Alone ==
  ASSUME TakeTurns, IInv, NEW s \in Sessions, NEW t \in Sessions, s # t, Active(s), Active(t)
  PROVE  /\ Writes(req[s]) => \A x \in Touched(s) : x \notin Touched(t)
         /\ cow /\ Writes(req[s]) => ~Writes(req[t])
         /\ ~cow /\ Type(s) = "READ" => Type(t) # "READ"
  BY DEF IInv, ApartInv, Compatible, TakeTurns, Touched, Type

-----------------------------------------------------------------------------
(* What the step of one worker leaves to the others *)

Same(t) ==
  /\ pc'[t] = pc[t] /\ num'[t] = num[t] /\ req'[t] = req[t] /\ index'[t] = index[t]
  /\ copy'[t] = copy[t] /\ found'[t] = found[t] /\ word'[t] = word[t] /\ buf'[t] = buf[t]

\* The bytes of its request are left alone, and so is all it relies on when it
\* copies blocks or reads at the file offset.
Undisturbed(t) ==
  /\ \A x \in Touched(t) : content'[x] = content[x] /\ disk'[x] = disk[x]
  /\ Type(t) = "READ" => /\ bm \subseteq bm' /\ (~cow => offset' = offset)
                         /\ \A x \in Touched(t) : BlockOf(x) \in bm => top'[x] = top[x]
  /\ cow /\ Writes(req[t]) => UNCHANGED <<disk, top, bm>>

\* A session that does not move keeps its invariant if nothing that its request
\* depends on changed.
LEMMA Kept ==
  ASSUME TakeTurns, IInv, NEW t \in Sessions, cmd' = cmd, Same(t), Active(t) => Undisturbed(t)
  PROVE  SessionInv(t)'
  <1>1. SessionInv(t)
    BY DEF IInv
  <1>2. cow' <=> cow
    BY DEF cow
  <1>3. /\ Active(t)' <=> Active(t)
        /\ Type(t)' = Type(t) /\ First(t)' = First(t) /\ Last(t)' = Last(t) /\ Touched(t)' = Touched(t)
        /\ Writes(req[t])' <=> Writes(req[t])
    BY DEF Same, Active, Type, First, Last, Touched
  <1>4. CASE ~Active(t)
    BY <1>3, <1>4 DEF SessionInv, WorkInv, ReadInv, WriteInv, TrimInv, CopyInv
  <1>5. CASE Active(t)
    <2> USE <1>1, <1>2, <1>3, <1>5
    <2>1. WorkInv(t)'
      <3>1. StepsOf(Type(t))' = StepsOf(Type(t))
        BY DEF StepsOf
      <3> QED BY <3>1 DEF SessionInv, WorkInv, Same
    <2>2. ReadInv(t)'
      <3>1. CASE Type(t) # "READ"
        BY <3>1 DEF ReadInv
      <3>2. CASE Type(t) = "READ"
        <4>1. ReadInv(t) /\ Undisturbed(t) /\ pc[t] \in StepsOf("READ")
          BY <3>2 DEF SessionInv, WorkInv
        <4>2. pc[t] = "read" => ~cow
          BY <4>1 DEF StepsOf
        <4> QED BY <3>2, <4>1, <4>2 DEF ReadInv, Undisturbed, Same
      <3> QED BY <3>1, <3>2
    <2>3. WriteInv(t)'
      <3>1. CASE Type(t) # "WRITE"
        BY <3>1 DEF WriteInv
      <3>2. CASE Type(t) = "WRITE"
        <4>1. WriteInv(t) /\ Undisturbed(t) /\ Writes(req[t])
          BY <3>2 DEF SessionInv, Writes, Type
        <4> QED BY <3>2, <4>1, SMTT(40) DEF WriteInv, Undisturbed, Same
      <3> QED BY <3>1, <3>2
    <2>4. TrimInv(t)'
      BY DEF SessionInv, TrimInv, Undisturbed
    <2>5. CopyInv(t)'
      <3>1. CASE ~(cow /\ Writes(req[t]))
        BY <3>1 DEF CopyInv
      <3>2. CASE cow /\ Writes(req[t])
        <4>1. CopyInv(t) /\ UNCHANGED <<disk, top, bm>>
          BY <3>2 DEF SessionInv, Undisturbed
        <4> QED BY <3>2, <4>1 DEF CopyInv, Same
      <3> QED BY <3>1, <3>2
    <2> QED BY <2>1, <2>2, <2>3, <2>4, <2>5 DEF SessionInv
  <1> QED BY <1>4, <1>5

\* Nothing is claimed of a worker without a request.
LEMMA IdleInv ==
  ASSUME NEW s \in Sessions, ~Active(s)' PROVE SessionInv(s)'
  BY DEF SessionInv, WorkInv, ReadInv, WriteInv, TrimInv, CopyInv

\* A step that takes no new request and leaves the disk and its content alone.
QuietFor(s) ==
  /\ UNCHANGED <<cmd, disk, top, bm, content>>
  /\ offset' = offset \/ (Active(s) /\ ~cow /\ Type(s) = "READ")
  /\ \A t \in Sessions \ {s} : Same(t)
  /\ Active(s)' => Active(s) /\ req'[s] = req[s]

\* Requests stay compatible while none is accepted.
LEMMA Apart ==
  ASSUME IInv, NEW s \in Sessions, cmd' = cmd, \A t \in Sessions \ {s} : Same(t),
         Active(s)' => Active(s) /\ req'[s] = req[s]
  PROVE  ApartInv'
  <1> SUFFICES ASSUME NEW p \in Sessions, NEW q \in Sessions, p # q, Active(p)', Active(q)'
               PROVE  Compatible(req[p], req[q])'
    BY DEF ApartInv
  <1>1. req'[p] = req[p] /\ req'[q] = req[q] /\ Active(p) /\ Active(q)
    BY DEF Same, Active
  <1>2. Compatible(req[p], req[q])
    BY <1>1 DEF IInv, ApartInv
  <1> QED BY <1>1, <1>2 DEF Compatible, cow

\* A step that changes neither layer and no mark, and ends no WRITE before its
\* data is in place.
LEMMA Quiet ==
  ASSUME TakeTurns, IInv, NEW s \in Sessions, QuietFor(s), ShapeInv', SessionInv(s)',
         Active(s) /\ Type(s) = "WRITE" /\ ~Active(s)' =>
           \A x \in Touched(s) : View(x) \in content[x]
  PROVE  IInv'
  <1>1. ASSUME NEW t \in Sessions, t # s PROVE SessionInv(t)'
    <2>1. Active(t) => Undisturbed(t)
      BY <1>1, Alone DEF Undisturbed, QuietFor
    <2> QED BY <1>1, <2>1, Kept DEF QuietFor
  <1>2. ApartInv'
    BY Apart DEF QuietFor
  <1>3. ViewInv'
    <2> SUFFICES ASSUME NEW x \in Bytes, Settled(x)' PROVE View(x)' \in content'[x]
      BY DEF ViewInv
    <2>1. View(x)' = View(x) /\ content'[x] = content[x]
      BY DEF QuietFor, View, cow
    <2>2. CASE Settled(x)
      BY <2>1, <2>2 DEF IInv, ViewInv
    <2>3. CASE ~Settled(x)
      <3>1. PICK t \in Sessions : Active(t) /\ Type(t) = "WRITE" /\ x \in Touched(t)
        BY <2>3 DEF Settled
      <3>2. Active(t)' => Type(t)' = Type(t) /\ Touched(t)' = Touched(t)
        BY DEF QuietFor, Same, Type, Touched
      <3>3. ~Active(t)'
        BY <3>1, <3>2 DEF Settled
      <3>4. t = s
        BY <3>1, <3>3 DEF QuietFor, Same, Active
      <3> QED BY <2>1, <3>1, <3>3, <3>4
    <2> QED BY <2>2, <2>3
  <1>4. TopInv'
    BY DEF IInv, TopInv, QuietFor, cow
  <1> QED BY <1>1, <1>2, <1>3, <1>4 DEF IInv

\* The next round of a loop over blocks, or the step after it.
LEMMA Round ==
  ASSUME TakeTurns, IInv, NEW s \in Sessions, Active(s), Type(s) # "FLUSH",
         NEW after, NextBlock(s, after)
  PROVE  /\ DOMAIN pc' = Sessions /\ DOMAIN index' = Sessions
         /\ \A t \in Sessions \ {s} : pc'[t] = pc[t] /\ index'[t] = index[t]
         /\ index'[s] \in First(s) .. Last(s)
         /\ \/ index[s] = Last(s) /\ index'[s] = First(s) /\ pc'[s] = after
            \/ /\ index[s] < Last(s) /\ index'[s] = index[s] + 1
               /\ pc'[s] = IF pc[s] = "bit_write" THEN "bit_read" ELSE pc[s]
  <1>1. index[s] \in First(s) .. Last(s) /\ First(s) \in Nat /\ Last(s) \in Nat /\ First(s) <= Last(s)
    BY AtWork, WorkBlocks
  <1>2. DOMAIN pc = Sessions /\ DOMAIN index = Sessions
    BY DEF IInv, ShapeInv
  <1>3. CASE index[s] = Last(s)
    BY <1>1, <1>2, <1>3, SMTT(40) DEF NextBlock, Goto, First, Last
  <1>4. CASE index[s] # Last(s)
    BY <1>1, <1>2, <1>4, SMTT(40) DEF NextBlock, Goto, First, Last
  <1> QED BY <1>3, <1>4

-----------------------------------------------------------------------------
(* Steps that change nothing of what is shared *)

\* One lemma per step of a worker: the end of a session,
LEMMA TerminateStep ==
  ASSUME TakeTurns, IInv, NEW s \in Sessions, Terminate(s) PROVE IInv'
  <1>1. ShapeInv'
    BY DEF Terminate, Goto, layerVars, workVars, IInv, ShapeInv
  <1>2. QuietFor(s) /\ ~Active(s)' /\ ~Active(s)
    BY DEF Terminate, Goto, layerVars, workVars, IInv, ShapeInv, QuietFor, Same, Active, Idle
  <1> QED BY <1>1, <1>2, IdleInv, Quiet

\* a request that is refused,
LEMMA BadRequestStep ==
  ASSUME TakeTurns, IInv, NEW s \in Sessions, NEW iotype, BadRequest(s, iotype) PROVE IInv'
  <1>1. ShapeInv'
    BY MaxReqAssumption, SMTT(40) DEF BadRequest, Goto, layerVars, workVars, IInv, ShapeInv
  <1>2. QuietFor(s) /\ ~Active(s)' /\ ~Active(s)
    BY DEF BadRequest, Goto, layerVars, workVars, IInv, ShapeInv, QuietFor, Same, Active, Idle
  <1> QED BY <1>1, <1>2, IdleInv, Quiet

\* the reply,
LEMMA ReplyStep ==
  ASSUME TakeTurns, IInv, NEW s \in Sessions, Reply(s) PROVE IInv'
  <1>1. ShapeInv'
    BY DEF Reply, Goto, layerVars, workVars, IInv, ShapeInv
  <1>2. QuietFor(s) /\ ~Active(s)' /\ Active(s) /\ pc[s] = "reply"
    BY DEF Reply, Goto, layerVars, workVars, IInv, ShapeInv, QuietFor, Same, Active, Idle
  <1>3. ASSUME Type(s) = "WRITE", NEW x \in Touched(s) PROVE View(x) \in content[x]
    <2>1. WriteInv(s) /\ CopyInv(s) /\ Writes(req[s])
      BY <1>3 DEF IInv, SessionInv, Writes, Type
    <2>2. BlockOf(x) \in First(s) .. Last(s)
      BY <1>2, <1>3, WorkBlocks
    <2>3. content[x] = {<<s, num[s]>>} /\ (IF cow THEN top[x] ELSE disk[x]) = <<s, num[s]>>
      BY <1>2, <1>3, <2>1 DEF WriteInv
    <2>4. cow => BlockOf(x) \in bm
      BY <1>2, <2>1, <2>2 DEF CopyInv
    <2>5. CASE cow
      BY <2>3, <2>4, <2>5 DEF View
    <2>6. CASE ~cow
      BY <2>3, <2>6 DEF View
    <2> QED BY <2>5, <2>6
  <1> QED BY <1>1, <1>2, <1>3, IdleInv, Quiet

\* cow_target_read() finding out where a block is,
LEMMA LookupStep ==
  ASSUME TakeTurns, IInv, NEW s \in Sessions, Lookup(s) PROVE IInv'
  <1>1. Active(s) /\ cow /\ Type(s) = "READ" /\ pc[s] = "lookup"
    BY StepType DEF Lookup, Active, Idle
  <1>2. NextBlock(s, "send")
    BY DEF Lookup
  <1>3. ShapeInv'
    BY <1>1, <1>2, Round DEF Lookup, layerVars, IInv, ShapeInv
  <1>4. QuietFor(s) /\ Active(s)' /\ UNCHANGED <<req, num, buf, layerVars, content>>
    BY <1>1, <1>2, Round, SMTT(40) DEF Lookup, layerVars, IInv, ShapeInv, QuietFor, Same, Active, Idle
  <1>5. found'[s] = found[s] \cup ({index[s]} \cap bm)
    BY DEF Lookup, IInv, ShapeInv
  <1>6. WorkInv(s)'
    BY <1>1, <1>2, <1>4, Round, AtWork, SMTT(40) DEF WorkInv, Type, First, Last, StepsOf, CopySteps, QuietFor,
       cow, IInv, SessionInv
  <1>7. ReadInv(s)'
    <2>1. ReadInv(s)
      BY DEF IInv, SessionInv
    <2>2. ASSUME NEW x \in Touched(s), BlockOf(x) = index[s]
          PROVE  IF index[s] \in bm THEN top[x] \in content[x] ELSE disk[x] \in content[x]
      <3>1. Settled(x) /\ x \in Bytes
        BY <1>1, <2>2, Alone, WorkBlocks DEF Settled, Writes, Type
      <3> QED BY <1>1, <2>2, <3>1 DEF IInv, ViewInv, View
    <2>3. pc'[s] = "send" \/ (pc'[s] = "lookup" /\ index'[s] = index[s] + 1)
      BY <1>1, <1>2, Round
    <2> QED
      BY <1>1, <1>2, <1>4, <1>5, <2>1, <2>2, Round, WorkBlocks, SMTT(40)
      DEF ReadInv, Type, Touched, layerVars
  <1>8. SessionInv(s)'
    BY <1>1, <1>4, <1>6, <1>7 DEF SessionInv, WriteInv, TrimInv, CopyInv, Type, Writes
  <1> QED BY <1>3, <1>4, <1>8, Quiet

\* and sending it from there,
LEMMA SendStep ==
  ASSUME TakeTurns, IInv, NEW s \in Sessions, Send(s) PROVE IInv'
  <1>1. Active(s) /\ cow /\ Type(s) = "READ" /\ pc[s] = "send"
    BY StepType DEF Send, Active, Idle
  <1>2. NextBlock(s, "reply")
    BY DEF Send
  <1>3. ShapeInv'
    BY <1>1, <1>2, Round DEF Send, layerVars, IInv, ShapeInv
  <1>4. QuietFor(s) /\ Active(s)' /\ UNCHANGED <<req, num, found, layerVars, content>>
    BY <1>1, <1>2, Round, SMTT(40) DEF Send, layerVars, IInv, ShapeInv, QuietFor, Same, Active, Idle
  <1>5. WorkInv(s)'
    BY <1>1, <1>2, <1>4, Round, AtWork, SMTT(40) DEF WorkInv, Type, First, Last, StepsOf, CopySteps, QuietFor,
       cow, IInv, SessionInv
  <1>6. ReadInv(s)'
    <2>1. ReadInv(s)
      BY DEF IInv, SessionInv
    <2>2. DOMAIN buf'[s] = Bytes /\ \A x \in Bytes :
            buf'[s][x] = IF x \in Touched(s) \cap BlockBytes(index[s])
                         THEN IF index[s] \in found[s] THEN top[x] ELSE disk[x]
                         ELSE buf[s][x]
      BY DEF Send, IInv, ShapeInv, Touched
    <2>3. \A x \in Touched(s) : x \in Bytes /\ (x \in BlockBytes(index[s]) <=> BlockOf(x) = index[s])
      BY <1>1, WorkBlocks, BytesOfBlock
    <2>4. ASSUME NEW x \in Bytes
          PROVE  /\ x \notin Touched(s) => buf'[s][x] = Empty
                 /\ x \in Touched(s) /\ BlockOf(x) <= index[s] => buf'[s][x] \in content[x]
      <3>1. CASE x \notin Touched(s)
        BY <1>1, <2>1, <2>2, <3>1 DEF ReadInv
      <3>2. CASE x \in Touched(s) /\ BlockOf(x) = index[s]
        BY <1>1, <2>1, <2>2, <2>3, <3>2 DEF ReadInv
      <3>3. CASE x \in Touched(s) /\ BlockOf(x) # index[s]
        <4>1. BlockOf(x) <= index[s] => BlockOf(x) < index[s]
          BY <1>1, <3>3, WorkBlocks, BytesOfBlock, SMTT(40)
        <4>2. buf'[s][x] = buf[s][x]
          BY <2>2, <2>3, <3>3
        <4> QED BY <1>1, <2>1, <3>3, <4>1, <4>2 DEF ReadInv
      <3> QED BY <3>1, <3>2, <3>3
    <2>5. \/ pc'[s] = "reply" /\ \A x \in Touched(s) : BlockOf(x) <= index[s]
          \/ pc'[s] = "send" /\ \A x \in Touched(s) : BlockOf(x) < index'[s] => BlockOf(x) <= index[s]
      BY <1>1, <1>2, Round, WorkBlocks, SMTT(40)
    <2> QED
      BY <1>1, <1>4, <2>1, <2>2, <2>3, <2>4, <2>5 DEF ReadInv, Type, Touched, layerVars
  <1>7. SessionInv(s)'
    BY <1>1, <1>4, <1>5, <1>6 DEF SessionInv, WriteInv, TrimInv, CopyInv, Type, Writes
  <1> QED BY <1>3, <1>4, <1>7, Quiet

\* A WRITE or TRIM until its data comes: what was copied and marked is all that
\* counts.
LEMMA BeforeData ==
  ASSUME TakeTurns, IInv, NEW s \in Sessions, pc[s] \in CopySteps,
         req'[s] = req[s], num'[s] = num[s], buf'[s] = buf[s], UNCHANGED <<cmd, content>>,
         index'[s] \in First(s) .. Last(s),
         pc'[s] \notin {"bit_read", "bit_write"} => index'[s] = First(s),
         pc'[s] \in CopySteps \cup {IF Type(s) = "TRIM" THEN "punch" ELSE "data"},
         CopyInv(s)'
  PROVE  Active(s) /\ Active(s)' /\ SessionInv(s)'
  <1>1. Active(s) /\ Active(s)' /\ cow /\ Type(s) \in {"WRITE", "TRIM"}
    BY StepType DEF Active, Idle, CopySteps
  <1>2. SessionInv(s)
    BY DEF IInv
  <1>3. Type(s)' = Type(s) /\ First(s)' = First(s) /\ Last(s)' = Last(s) /\ Touched(s)' = Touched(s)
    BY DEF Type, First, Last, Touched
  <1>4. WorkInv(s)'
    BY <1>1, <1>2, <1>3 DEF SessionInv, WorkInv, StepsOf, CopySteps, cow
  <1>5. ReadInv(s)' /\ TrimInv(s)'
    BY <1>1, <1>2, <1>3 DEF SessionInv, ReadInv, TrimInv
  <1>6. WriteInv(s)'
    <2>1. WriteInv(s) /\ pc'[s] # "reply" /\ (pc'[s] = "data" => index'[s] = First(s))
      BY <1>2 DEF SessionInv, CopySteps
    <2>2. \A x \in Touched(s) : ~(BlockOf(x) < First(s))
      BY <1>1, WorkBlocks, SMTT(40)
    <2> QED BY <1>1, <1>3, <2>1, <2>2 DEF WriteInv
  <1> QED BY <1>1, <1>4, <1>5, <1>6 DEF SessionInv

\* a request that begins inside a block,
LEMMA TestStaStep ==
  ASSUME TakeTurns, IInv, NEW s \in Sessions, TestSta(s) PROVE IInv'
  <1>1. pc[s] = "test_sta" /\ pc'[s] = "test_end" /\ UNCHANGED <<cmd, layerVars, num, req, index, buf, content>>
    BY DEF TestSta, Goto, IInv, ShapeInv
  <1>2. Active(s) /\ cow /\ Type(s) \in {"WRITE", "TRIM"} /\ index[s] = First(s) /\ First(s) <= Last(s)
    <2>1. Active(s) /\ cow /\ Type(s) \in {"WRITE", "TRIM"}
      BY <1>1, StepType DEF Active, Idle, CopySteps
    <2>2. index[s] = First(s)
      <3>1. WorkInv(s)
        BY DEF IInv, SessionInv
      <3>2. pc[s] \in CopySteps \ {"bit_read", "bit_write"}
        BY <1>1 DEF CopySteps
      <3> QED BY <2>1, <3>1, <3>2 DEF WorkInv
    <2> QED BY <2>1, <2>2, WorkBlocks
  <1>3. ShapeInv'
    BY DEF TestSta, Goto, layerVars, IInv, ShapeInv
  <1>4. CopyInv(s)'
    <2>1. copy'[s] = IF req[s].iofrom % CBLOCKSIZE # 0 THEN {First(s)} \ bm ELSE {}
      BY DEF TestSta, IInv, ShapeInv, First
    <2> QED BY <1>1, <2>1 DEF CopyInv, First, layerVars
  <1>5. SessionInv(s)' /\ Active(s)'
    BY <1>1, <1>2, <1>4, BeforeData, AtWork DEF CopySteps
  <1>6. QuietFor(s)
    BY <1>2 DEF TestSta, Goto, layerVars, IInv, ShapeInv, QuietFor, Same
  <1> QED BY <1>3, <1>5, <1>6, Quiet

\* or ends inside one,
LEMMA TestEndStep ==
  ASSUME TakeTurns, IInv, NEW s \in Sessions, TestEnd(s) PROVE IInv'
  <1>1. pc[s] = "test_end" /\ pc'[s] = "copy" /\ UNCHANGED <<cmd, layerVars, num, req, index, buf, content>>
    BY DEF TestEnd, Goto, IInv, ShapeInv
  <1>2. Active(s) /\ cow /\ Type(s) \in {"WRITE", "TRIM"} /\ index[s] = First(s) /\ First(s) <= Last(s)
    <2>1. Active(s) /\ cow /\ Type(s) \in {"WRITE", "TRIM"}
      BY <1>1, StepType DEF Active, Idle, CopySteps
    <2>2. index[s] = First(s)
      <3>1. WorkInv(s)
        BY DEF IInv, SessionInv
      <3>2. pc[s] \in CopySteps \ {"bit_read", "bit_write"}
        BY <1>1 DEF CopySteps
      <3> QED BY <2>1, <3>1, <3>2 DEF WorkInv
    <2> QED BY <2>1, <2>2, WorkBlocks
  <1>3. ShapeInv'
    BY DEF TestEnd, Goto, layerVars, IInv, ShapeInv
  <1>4. CopyInv(s)'
    <2>1. copy'[s] = IF /\ ioend(req[s]) % CBLOCKSIZE # 0
                        /\ Last(s) > First(s) \/ (Last(s) = First(s) /\ copy[s] = {})
                     THEN copy[s] \cup ({Last(s)} \ bm) ELSE copy[s]
      BY DEF TestEnd, IInv, ShapeInv, First, Last
    <2>2. /\ copy[s] \subseteq {First(s)} \ bm
          /\ req[s].iofrom % CBLOCKSIZE # 0 => First(s) \in bm \cup copy[s]
      BY <1>1, <1>2 DEF IInv, SessionInv, CopyInv, Type, Writes
    <2>3. ioend(req[s]) % CBLOCKSIZE # 0 => Last(s) \in bm \cup copy'[s]
      BY <1>2, <2>1, <2>2, WorkBlocks, SMTT(40)
    <2>4. copy[s] \subseteq copy'[s] /\ copy'[s] \subseteq {First(s), Last(s)} \ bm
      BY <2>1, <2>2, SMTT(40)
    <2>5. \A x \in Bytes \ Touched(s) : BlockOf(x) \in First(s) .. Last(s) =>
             BlockOf(x) \in bm \/ BlockOf(x) \in copy'[s]
      BY <1>2, <2>2, <2>3, <2>4, WorkBlocks
    <2> QED BY <1>1, <2>4, <2>5 DEF CopyInv, First, Last, Touched, layerVars
  <1>5. SessionInv(s)' /\ Active(s)'
    BY <1>1, <1>2, <1>4, BeforeData, AtWork DEF CopySteps
  <1>6. QuietFor(s)
    BY <1>2 DEF TestEnd, Goto, layerVars, IInv, ShapeInv, QuietFor, Same
  <1> QED BY <1>3, <1>5, <1>6, Quiet

\* bitmap_on() reading the word,
LEMMA BitReadStep ==
  ASSUME TakeTurns, IInv, NEW s \in Sessions, BitRead(s) PROVE IInv'
  <1>1. pc[s] = "bit_read" /\ UNCHANGED <<cmd, layerVars, num, req, index, buf, copy, content>>
    BY DEF BitRead
  <1>2. Active(s) /\ cow /\ Type(s) \in {"WRITE", "TRIM"} /\ index[s] \in Blocks
    BY <1>1, StepType, WorkBlocks, AtWork DEF Active, Idle, CopySteps
  <1>3. ShapeInv'
    BY <1>2 DEF BitRead, Goto, layerVars, IInv, ShapeInv
  <1>4. pc'[s] = "bit_write" /\ word'[s] = bm
    BY <1>2 DEF BitRead, Goto, IInv, ShapeInv
  <1>5. CopyInv(s)'
    <2>1. CopyInv(s)
      BY DEF IInv, SessionInv
    <2> QED BY <1>1, <1>2, <1>4, <2>1 DEF CopyInv, First, Last, Touched, layerVars, cow, Type, Writes, Active, Idle
  <1>6. SessionInv(s)' /\ Active(s)'
    BY <1>1, <1>2, <1>4, <1>5, BeforeData, AtWork DEF CopySteps
  <1>7. QuietFor(s)
    BY <1>2 DEF BitRead, Goto, layerVars, IInv, ShapeInv, QuietFor, Same
  <1> QED BY <1>3, <1>6, <1>7, Quiet

\* the offset of the descriptor that the workers share,
LEMMA LseekStep ==
  ASSUME TakeTurns, IInv, NEW s \in Sessions, Lseek(s) PROVE IInv'
  <1>1. /\ pc[s] = "lseek" /\ pc'[s] = "read" /\ offset' = req[s].iofrom
        /\ UNCHANGED <<cmd, bm, req, num, index, found, buf>>
    BY DEF Lseek, Goto, workVars, IInv, ShapeInv
  <1>2. Active(s) /\ ~cow /\ Type(s) = "READ" /\ Active(s)'
    BY <1>1, StepType DEF Active, Idle
  <1>3. ShapeInv'
    BY DEF Lseek, Goto, workVars, IInv, ShapeInv
  <1>4. QuietFor(s)
    BY <1>2 DEF Lseek, Goto, workVars, IInv, ShapeInv, QuietFor, Same
  <1>5. WorkInv(s)'
    BY <1>1, <1>2 DEF IInv, SessionInv, WorkInv, StepsOf, CopySteps, Type, First, Last, cow
  <1>6. ReadInv(s)'
    BY <1>1, <1>2 DEF IInv, SessionInv, ReadInv, Type
  <1>7. SessionInv(s)'
    BY <1>1, <1>2, <1>5, <1>6 DEF SessionInv, WriteInv, TrimInv, CopyInv, Type, cow
  <1> QED BY <1>2, <1>3, <1>4, <1>7, Quiet

\* and the read() that depends on it.
LEMMA ReadStep ==
  ASSUME TakeTurns, IInv, NEW s \in Sessions, Read(s) PROVE IInv'
  <1>1. pc[s] = "read" /\ UNCHANGED <<cmd, disk, bm, req, num, index, found, content>>
    BY DEF Read
  <1>2. Active(s) /\ ~cow /\ Type(s) = "READ" /\ offset = req[s].iofrom /\ found[s] \subseteq bm
    BY <1>1, StepType DEF Active, Idle, IInv, SessionInv, ReadInv
  <1>3. offset \in Nat /\ offset + req[s].iolen <= disksize /\ Touched(s) \subseteq Bytes /\ Bytes \subseteq Int
    <2>1. req[s] \in Requests
      BY <1>2, AtWork
    <2> QED BY <1>2, <2>1, RequestsAssumption, WorkBlocks, SMTT(40) DEF GoodRequest, Bytes
  <1>4. /\ pc' = [pc EXCEPT ![s] = "reply"]
        /\ buf' = [buf EXCEPT ![s] =
             [x \in Bytes |-> IF x \in Touched(s) THEN disk[x - req[s].iofrom + offset] ELSE Empty]]
    BY <1>3 DEF Read, Goto, Touched
  <1>5. pc'[s] = "reply" /\ DOMAIN buf'[s] = Bytes
        /\ \A x \in Bytes : buf'[s][x] = IF x \in Touched(s) THEN disk[x] ELSE Empty
    <2>1. \A x \in Bytes : x - req[s].iofrom + offset = x
      BY <1>2, <1>3, SMTT(40)
    <2> QED BY <1>4, <2>1 DEF IInv, ShapeInv
  <1>6. ShapeInv'
    BY <1>4 DEF Read, IInv, ShapeInv
  <1>7. Active(s)' /\ QuietFor(s)
    BY <1>2, <1>4, <1>5 DEF Read, IInv, ShapeInv, QuietFor, Same, Active, Idle
  <1>8. WorkInv(s)'
    BY <1>1, <1>2, <1>5 DEF IInv, SessionInv, WorkInv, StepsOf, CopySteps, Type, First, Last, cow
  <1>9. ReadInv(s)'
    <2>1. ASSUME NEW x \in Touched(s) PROVE disk[x] \in content[x]
      <3>1. Settled(x) /\ x \in Bytes
        BY <1>2, <1>3, Alone DEF Settled, Writes, Type
      <3> QED BY <1>2, <3>1 DEF IInv, ViewInv, View
    <2> QED BY <1>1, <1>2, <1>3, <1>5, <2>1 DEF ReadInv, Type, Touched
  <1>10. SessionInv(s)'
    BY <1>1, <1>2, <1>8, <1>9 DEF SessionInv, WriteInv, TrimInv, CopyInv, Type, cow
  <1> QED BY <1>2, <1>6, <1>7, <1>10, Quiet

-----------------------------------------------------------------------------
(* Steps that change the layers *)

\* A step that changes a layer or the marks: what remains to be shown.
LEMMA Together ==
  ASSUME TakeTurns, IInv, NEW s \in Sessions, cmd' = cmd,
         \A t \in Sessions \ {s} : Same(t) /\ (Active(t) => Undisturbed(t)),
         ShapeInv', SessionInv(s)', ApartInv', ViewInv', TopInv'
  PROVE  IInv'
  <1>1. ASSUME NEW t \in Sessions, t # s PROVE SessionInv(t)'
    BY <1>1, Kept
  <1> QED BY <1>1 DEF IInv

\* Who writes is covered by WRITEs as before.
LEMMA SameSettled ==
  ASSUME NEW s \in Sessions, \A t \in Sessions \ {s} : Same(t), req'[s] = req[s],
         (Active(s)' <=> Active(s)) \/ Type(s) # "WRITE",
         NEW x, Settled(x)'
  PROVE  Settled(x)
  <1> SUFFICES ASSUME NEW t \in Sessions, Active(t), Type(t) = "WRITE", x \in Touched(t) PROVE FALSE
    BY DEF Settled
  <1>1. Type(t)' = Type(t) /\ Touched(t)' = Touched(t) /\ Active(t)'
    BY DEF Same, Type, Touched, Active
  <1> QED BY <1>1 DEF Settled

\* A block is copied up: it is not marked yet, so nobody reads the copy,
LEMMA CopyStep ==
  ASSUME TakeTurns, IInv, NEW s \in Sessions, copy_block_to_top_layer(s) PROVE IInv'
  <1>1. /\ pc[s] = "copy"
        /\ UNCHANGED <<cmd, disk, offset, bm, num, req, index, found, word, buf, content, reply>>
    BY DEF copy_block_to_top_layer
  <1>2. Active(s) /\ cow /\ Type(s) \in {"WRITE", "TRIM"} /\ Writes(req[s])
    BY <1>1, StepType DEF Active, Idle, CopySteps, Writes, Type
  <1>3. index[s] = First(s) /\ First(s) <= Last(s) /\ First(s) \in Nat /\ Last(s) \in Nat
    <2>1. WorkInv(s)
      BY DEF IInv, SessionInv
    <2>2. pc[s] \in CopySteps \ {"bit_read", "bit_write"}
      BY <1>1 DEF CopySteps
    <2> QED BY <1>2, <2>1, <2>2, WorkBlocks DEF WorkInv
  <1>4. /\ copy[s] \subseteq {First(s), Last(s)} \ bm
        /\ \A x \in Bytes \ Touched(s) : BlockOf(x) \in First(s) .. Last(s) =>
             BlockOf(x) \in bm \/ BlockOf(x) \in copy[s] \/ top[x] = disk[x]
    <2>1. CopyInv(s)
      BY DEF IInv, SessionInv
    <2> QED BY <1>1, <1>2, <2>1 DEF CopyInv
  <1>5. CASE copy[s] = {}
    <2>1. pc' = [pc EXCEPT ![s] = "bit_read"] /\ UNCHANGED <<top, copy>>
      BY <1>5 DEF copy_block_to_top_layer, Goto
    <2>2. ShapeInv' /\ pc'[s] = "bit_read"
      BY <1>1, <2>1 DEF IInv, ShapeInv
    <2>3. CopyInv(s)'
      BY <1>1, <1>3, <1>4, <1>5, <2>1, <2>2, SMTT(40) DEF CopyInv, First, Last, Touched
    <2>4. SessionInv(s)' /\ Active(s)'
      BY <1>1, <1>2, <1>3, <2>2, <2>3, BeforeData, AtWork DEF CopySteps
    <2>5. QuietFor(s)
      BY <1>1, <1>2, <2>1 DEF QuietFor, Same, IInv, ShapeInv
    <2> QED BY <2>2, <2>4, <2>5, Quiet
  <1>6. CASE copy[s] # {}
    <2>1. PICK b \in copy[s] :
            /\ top' = [x \in Bytes |->
                 IF x \in BlockBytes(b) /\ b \notin bm THEN disk[x] ELSE top[x]]
            /\ copy' = [copy EXCEPT ![s] = @ \ {b}] /\ pc' = pc
      BY <1>6 DEF copy_block_to_top_layer
    <2>2. /\ top' = [x \in Bytes |-> IF x \in BlockBytes(b) /\ b \notin bm THEN disk[x] ELSE top[x]]
          /\ copy' = [copy EXCEPT ![s] = @ \ {b}] /\ pc' = pc
      BY <2>1
    <2>3. b \in Nat /\ b \notin bm
      BY <1>3, <1>4, <2>1
    <2>4. \A x \in Bytes : top'[x] = IF BlockOf(x) = b THEN disk[x] ELSE top[x]
      BY <2>2, <2>3, BytesOfBlock
    <2>5. copy'[s] = copy[s] \ {b} /\ pc'[s] = pc[s]
      BY <2>2 DEF IInv, ShapeInv
    <2>6. ShapeInv'
      BY <1>1, <2>2 DEF IInv, ShapeInv
    <2>7. CopyInv(s)'
      BY <1>1, <1>4, <2>4, <2>5 DEF CopyInv, First, Last, Touched
    <2>8. SessionInv(s)' /\ Active(s)'
      BY <1>1, <1>2, <1>3, <2>5, <2>7, BeforeData, AtWork DEF CopySteps
    <2>9. \A t \in Sessions \ {s} : Same(t)
      BY <1>1, <2>2 DEF Same, IInv, ShapeInv
    <2>10. ASSUME NEW t \in Sessions, t # s, Active(t) PROVE Undisturbed(t)
      <3>1. ~Writes(req[t]) /\ (Type(t) = "READ" => Touched(t) \subseteq Bytes)
        BY <1>2, <2>10, Alone, WorkBlocks
      <3> QED BY <1>1, <1>2, <2>3, <2>4, <3>1 DEF Undisturbed
    <2>11. ApartInv'
      BY <1>1, <1>2, <2>9, Apart
    <2>12. ViewInv'
      <3> SUFFICES ASSUME NEW x \in Bytes, Settled(x)' PROVE View(x)' \in content'[x]
        BY DEF ViewInv
      <3>1. View(x) \in content[x]
        BY <1>1, <1>2, <2>8, <2>9, SameSettled DEF IInv, ViewInv
      <3> QED BY <1>1, <2>3, <2>4, <3>1 DEF View, cow
    <2>13. TopInv'
      BY <1>1, <2>4 DEF IInv, TopInv, cow
    <2> QED BY <1>1, <2>6, <2>8, <2>9, <2>10, <2>11, <2>12, <2>13, Together
  <1> QED BY <1>5, <1>6

\* bitmap_on() writing the word back: no other worker changed it meanwhile,
LEMMA BitWriteStep ==
  ASSUME TakeTurns, IInv, NEW s \in Sessions, BitWrite(s) PROVE IInv'
  <1>1. /\ pc[s] = "bit_write"
        /\ NextBlock(s, IF Type(s) = "TRIM" THEN "punch" ELSE "data")
        /\ UNCHANGED <<cmd, disk, offset, top, num, req, copy, found, word, buf, content, reply>>
    BY DEF BitWrite, Type
  <1>2. Active(s) /\ cow /\ Type(s) \in {"WRITE", "TRIM"} /\ Writes(req[s])
    BY <1>1, StepType DEF Active, Idle, CopySteps, Writes, Type
  <1>3. /\ First(s) .. index[s] - 1 \subseteq bm /\ word[s] = bm
        /\ \A x \in Bytes \ Touched(s) : BlockOf(x) \in First(s) .. Last(s) =>
             BlockOf(x) \in bm \/ top[x] = disk[x]
    <2>1. CopyInv(s)
      BY DEF IInv, SessionInv
    <2> QED BY <1>1, <1>2, <2>1 DEF CopyInv
  <1>4. index[s] \in First(s) .. Last(s) /\ First(s) \in Nat /\ Last(s) \in Nat /\ index[s] \in Blocks
    BY <1>2, AtWork, WorkBlocks
  <1>5. bm' = bm \cup {index[s]}
    BY <1>3 DEF BitWrite
  <1>6. First(s) .. index[s] \subseteq bm'
    BY <1>3, <1>4, <1>5, SMTT(40)
  <1>7. \/ pc'[s] = "bit_read" /\ index'[s] = index[s] + 1
        \/ /\ pc'[s] = IF Type(s) = "TRIM" THEN "punch" ELSE "data"
           /\ index'[s] = First(s) /\ index[s] = Last(s)
    BY <1>1, <1>2, Round
  <1>8. ShapeInv'
    BY <1>1, <1>2, <1>4, <1>5, Round DEF IInv, ShapeInv
  <1>9. CopyInv(s)'
    <2>1. First(s)' = First(s) /\ Last(s)' = Last(s) /\ Touched(s)' = Touched(s)
      BY <1>1 DEF First, Last, Touched
    <2>2. CASE pc'[s] = "bit_read" /\ index'[s] = index[s] + 1
      <3>1. First(s) .. index'[s] - 1 \subseteq bm'
        BY <1>4, <1>6, <2>2, SMTT(40)
      <3> QED BY <1>1, <1>3, <1>5, <2>1, <2>2, <3>1 DEF CopyInv
    <2>3. CASE pc'[s] \in {"punch", "data"} /\ index[s] = Last(s)
      BY <1>6, <2>1, <2>3 DEF CopyInv
    <2> QED BY <1>7, <2>2, <2>3
  <1>10. SessionInv(s)' /\ Active(s)'
    <2>1. pc[s] \in CopySteps /\ pc'[s] \in CopySteps \cup {IF Type(s) = "TRIM" THEN "punch" ELSE "data"}
      BY <1>1, <1>7 DEF CopySteps
    <2>2. index'[s] \in First(s) .. Last(s)
      BY <1>1, <1>2, Round
    <2> QED BY <1>1, <1>7, <1>9, <2>1, <2>2, BeforeData
  <1>11. \A t \in Sessions \ {s} : Same(t)
    BY <1>1, <1>2, Round DEF Same, IInv, ShapeInv
  <1>12. ASSUME NEW t \in Sessions, t # s, Active(t) PROVE Undisturbed(t)
    <2>1. ~Writes(req[t])
      BY <1>2, <1>12, Alone
    <2> QED BY <1>1, <1>5, <2>1 DEF Undisturbed
  <1>13. ApartInv'
    BY <1>1, <1>2, <1>11, Apart
  <1>14. ViewInv'
    <2> SUFFICES ASSUME NEW x \in Bytes, Settled(x)' PROVE View(x)' \in content'[x]
      BY DEF ViewInv
    <2>1. Settled(x) /\ View(x) \in content[x]
      BY <1>1, <1>2, <1>10, <1>11, SameSettled DEF IInv, ViewInv
    <2>2. CASE BlockOf(x) \in bm \/ BlockOf(x) # index[s]
      BY <1>1, <1>5, <2>1, <2>2 DEF View, cow
    <2>3. CASE BlockOf(x) \notin bm /\ BlockOf(x) = index[s]
      <3>1. disk[x] \in content[x] /\ View(x)' = top[x]
        BY <1>1, <1>2, <1>5, <2>1, <2>3 DEF View, cow
      <3>2. CASE x \notin Touched(s)
        BY <1>1, <1>3, <1>4, <2>3, <3>1, <3>2
      <3>3. CASE x \in Touched(s)
        <4>1. Type(s) = "TRIM"
          BY <1>2, <2>1, <3>3 DEF Settled
        <4>2. Zero \in content[x]
          BY <1>2, <3>3, <4>1 DEF IInv, SessionInv, TrimInv
        <4>3. top[x] \in {Zero, disk[x]}
          BY <1>2, <2>3 DEF IInv, TopInv
        <4> QED BY <1>1, <3>1, <4>2, <4>3
      <3> QED BY <3>2, <3>3
    <2> QED BY <2>2, <2>3
  <1>15. TopInv'
    BY <1>1, <1>5 DEF IInv, TopInv, cow
  <1> QED BY <1>1, <1>8, <1>10, <1>11, <1>12, <1>13, <1>14, <1>15, Together

\* A step that writes to the bytes of a WRITE or TRIM disturbs nobody.
LEMMA WritesOwn ==
  ASSUME TakeTurns, IInv, NEW s \in Sessions, Active(s), Writes(req[s]),
         UNCHANGED <<cmd, offset, bm, content>>,
         cow => disk' = disk,
         \A x \in Bytes \ Touched(s) : disk'[x] = disk[x] /\ top'[x] = top[x],
         NEW t \in Sessions, t # s, Active(t)
  PROVE  Undisturbed(t)
  <1>1. \A x \in Touched(t) : x \notin Touched(s)
    BY Alone
  <1>2. cow => ~Writes(req[t])
    BY Alone
  <1>3. Type(t) # "FLUSH" => Touched(t) \subseteq Bytes
    BY WorkBlocks
  <1>4. Type(t) = "FLUSH" => Touched(t) = {}
    <2>1. req[t] \in Requests
      BY AtWork
    <2> QED BY <2>1, RequestsAssumption, SMTT(40) DEF Type, Touched, GoodRequest, RangeOf, ByteRange
  <1>5. \A x \in Touched(t) : disk'[x] = disk[x] /\ top'[x] = top[x]
    BY <1>1, <1>3, <1>4
  <1> QED BY <1>2, <1>5 DEF Undisturbed

\* data of the client for a block,
LEMMA RecvDataStep ==
  ASSUME TakeTurns, IInv, NEW s \in Sessions, RecvData(s) PROVE IInv'
  <1>1. /\ pc[s] = "data" /\ NextBlock(s, "reply")
        /\ UNCHANGED <<cmd, offset, bm, num, req, copy, found, word, buf, content, reply>>
    BY DEF RecvData
  <1>2. Active(s) /\ Type(s) = "WRITE" /\ Writes(req[s])
    BY <1>1, StepType DEF Active, Idle, Writes, Type
  <1>3. /\ First(s) \in Nat /\ Last(s) \in Nat /\ index[s] \in Nat /\ index[s] \in First(s) .. Last(s)
        /\ \A x \in Touched(s) : x \in Bytes /\ BlockOf(x) \in First(s) .. Last(s)
        /\ <<s, num[s]>> \in DiskValues
    BY <1>2, AtWork, WorkBlocks DEF DiskValues
  <1> DEFINE Hit(x) == x \in Touched(s) /\ BlockOf(x) = index[s]
  <1>4. /\ cow => /\ disk' = disk /\ top' \in [Bytes -> DiskValues]
                  /\ \A x \in Bytes : top'[x] = IF Hit(x) THEN <<s, num[s]>> ELSE top[x]
        /\ ~cow => /\ top' = top /\ disk' \in [Bytes -> DiskValues]
                   /\ \A x \in Bytes : disk'[x] = IF Hit(x) THEN <<s, num[s]>> ELSE disk[x]
    <2>1. \A x \in Bytes : x \in RangeOf(req[s]) \cap BlockBytes(index[s]) <=> Hit(x)
      BY <1>3, BytesOfBlock DEF Touched
    <2>2. disk \in [Bytes -> DiskValues] /\ top \in [Bytes -> DiskValues]
      BY DEF IInv, ShapeInv
    <2> HIDE DEF Hit
    <2>3. CASE cow
      BY <1>3, <2>1, <2>2, <2>3 DEF RecvData
    <2>4. CASE ~cow
      BY <1>3, <2>1, <2>2, <2>4 DEF RecvData
    <2> QED BY <2>3, <2>4
  <1>5. ShapeInv'
    BY <1>1, <1>2, <1>4, Round DEF IInv, ShapeInv
  <1>6. /\ Active(s)'
        /\ \/ pc'[s] = "reply" /\ index[s] = Last(s)
           \/ pc'[s] = "data" /\ index'[s] = index[s] + 1
    BY <1>1, <1>2, Round, SMTT(40) DEF Active, Idle
  <1>7. \A t \in Sessions \ {s} : Same(t)
    BY <1>1, <1>2, Round DEF Same, IInv, ShapeInv
  <1>8. Type(s)' = Type(s) /\ First(s)' = First(s) /\ Last(s)' = Last(s) /\ Touched(s)' = Touched(s)
        /\ (cow' <=> cow)
    BY <1>1 DEF Type, First, Last, Touched, cow
  <1>9. WorkInv(s)'
    <2>1. WorkInv(s) /\ index'[s] \in First(s) .. Last(s)
      BY <1>1, <1>2, Round DEF IInv, SessionInv
    <2> QED BY <1>1, <1>2, <1>6, <1>8, <2>1 DEF WorkInv, StepsOf, CopySteps
  <1>10. WriteInv(s)'
    <2>1. WriteInv(s)
      BY DEF IInv, SessionInv
    <2> SUFFICES ASSUME NEW x \in Touched(s), pc'[s] = "reply" \/ (pc'[s] = "data" /\ BlockOf(x) < index'[s])
                 PROVE  (IF cow' THEN top'[x] ELSE disk'[x]) = <<s, num[s]>>
      BY <1>1, <1>2, <1>8, <2>1 DEF WriteInv
    <2>2. BlockOf(x) = index[s] \/ BlockOf(x) < index[s]
      BY <1>3, <1>6, SMTT(40)
    <2>3. BlockOf(x) < index[s] => (IF cow THEN top[x] ELSE disk[x]) = <<s, num[s]>>
      BY <1>1, <1>2, <2>1 DEF WriteInv
    <2>4. CASE cow
      BY <1>3, <1>4, <1>8, <2>2, <2>3, <2>4
    <2>5. CASE ~cow
      BY <1>3, <1>4, <1>8, <2>2, <2>3, <2>5
    <2> QED BY <2>4, <2>5
  <1>11. CopyInv(s)'
    <2>1. CopyInv(s)
      BY DEF IInv, SessionInv
    <2> QED BY <1>1, <1>2, <1>6, <1>8, <2>1 DEF CopyInv
  <1>12. SessionInv(s)'
    BY <1>2, <1>8, <1>9, <1>10, <1>11 DEF SessionInv, ReadInv, TrimInv
  <1>13. \A x \in Bytes \ Touched(s) : disk'[x] = disk[x] /\ top'[x] = top[x]
    BY <1>4
  <1>14. ASSUME NEW t \in Sessions, t # s, Active(t) PROVE Undisturbed(t)
    BY <1>1, <1>2, <1>4, <1>13, <1>14, WritesOwn
  <1>15. ApartInv'
    BY <1>1, <1>2, <1>7, Apart
  <1>16. ViewInv'
    <2> SUFFICES ASSUME NEW x \in Bytes, Settled(x)' PROVE View(x)' \in content'[x]
      BY DEF ViewInv
    <2>1. Settled(x) /\ View(x) \in content[x]
      BY <1>1, <1>2, <1>6, <1>7, SameSettled DEF IInv, ViewInv
    <2>2. x \notin Touched(s)
      BY <1>2, <2>1 DEF Settled
    <2> QED BY <1>1, <1>8, <1>13, <2>1, <2>2 DEF View
  <1>17. TopInv'
    <2> SUFFICES ASSUME cow, NEW x \in Bytes, BlockOf(x) \notin bm PROVE top'[x] \in {Zero, disk'[x]}
      BY <1>1, <1>8 DEF TopInv
    <2>1. First(s) .. Last(s) \subseteq bm
      BY <1>1, <1>2 DEF IInv, SessionInv, CopyInv
    <2>2. x \notin Touched(s)
      BY <1>3, <2>1
    <2> QED BY <1>13, <2>2 DEF IInv, TopInv
  <1> QED BY <1>1, <1>5, <1>7, <1>12, <1>14, <1>15, <1>16, <1>17, Together

\* a TRIM,
LEMMA PunchHoleStep ==
  ASSUME TakeTurns, IInv, NEW s \in Sessions, PunchHole(s) PROVE IInv'
  <1>1. /\ pc[s] = "punch" /\ pc' = [pc EXCEPT ![s] = IF cow THEN "idle" ELSE "gone"]
        /\ UNCHANGED <<cmd, offset, bm, num, req, index, copy, found, word, buf, content, reply>>
    BY DEF PunchHole, Goto, workVars
  <1>2. Active(s) /\ Type(s) = "TRIM" /\ Writes(req[s]) /\ ~Active(s)'
    BY <1>1, StepType DEF Active, Idle, Writes, Type, IInv, ShapeInv
  <1>3. /\ disk' \in [Bytes -> DiskValues] /\ top' \in [Bytes -> DiskValues]
        /\ cow => disk' = disk
        /\ \A x \in Bytes \ Touched(s) : disk'[x] = disk[x] /\ top'[x] = top[x]
        /\ \A x \in Bytes : disk'[x] \in {Zero, disk[x]} /\ top'[x] \in {Zero, top[x]}
    <2>1. disk \in [Bytes -> DiskValues] /\ top \in [Bytes -> DiskValues] /\ Zero \in DiskValues
      BY DEF IInv, ShapeInv, DiskValues
    <2>2. CASE cow
      BY <2>1, <2>2 DEF PunchHole, Touched
    <2>3. CASE ~cow
      BY <2>1, <2>3 DEF PunchHole, Touched
    <2> QED BY <2>2, <2>3
  <1>4. ShapeInv'
    BY <1>1, <1>3 DEF IInv, ShapeInv
  <1>5. \A t \in Sessions \ {s} : Same(t)
    BY <1>1 DEF Same, IInv, ShapeInv
  <1>6. ASSUME NEW t \in Sessions, t # s, Active(t) PROVE Undisturbed(t)
    BY <1>1, <1>2, <1>3, <1>6, WritesOwn
  <1>7. ApartInv'
    BY <1>1, <1>2, <1>5, Apart
  <1>8. cow => \A x \in Touched(s) : BlockOf(x) \in bm
    <2>1. cow => First(s) .. Last(s) \subseteq bm
      BY <1>1, <1>2 DEF IInv, SessionInv, CopyInv
    <2> QED BY <1>2, <2>1, WorkBlocks
  <1>9. ViewInv'
    <2> SUFFICES ASSUME NEW x \in Bytes, Settled(x)' PROVE View(x)' \in content'[x]
      BY DEF ViewInv
    <2>1. View(x) \in content[x]
      BY <1>1, <1>2, <1>5, SameSettled DEF IInv, ViewInv
    <2>2. cow' <=> cow
      BY <1>1 DEF cow
    <2>3. CASE x \notin Touched(s)
      BY <1>1, <1>3, <2>1, <2>2, <2>3 DEF View
    <2>4. CASE x \in Touched(s)
      <3>1. Zero \in content[x]
        BY <1>2, <2>4 DEF IInv, SessionInv, TrimInv
      <3>2. View(x)' \in {Zero, View(x)}
        BY <1>1, <1>3, <2>2 DEF View
      <3> QED BY <1>1, <2>1, <3>1, <3>2
    <2> QED BY <2>3, <2>4
  <1>10. TopInv'
    <2> SUFFICES ASSUME cow, NEW x \in Bytes, BlockOf(x) \notin bm PROVE top'[x] \in {Zero, disk'[x]}
      BY <1>1 DEF TopInv, cow
    <2> QED BY <1>3, <1>8 DEF IInv, TopInv
  <1> QED BY <1>1, <1>2, <1>4, <1>5, <1>6, <1>7, <1>9, <1>10, IdleInv, Together

-----------------------------------------------------------------------------
(* Requests begin and fail *)

\* A request that fails leaves its own bytes undefined.
LEMMA Fails ==
  ASSUME TakeTurns, IInv, NEW s \in Sessions, Active(s), ~Active(s)', content' = Broken(s),
         UNCHANGED <<cmd, disk, top, bm, offset, req>>, \A t \in Sessions \ {s} : Same(t), ShapeInv'
  PROVE  IInv'
  <1>1. \A x \in Bytes : content'[x] = IF Type(s) = "WRITE" /\ x \in Touched(s) THEN DiskValues
                                       ELSE content[x]
    BY DEF Broken, Type, Touched
  <1>2. ASSUME NEW t \in Sessions, t # s, Active(t) PROVE Undisturbed(t)
    <2>1. \A x \in Touched(t) : x \in Bytes
      <3>1. CASE Type(t) = "FLUSH"
        <4>1. req[t] \in Requests
          BY <1>2, AtWork
        <4> QED BY <3>1, <4>1, RequestsAssumption, SMTT(40) DEF Type, Touched, GoodRequest, RangeOf, ByteRange
      <3> QED BY <1>2, <3>1, WorkBlocks
    <2>2. Type(s) = "WRITE" => \A x \in Touched(t) : x \notin Touched(s)
      BY <1>2, Alone DEF Writes, Type
    <2> QED BY <1>1, <2>1, <2>2 DEF Undisturbed
  <1>3. ApartInv'
    BY Apart
  <1>4. ViewInv'
    <2> SUFFICES ASSUME NEW x \in Bytes, Settled(x)' PROVE View(x)' \in content'[x]
      BY DEF ViewInv
    <2>1. View(x)' = View(x)
      BY DEF View, cow
    <2>2. CASE Type(s) = "WRITE" /\ x \in Touched(s)
      BY <1>1, <2>1, <2>2 DEF IInv, ShapeInv, View
    <2>3. CASE ~(Type(s) = "WRITE" /\ x \in Touched(s))
      <3>1. Settled(x)
        <4> SUFFICES ASSUME NEW t \in Sessions, Active(t), Type(t) = "WRITE", x \in Touched(t) PROVE FALSE
          BY DEF Settled
        <4>1. t # s
          BY <2>3
        <4>2. Active(t)' /\ Type(t)' = Type(t) /\ Touched(t)' = Touched(t)
          BY <4>1 DEF Same, Active, Type, Touched
        <4> QED BY <4>2 DEF Settled
      <3> QED BY <1>1, <2>1, <2>3, <3>1 DEF IInv, ViewInv
    <2> QED BY <2>2, <2>3
  <1>5. TopInv'
    BY DEF IInv, TopInv, cow
  <1> QED BY <1>2, <1>3, <1>4, <1>5, IdleInv, Together

\* What a WRITE that failed leaves is a value of the disk.
LEMMA BrokenType ==
  ASSUME IInv, NEW s PROVE Broken(s) \in [Bytes -> SUBSET DiskValues]
  BY DEF IInv, ShapeInv, Broken

\* the end of a worker in the middle of a request,
LEMMA DieStep ==
  ASSUME TakeTurns, IInv, NEW s \in Sessions, Die(s) PROVE IInv'
  <1>1. ShapeInv'
    BY BrokenType DEF Die, Goto, layerVars, workVars, IInv, ShapeInv
  <1>2. Active(s) /\ ~Active(s)' /\ \A t \in Sessions \ {s} : Same(t)
    BY DEF Die, Goto, workVars, IInv, ShapeInv, Same, Active, Idle
  <1> QED BY <1>1, <1>2, Fails DEF Die, layerVars

\* an access that fails,
LEMMA IoErrorStep ==
  ASSUME TakeTurns, IInv, NEW s \in Sessions, IoError(s) PROVE IInv'
  <1>1. ShapeInv'
    BY BrokenType DEF IoError, Goto, layerVars, workVars, IInv, ShapeInv
  <1>2. Active(s) /\ ~Active(s)' /\ \A t \in Sessions \ {s} : Same(t)
    BY DEF IoError, Goto, workVars, IInv, ShapeInv, Same, Active, Idle
  <1> QED BY <1>1, <1>2, Fails DEF IoError, layerVars

\* and a request that is accepted: it is compatible with those under way.
LEMMA ReceiveStep ==
  ASSUME TakeTurns, IInv, NEW s \in Sessions, NEW r \in Requests, Receive(s, r) PROVE IInv'
  <1>1. /\ ~Active(s) /\ <<cmd, r.iotype>> \in Sends
        /\ num'[s] = num[s] + 1 /\ num'[s] \in 1 .. MaxReq /\ req'[s] = r
        /\ index'[s] = FirstBlock(r) /\ found'[s] = {} /\ buf'[s] = NoData /\ pc'[s] = FirstStep(r)
        /\ UNCHANGED <<cmd, disk, offset, top, bm>>
    BY MaxReqAssumption, SMTT(40) DEF Receive, Goto, layerVars, IInv, ShapeInv, Active, Idle
  <1>2. \A t \in Sessions \ {s} : Same(t)
    BY DEF Receive, Goto, Same, IInv, ShapeInv
  <1>3. /\ r.iotype \in {"READ", "WRITE", "TRIM", "FLUSH"}
        /\ cow => r.iotype # "FLUSH"
    BY <1>1 DEF TakeTurns, cow
  <1>4. CASE FirstStep(r) = "gone"
    <2>1. ~Active(s)'
      BY <1>1, <1>4 DEF Active, Idle
    <2>2. content' = content
      BY <1>4 DEF Receive
    <2>3. ShapeInv'
      BY <1>1, <2>2, MaxReqAssumption, SMTT(40) DEF Receive, Goto, layerVars, IInv, ShapeInv
    <2>4. QuietFor(s)
      BY <1>1, <1>2, <2>1, <2>2 DEF QuietFor
    <2> QED BY <1>1, <2>1, <2>3, <2>4, IdleInv, Quiet
  <1>5. CASE FirstStep(r) # "gone"
    <2>1. FirstStep(r) = IF cow THEN IF r.iotype = "READ" THEN "lookup" ELSE "test_sta"
                         ELSE IF r.iotype = "READ" THEN "lseek" ELSE IF r.iotype = "WRITE" THEN "data"
                         ELSE IF r.iotype = "FLUSH" THEN "reply" ELSE "punch"
      BY <1>3, <1>5 DEF FirstStep
    <2>2. Active(s)'
      BY <1>1, <2>1 DEF Active, Idle
    <2>3. content' = Apply(content, r, <<s, num'[s]>>)
      BY <1>1, <1>5 DEF Receive
    <2>4. \A x \in Bytes :
            /\ x \notin RangeOf(r) \/ ~Writes(r) => content'[x] = content[x]
            /\ x \in RangeOf(r) /\ r.iotype = "WRITE" => content'[x] = {<<s, num'[s]>>}
            /\ x \in RangeOf(r) /\ r.iotype = "TRIM" => content'[x] = content[x] \cup {Zero}
      BY <2>3 DEF Apply, Writes
    <2>5. content' \in [Bytes -> SUBSET DiskValues]
      <3>1. <<s, num'[s]>> \in DiskValues /\ Zero \in DiskValues
        BY <1>1 DEF DiskValues
      <3>2. DOMAIN content' = Bytes /\ content' = [x \in Bytes |-> content'[x]]
        BY <2>3 DEF Apply
      <3>3. \A x \in Bytes : content'[x] \subseteq DiskValues
        <4> SUFFICES ASSUME NEW x \in Bytes PROVE content'[x] \subseteq DiskValues
          OBVIOUS
        <4>1. content[x] \subseteq DiskValues
          BY DEF IInv, ShapeInv
        <4>2. CASE x \notin RangeOf(r) \/ ~Writes(r)
          BY <2>4, <4>1, <4>2
        <4>3. CASE x \in RangeOf(r) /\ r.iotype = "WRITE"
          BY <2>4, <3>1, <4>3
        <4>4. CASE x \in RangeOf(r) /\ r.iotype = "TRIM"
          BY <2>4, <3>1, <4>1, <4>4
        <4> QED BY <4>2, <4>3, <4>4 DEF Writes
      <3> QED BY <3>2, <3>3
    <2>6. ShapeInv'
      BY <1>1, <2>5, MaxReqAssumption, SMTT(40) DEF Receive, Goto, layerVars, IInv, ShapeInv
    <2>7. /\ Type(s)' = r.iotype /\ First(s)' = FirstBlock(r) /\ Last(s)' = LastBlock(r)
          /\ Touched(s)' = RangeOf(r) /\ (cow' <=> cow)
      BY <1>1 DEF Type, First, Last, Touched, cow
    <2>8. r.iotype # "FLUSH" =>
            /\ FirstBlock(r) \in Nat /\ LastBlock(r) \in Nat /\ FirstBlock(r) \in FirstBlock(r) .. LastBlock(r)
            /\ RangeOf(r) \subseteq Bytes
            /\ \A x \in RangeOf(r) : ~(BlockOf(x) < FirstBlock(r))
      BY RequestBlocks, SMTT(40)
    <2>9. WorkInv(s)'
      BY <1>1, <1>3, <2>1, <2>7, <2>8, SMTT(40) DEF WorkInv, StepsOf, CopySteps
    <2>10. ReadInv(s)'
      BY <1>1, <2>1, <2>7, <2>8 DEF ReadInv, NoData
    <2>11. WriteInv(s)' /\ TrimInv(s)'
      <3>1. r.iotype = "WRITE" => FirstStep(r) # "reply"
        BY <1>3, <2>1
      <3>2. WriteInv(s)'
        BY <1>1, <2>4, <2>7, <2>8, <3>1 DEF WriteInv
      <3>3. TrimInv(s)'
        BY <2>4, <2>7, <2>8 DEF TrimInv
      <3> QED BY <3>2, <3>3
    <2>12. CopyInv(s)'
      BY <1>1, <1>3, <2>1, <2>7 DEF CopyInv
    <2>13. SessionInv(s)'
      BY <2>9, <2>10, <2>11, <2>12 DEF SessionInv
    <2>14. ASSUME NEW t \in Sessions, t # s, Active(t)
           PROVE  Undisturbed(t) /\ Compatible(r, req[t])
      <3>1. Compatible(r, req[t])
        BY <2>14 DEF Receive, Active
      <3>2. Writes(r) => \A x \in Touched(t) : x \notin RangeOf(r)
        BY <3>1 DEF Compatible, Touched
      <3>3. \A x \in Touched(t) : x \in Bytes
        <4>1. CASE Type(t) = "FLUSH"
          <5>1. req[t] \in Requests
            BY <2>14, AtWork
          <5> QED BY <4>1, <5>1, RequestsAssumption, SMTT(40) DEF Type, Touched, GoodRequest, RangeOf, ByteRange
        <4> QED BY <2>14, <4>1, WorkBlocks
      <3>4. \A x \in Touched(t) : content'[x] = content[x]
        BY <2>4, <3>2, <3>3
      <3> QED BY <1>1, <3>1, <3>4 DEF Undisturbed
    <2>15. ApartInv'
      <3> SUFFICES ASSUME NEW p \in Sessions, NEW q \in Sessions, p # q, Active(p)', Active(q)'
                   PROVE  Compatible(req[p], req[q])'
        BY DEF ApartInv
      <3>1. ASSUME NEW t \in Sessions, t # s, Active(t)' PROVE Active(t) /\ req'[t] = req[t]
        BY <1>2, <3>1 DEF Same, Active
      <3>2. CASE p # s /\ q # s
        <4>1. Compatible(req[p], req[q])
          BY <3>1, <3>2 DEF IInv, ApartInv
        <4> QED BY <1>1, <3>1, <3>2, <4>1 DEF Compatible, cow
      <3>3. CASE p = s
        BY <1>1, <2>14, <3>1, <3>3 DEF Compatible, cow
      <3>4. CASE q = s
        BY <1>1, <2>14, <3>1, <3>4 DEF Compatible, cow
      <3> QED BY <3>2, <3>3, <3>4
    <2>16. ViewInv'
      <3> SUFFICES ASSUME NEW x \in Bytes, Settled(x)' PROVE View(x)' \in content'[x]
        BY DEF ViewInv
      <3>1. Settled(x)
        <4> SUFFICES ASSUME NEW t \in Sessions, Active(t), Type(t) = "WRITE", x \in Touched(t) PROVE FALSE
          BY DEF Settled
        <4>1. t # s
          BY <1>1
        <4>2. Active(t)' /\ Type(t)' = Type(t) /\ Touched(t)' = Touched(t)
          BY <1>2, <4>1 DEF Same, Active, Type, Touched
        <4> QED BY <4>2 DEF Settled
      <3>2. ~(r.iotype = "WRITE" /\ x \in RangeOf(r))
        BY <2>2, <2>7 DEF Settled
      <3>3. View(x)' = View(x) /\ View(x) \in content[x]
        BY <1>1, <3>1 DEF IInv, ViewInv, View, cow
      <3>4. content[x] \subseteq content'[x]
        BY <2>4, <3>2 DEF Writes
      <3> QED BY <3>3, <3>4
    <2>17. TopInv'
      BY <1>1 DEF IInv, TopInv, cow
    <2> QED BY <1>1, <1>2, <2>6, <2>13, <2>14, <2>15, <2>16, <2>17, Together
  <1> QED BY <1>4, <1>5

-----------------------------------------------------------------------------
(* The invariant holds *)

\* The image is what the clients expect before the first request.
LEMMA InitInv == Init => IInv
  <1> SUFFICES ASSUME Init PROVE IInv
    OBVIOUS
  <1>1. \A s \in Sessions : ~Active(s)
    BY DEF Init, Active, Idle
  <1>2. ShapeInv
    <2>1. cmd \in {"target", "cow_target"} /\ bm \subseteq Blocks
      BY CmdsAssumption DEF Init
    <2>2. \A x \in Bytes : Image(x) \in DiskValues /\ Zero \in DiskValues
      BY DEF DiskValues
    <2>3. disk \in [Bytes -> DiskValues] /\ top \in [Bytes -> DiskValues] /\ content \in [Bytes -> SUBSET DiskValues]
      BY <2>2 DEF Init
    <2> QED BY <2>1, <2>3, MaxReqAssumption, SMTT(40) DEF Init, ShapeInv
  <1>3. ApartInv /\ \A s \in Sessions : SessionInv(s)
    BY <1>1 DEF ApartInv, SessionInv, WorkInv, ReadInv, WriteInv, TrimInv, CopyInv
  <1>4. ViewInv /\ TopInv
    BY DEF Init, ViewInv, TopInv, View
  <1> QED BY <1>2, <1>3, <1>4 DEF IInv

\* Stuttering keeps the invariant.
LEMMA SameInv == IInv /\ UNCHANGED vars => IInv'
  <1> SUFFICES ASSUME IInv, UNCHANGED vars PROVE IInv'
    OBVIOUS
  <1>1. ShapeInv' /\ TopInv'
    BY DEF vars, layerVars, workVars, IInv, ShapeInv, TopInv, cow
  <1>2. ApartInv'
    BY DEF vars, layerVars, workVars, IInv, ApartInv, Active, Compatible, cow
  <1>3. ViewInv'
    BY DEF vars, layerVars, workVars, IInv, ViewInv, View, Settled, Active, Type, Touched, cow
  <1>4. ASSUME NEW s \in Sessions PROVE SessionInv(s)'
    BY SMTT(40) DEF vars, layerVars, workVars, IInv, SessionInv, WorkInv, ReadInv, WriteInv, TrimInv, CopyInv,
           Active, Type, First, Last, Touched, StepsOf, cow
  <1> QED BY <1>1, <1>2, <1>3, <1>4 DEF IInv

\* Every step of a worker keeps it.
LEMMA StepInv == TakeTurns /\ IInv /\ [Next]_vars => IInv'
  <1> SUFFICES ASSUME TakeTurns, IInv, [Next]_vars PROVE IInv'
    OBVIOUS
  <1>1. CASE UNCHANGED vars
    BY <1>1, SameInv
  <1>2. ASSUME NEW s \in Sessions, Worker(s) PROVE IInv'
    <2>1. ASSUME NEW r \in Requests, Receive(s, r) PROVE IInv'
      BY <2>1, ReceiveStep
    <2>2. ASSUME NEW iotype, BadRequest(s, iotype) PROVE IInv'
      BY <2>2, BadRequestStep
    <2>3. CASE Terminate(s) \/ Reply(s) \/ Die(s) \/ IoError(s)
      BY <2>3, TerminateStep, ReplyStep, DieStep, IoErrorStep
    <2>4. CASE Lseek(s) \/ Read(s) \/ Lookup(s) \/ Send(s)
      BY <2>4, LseekStep, ReadStep, LookupStep, SendStep
    <2>5. CASE TestSta(s) \/ TestEnd(s) \/ copy_block_to_top_layer(s) \/ BitRead(s) \/ BitWrite(s)
      BY <2>5, TestStaStep, TestEndStep, CopyStep, BitReadStep, BitWriteStep
    <2>6. CASE RecvData(s) \/ PunchHole(s)
      BY <2>6, RecvDataStep, PunchHoleStep
    <2> QED BY <1>2, <2>1, <2>2, <2>3, <2>4, <2>5, <2>6 DEF Worker
  <1> QED BY <1>1, <1>2 DEF Next, Over

\* The invariant holds in every behaviour of clients that take turns.
LEMMA Invariant == TakeTurns => (Spec => []IInv)
  <1> SUFFICES ASSUME TakeTurns PROVE Spec => []IInv
    OBVIOUS
  <1>1. IInv /\ [Next]_vars => IInv'
    BY StepInv
  <1> QED BY <1>1, InitInv, PTL DEF Spec

\* Between any two accesses of the workers the layers hold, for every byte that
\* nobody is writing, what clients wrote last: a block that was marked in the
\* bitmap before its data came had been copied where it had to be.
THEOREM ViewsCurrent == TakeTurns => (Spec => []ViewCurrent)
  <1> SUFFICES ASSUME TakeTurns PROVE Spec => []ViewCurrent
    OBVIOUS
  <1>1. IInv => ViewCurrent
    <2> SUFFICES ASSUME IInv, NEW x \in Bytes, x \notin Unsettled PROVE View(x) \in content[x]
      BY DEF ViewCurrent
    <2>1. Settled(x)
      BY DEF Unsettled, Settled, Active, Type, Touched, Writes
    <2> QED BY <2>1 DEF IInv, ViewInv
  <1> QED BY <1>1, Invariant, PTL

-----------------------------------------------------------------------------
(* The promise of DiskService *)

\* The mapped queue is a function on the sessions.
LEMMA PendingForm ==
  /\ Pending = [t \in Sessions |-> Pending[t]]
  /\ Pending' = [t \in Sessions |-> Pending'[t]]
  BY DEF Pending

\* A queue of the one request that a worker is at.
Accepted(n, r, c) == <<[num |-> n, req |-> r, may |-> MayReturn(c, r)]>>

\* It holds the request that the worker is at.
LEMMA PendingOf ==
  ASSUME NEW s \in Sessions
  PROVE  /\ pc[s] \in Idle => Pending[s] = <<>>
         /\ pc[s] \notin Idle => Pending[s] = Accepted(num[s], req[s], content)
         /\ pc'[s] \in Idle => Pending'[s] = <<>>
         /\ pc'[s] \notin Idle => Pending'[s] = Accepted(num'[s], req'[s], content')
  BY DEF Pending, Accepted

\* Other sessions have the same request pending, with the same data to return.
LEMMA OthersPending ==
  ASSUME NEW s \in Sessions, \A t \in Sessions \ {s} : Same(t),
         \A t \in Sessions \ {s} : Active(t) => \A x \in Bytes \cap Touched(t) : content'[x] = content[x]
  PROVE  Pending' = [Pending EXCEPT ![s] = Pending'[s]]
  <1>1. ASSUME NEW t \in Sessions, t # s PROVE Pending'[t] = Pending[t]
    <2>1. Active(t)' <=> Active(t)
      BY <1>1 DEF Active, Same
    <2>2. Active(t) => Accepted(num'[t], req'[t], content') = Accepted(num[t], req[t], content)
      <3> SUFFICES ASSUME Active(t)
                   PROVE  Accepted(num'[t], req'[t], content') = Accepted(num[t], req[t], content)
        OBVIOUS
      <3>1. MayReturn(content', req'[t]) = MayReturn(content, req[t])
        BY <1>1, SMTT(40) DEF MayReturn, Same, Touched
      <3> QED BY <1>1, <3>1 DEF Accepted, Same
    <2>3. CASE Active(t)
      BY <1>1, <2>1, <2>2, <2>3, PendingOf DEF Same, Active
    <2>4. CASE ~Active(t)
      BY <2>1, <2>4, PendingOf DEF Active
    <2> QED BY <2>3, <2>4
  <1> QED BY <1>1, PendingForm

\* A step within a request is none of DiskService.
LEMMA Within ==
  ASSUME NEW s \in Sessions, \A t \in Sessions \ {s} : Same(t), Active(s)' <=> Active(s),
         Active(s) => num'[s] = num[s] /\ req'[s] = req[s], UNCHANGED <<content, reply>>
  PROVE  UNCHANGED Service!vars
  <1>1. Pending' = [Pending EXCEPT ![s] = Pending'[s]]
    BY OthersPending
  <1>2. Pending'[s] = Pending[s]
    <2>1. CASE Active(s)
      BY <2>1, PendingOf DEF Active
    <2>2. CASE ~Active(s)
      BY <2>2, PendingOf DEF Active
    <2> QED BY <2>1, <2>2
  <1>3. Pending' = Pending
    BY <1>1, <1>2, PendingForm
  <1> QED BY <1>3 DEF Service!vars

\* Init maps to the initial state of DiskService.
LEMMA MapsInit == Init => Service!Init
  BY DEF Init, Service!Init, Service!FirstReply, Service!NoData, NoData, Pending, Idle,
         Service!Image, Image, Service!Bytes, Bytes, Service!Empty, Empty

\* DiskService has the same operators.
LEMMA SameOperators ==
  ASSUME NEW c, NEW r, NEW v
  PROVE  /\ Service!Apply(c, r, v) = Apply(c, r, v)
         /\ Service!MayReturn(c, r) = MayReturn(c, r)
         /\ Service!NoData = NoData /\ Service!Bytes = Bytes
         /\ Service!DiskValues = DiskValues /\ Service!RangeOf(r) = RangeOf(r)
  <1>1. Service!Bytes = Bytes /\ Service!RangeOf(r) = RangeOf(r)
    BY DEF Service!Bytes, Bytes, Service!RangeOf, RangeOf, Service!ByteRange, ByteRange
  <1>2. Service!Zero = Zero /\ Service!Empty = Empty
    BY DEF Service!Zero, Zero, Service!Empty, Empty
  <1>3. Service!DiskValues = DiskValues
    BY <1>1, <1>2 DEF Service!DiskValues, DiskValues, Service!Image, Image
  <1>4. Service!NoData = NoData
    BY <1>1, <1>2 DEF Service!NoData, NoData
  <1>5. Service!Apply(c, r, v) = Apply(c, r, v)
    BY <1>1, <1>2, Zenon DEF Service!Apply, Apply
  <1>6. Service!MayReturn(c, r) = MayReturn(c, r)
    BY <1>1, <1>2, Zenon DEF Service!MayReturn, MayReturn
  <1> QED BY <1>1, <1>3, <1>4, <1>5, <1>6

\* A request that is accepted maps to Accept,
LEMMA MapsAccept ==
  ASSUME TakeTurns, IInv, NEW s \in Sessions, NEW r \in Requests, Receive(s, r), FirstStep(r) # "gone"
  PROVE  Service!Accept(s)
  <1>1. /\ pc[s] \in Idle /\ pc'[s] = FirstStep(r) /\ req'[s] = r
        /\ num'[s] = num[s] + 1 /\ num'[s] \in 1 .. MaxReq /\ reply' = reply
        /\ content' = Apply(content, r, <<s, num'[s]>>)
    <2>1. /\ pc[s] \in Idle /\ pc' = [pc EXCEPT ![s] = FirstStep(r)] /\ reply' = reply
          /\ num[s] < MaxReq /\ num' = [num EXCEPT ![s] = num[s] + 1]
          /\ req' = [req EXCEPT ![s] = r]
          /\ content' = Apply(content, r, <<s, num[s] + 1>>)
      BY DEF Receive, Goto, Idle
    <2>2. DOMAIN pc = Sessions /\ DOMAIN req = Sessions /\ num \in [Sessions -> 0 .. MaxReq]
      BY DEF IInv, ShapeInv
    <2>3. pc'[s] = FirstStep(r) /\ req'[s] = r /\ num'[s] = num[s] + 1
      BY <2>1, <2>2
    <2>4. num[s] + 1 \in 1 .. MaxReq
      BY <2>1, <2>2, NextNum
    <2> QED BY <2>1, <2>3, <2>4
  <1>2. \A t \in Sessions \ {s} : Same(t)
    BY DEF Receive, Goto, Same, IInv, ShapeInv
  <1>3. pc'[s] \notin Idle
    <2>1. r.iotype \in {"READ", "WRITE", "TRIM", "FLUSH"}
      BY DEF Receive, TakeTurns
    <2> QED BY <1>1, <2>1 DEF FirstStep, Idle
  <1>4. ASSUME NEW t \in Sessions \ {s}, Active(t), NEW x \in Bytes \cap Touched(t)
        PROVE  content'[x] = content[x]
    <2>1. Compatible(r, req[t])
      BY <1>4 DEF Receive, Active
    <2>2. Writes(r) => x \notin RangeOf(r)
      BY <1>4, <2>1 DEF Compatible, Touched
    <2> QED BY <1>1, <1>4, <2>2 DEF Apply, Writes
  <1>5. Pending' = [Pending EXCEPT ![s] = Pending'[s]]
    BY <1>2, <1>4, OthersPending
  <1>6. MayReturn(content', r) = MayReturn(content, r)
    BY <1>1 DEF MayReturn, Apply
  <1>7. Pending[s] = <<>> /\ Pending'[s] = <<[num |-> num'[s], req |-> r, may |-> MayReturn(content, r)]>>
    <2>1. Pending[s] = <<>> /\ Pending'[s] = Accepted(num'[s], r, content')
      BY <1>1, <1>3, PendingOf
    <2> QED BY <1>6, <2>1 DEF Accepted
  <1>8. /\ content' = Service!Apply(content, r, <<s, num'[s]>>)
        /\ Pending' = [Pending EXCEPT ![s] =
             <<[num |-> num'[s], req |-> r, may |-> Service!MayReturn(content, r)]>>]
    <2>1. /\ Service!Apply(content, r, <<s, num'[s]>>) = Apply(content, r, <<s, num'[s]>>)
          /\ Service!MayReturn(content, r) = MayReturn(content, r)
      BY SameOperators
    <2> QED BY <1>1, <1>5, <1>7, <2>1
  <1>9. \E n \in 1 .. MaxReq, q \in Requests :
          /\ content' = Service!Apply(content, q, <<s, n>>)
          /\ Pending' = [Pending EXCEPT ![s] =
               <<[num |-> n, req |-> q, may |-> Service!MayReturn(content, q)]>>]
    BY <1>1, <1>8, Zenon
  <1> QED BY <1>1, <1>7, <1>9, Zenon DEF Service!Accept

\* the reply to Reply,
LEMMA MapsReply ==
  ASSUME TakeTurns, IInv, NEW s \in Sessions, Reply(s) PROVE Service!Reply(s)
  <1>1. /\ pc[s] = "reply" /\ pc[s] \notin Idle /\ pc'[s] \in Idle /\ content' = content
        /\ reply' = [reply EXCEPT ![s] = [num |-> num[s], error |-> FALSE, data |-> buf[s]]]
        /\ \A t \in Sessions \ {s} : Same(t)
    BY DEF Reply, Goto, workVars, IInv, ShapeInv, Idle, Same
  <1>2. reply'[s] = [num |-> num[s], error |-> FALSE, data |-> buf[s]]
    BY <1>1 DEF IInv, ShapeInv
  <1>3. reply'[s].num = num[s] /\ reply'[s].error = FALSE /\ reply'[s].data = buf[s]
    BY <1>2, OneReply
  <1>4. ASSUME NEW x \in Bytes PROVE buf[s][x] \in MayReturn(content, req[s])[x]
    <2>1. WorkInv(s) /\ ReadInv(s) /\ Active(s)
      BY <1>1 DEF IInv, SessionInv, Active
    <2>2. CASE Type(s) = "READ"
      BY <1>1, <2>1, <2>2 DEF ReadInv, MayReturn, Type, Touched
    <2>3. CASE Type(s) # "READ"
      BY <2>1, <2>3 DEF WorkInv, MayReturn, NoData, Type
    <2> QED BY <2>2, <2>3
  <1>5. /\ Pending[s] # <<>> /\ Head(Pending[s]).num = num[s]
        /\ Head(Pending[s]).may = MayReturn(content, req[s])
    BY <1>1, HeadPending DEF Active
  <1>6. Pending' = [Pending EXCEPT ![s] = <<>>]
    <2>1. Pending'[s] = <<>>
      BY <1>1, PendingOf
    <2> QED BY <1>1, <2>1, OthersPending
  <1>7. reply'[s].num = Head(Pending[s]).num /\ ~reply'[s].error
    BY <1>3, <1>5
  <1>8. \A x \in Service!Bytes : reply'[s].data[x] \in Head(Pending[s]).may[x]
    <2>1. Service!Bytes = Bytes
      BY SameOperators
    <2> QED BY <1>3, <1>4, <1>5, <2>1
  <1>9. reply' = [reply EXCEPT ![s] = reply'[s]]
    BY <1>1, <1>2, Zenon
  <1> QED BY <1>1, <1>5, <1>6, <1>7, <1>8, <1>9, Zenon DEF Service!Reply

\* the end of a request by a failure to Fail,
LEMMA MapsFail ==
  ASSUME TakeTurns, IInv, NEW s \in Sessions, Active(s), ~Active(s)', content' = Broken(s),
         \A t \in Sessions \ {s} : Same(t),
         \/ reply' = [reply EXCEPT ![s] = [num |-> num[s], error |-> TRUE, data |-> NoData]]
         \/ reply' = reply
  PROVE  Service!Fail(s)
  <1>1. ASSUME NEW t \in Sessions \ {s}, Active(t), NEW x \in Bytes \cap Touched(t)
        PROVE  content'[x] = content[x]
    <2>1. Type(s) = "WRITE" => x \notin Touched(s)
      BY <1>1, Alone DEF Writes, Type
    <2> QED BY <1>1, <2>1 DEF Broken, Type, Touched
  <1>2. Pending' = [Pending EXCEPT ![s] = <<>>]
    <2>1. Pending'[s] = <<>>
      BY PendingOf DEF Active
    <2> QED BY <1>1, <2>1, OthersPending
  <1>3. Pending[s] # <<>> /\ Head(Pending[s]).num = num[s] /\ Head(Pending[s]).req = req[s]
    BY HeadPending
  <1>4. content' = Service!Undefined(content, req[s])
    BY SameOperators, Zenon DEF Broken, Service!Undefined
  <1> QED BY <1>2, <1>3, <1>4, SameOperators DEF Service!Fail

\* and a refused one to Refuse.
LEMMA MapsRefuse ==
  ASSUME IInv, NEW s \in Sessions, NEW iotype, BadRequest(s, iotype) PROVE Service!Refuse(s)
  <1>1. /\ ~Active(s) /\ ~Active(s)' /\ content' = content /\ num[s] + 1 \in 1 .. MaxReq
        /\ reply' = [reply EXCEPT ![s] = [num |-> num[s] + 1, error |-> TRUE, data |-> NoData]]
        /\ \A t \in Sessions \ {s} : Same(t)
    <2>1. /\ pc[s] = "idle" /\ num[s] < MaxReq /\ content' = content
          /\ reply' = [reply EXCEPT ![s] = [num |-> num[s] + 1, error |-> TRUE, data |-> NoData]]
          /\ pc' = [pc EXCEPT ![s] = IF iotype = "WRITE" THEN "desync" ELSE "idle"]
      BY DEF BadRequest, Goto
    <2>2. DOMAIN pc = Sessions /\ num \in [Sessions -> 0 .. MaxReq]
      BY DEF IInv, ShapeInv
    <2>3. pc'[s] \in {"idle", "desync"}
      BY <2>1, <2>2
    <2>4. num[s] + 1 \in 1 .. MaxReq
      BY <2>1, <2>2, NextNum
    <2>5. \A t \in Sessions \ {s} : Same(t)
      BY DEF BadRequest, Goto, workVars, IInv, ShapeInv, Same
    <2> QED BY <2>1, <2>3, <2>4, <2>5 DEF Active, Idle
  <1>2. Pending[s] = <<>> /\ Pending'[s] = <<>>
    BY <1>1, PendingOf DEF Active
  <1>3. Pending' = Pending
    <2>1. Pending' = [Pending EXCEPT ![s] = Pending'[s]]
      BY <1>1, OthersPending
    <2> QED BY <1>2, <2>1, PendingForm
  <1>4. \E n \in 1 .. MaxReq :
          reply' = [reply EXCEPT ![s] = [num |-> n, error |-> TRUE, data |-> Service!NoData]]
    <2>1. Service!NoData = NoData
      BY SameOperators
    <2> QED BY <1>1, <2>1, Zenon
  <1> QED BY <1>1, <1>2, <1>3, <1>4, Zenon DEF Service!Refuse

\* Every step maps to one of DiskService, or to none.
LEMMA MapsStep ==
  TakeTurns /\ IInv /\ [Next]_vars => Service!Next \/ UNCHANGED Service!vars
  <1> SUFFICES ASSUME TakeTurns, IInv, [Next]_vars PROVE Service!Next \/ UNCHANGED Service!vars
    OBVIOUS
  <1>1. CASE UNCHANGED vars
    BY <1>1 DEF vars, workVars, Service!vars, Pending
  <1>2. ASSUME NEW s \in Sessions, Worker(s) PROVE Service!Next \/ UNCHANGED Service!vars
    <2> USE DEF IInv, ShapeInv
    <2>1. CASE \E r \in Requests : Receive(s, r)
      <3> PICK r \in Requests : Receive(s, r)
        BY <2>1
      <3>1. CASE FirstStep(r) # "gone"
        BY <3>1, MapsAccept DEF Service!Next
      <3>2. CASE FirstStep(r) = "gone"
        <4>1. /\ ~Active(s) /\ ~Active(s)' /\ UNCHANGED <<content, reply>>
              /\ \A t \in Sessions \ {s} : Same(t)
          BY <3>2 DEF Receive, Goto, Same, Active, Idle
        <4> QED BY <4>1, Within
      <3> QED BY <3>1, <3>2
    <2>2. ASSUME NEW iotype, BadRequest(s, iotype) PROVE Service!Next
      BY <2>2, MapsRefuse DEF Service!Next
    <2>3. CASE Reply(s)
      BY <2>3, MapsReply DEF Service!Next
    <2>4. CASE Die(s) \/ IoError(s)
      <3>1. /\ Active(s) /\ ~Active(s)' /\ content' = Broken(s) /\ \A t \in Sessions \ {s} : Same(t)
            /\ \/ reply' = [reply EXCEPT ![s] = [num |-> num[s], error |-> TRUE, data |-> NoData]]
               \/ reply' = reply
        BY <2>4 DEF Die, IoError, Goto, workVars, Active, Idle, Same
      <3> QED BY <3>1, MapsFail DEF Service!Next
    <2>5. CASE PunchHole(s)
      <3>1. /\ Active(s) /\ ~Active(s)' /\ content' = content /\ reply' = reply
            /\ \A t \in Sessions \ {s} : Same(t)
        BY <2>5 DEF PunchHole, Goto, workVars, Active, Idle, Same
      <3>2. req[s].iotype # "WRITE"
        BY <2>5, StepType DEF PunchHole, Type
      <3>3. content = Broken(s)
        BY <3>2 DEF Broken
      <3> QED BY <3>1, <3>3, MapsFail DEF Service!Next
    <2>6. CASE Terminate(s)
      <3>1. /\ ~Active(s) /\ ~Active(s)' /\ UNCHANGED <<content, reply>>
            /\ \A t \in Sessions \ {s} : Same(t)
        BY <2>6 DEF Terminate, Goto, workVars, Active, Idle, Same
      <3> QED BY <3>1, Within
    <2>7. CASE Lseek(s) \/ TestSta(s) \/ TestEnd(s)
      <3>1. /\ Active(s) /\ Active(s)' /\ UNCHANGED <<num, req, content, reply>>
            /\ \A t \in Sessions \ {s} : Same(t)
        BY <2>7 DEF Lseek, TestSta, TestEnd, Goto, workVars, Active, Idle, Same
      <3> QED BY <3>1, Within
    <2>8. CASE Lookup(s) \/ Send(s) \/ BitWrite(s) \/ RecvData(s)
      <3>1. PICK after \in {"send", "reply", "punch", "data"} : NextBlock(s, after)
        BY <2>8 DEF Lookup, Send, BitWrite, RecvData
      <3>2. Active(s) /\ Type(s) # "FLUSH" /\ pc[s] \in {"lookup", "send", "bit_write", "data"}
        <4>1. pc[s] \in {"lookup", "send", "bit_write", "data"}
          BY <2>8 DEF Lookup, Send, BitWrite, RecvData
        <4> QED BY <4>1, StepType DEF Active, Idle, CopySteps
      <3>3. Active(s)' /\ \A t \in Sessions \ {s} : pc'[t] = pc[t] /\ index'[t] = index[t]
        BY <3>1, <3>2, Round DEF Active, Idle
      <3>4. /\ UNCHANGED <<num, req, content, reply>>
            /\ \A t \in Sessions \ {s} : Same(t)
        BY <2>8, <3>3 DEF Lookup, Send, BitWrite, RecvData, Same
      <3> QED BY <3>2, <3>3, <3>4, Within
    <2>9. CASE copy_block_to_top_layer(s)
      <3>1. /\ Active(s) /\ Active(s)' /\ UNCHANGED <<num, req, content, reply>>
            /\ \A t \in Sessions \ {s} : Same(t)
        BY <2>9 DEF copy_block_to_top_layer, Goto, Active, Idle, Same
      <3> QED BY <3>1, Within
    <2>10. CASE BitRead(s)
      <3>1. index[s] \in Blocks
        <4>1. Active(s) /\ Type(s) # "FLUSH"
          BY <2>10, StepType DEF BitRead, Active, Idle, CopySteps
        <4> QED BY <4>1, AtWork, WorkBlocks
      <3>2. /\ Active(s) /\ Active(s)' /\ UNCHANGED <<num, req, content, reply>>
            /\ \A t \in Sessions \ {s} : Same(t)
        BY <2>10, <3>1 DEF BitRead, Goto, Active, Idle, Same
      <3> QED BY <3>2, Within
    <2>11. CASE Read(s)
      <3>1. offset + req[s].iolen <= disksize
        <4>1. Active(s)
          BY <2>11 DEF Read, Active, Idle
        <4>2. req[s] \in Requests /\ Type(s) = "READ"
          BY <2>11, <4>1, AtWork, StepType DEF Read
        <4>3. offset = req[s].iofrom
          BY <2>11, <4>1, <4>2 DEF Read, SessionInv, ReadInv
        <4> QED BY <4>2, <4>3, RequestsAssumption DEF GoodRequest
      <3>2. /\ Active(s) /\ Active(s)' /\ UNCHANGED <<num, req, content, reply>>
            /\ \A t \in Sessions \ {s} : Same(t)
        BY <2>11, <3>1 DEF Read, Goto, Active, Idle, Same
      <3> QED BY <3>2, Within
    <2> QED
      BY <1>2, <2>1, <2>2, <2>3, <2>4, <2>5, <2>6, <2>7, <2>8, <2>9, <2>10, <2>11, Zenon DEF Worker
  <1> QED BY <1>1, <1>2 DEF Next, Over

\* Both modes implement DiskService for clients that take turns: a READ returns
\* what was last written, and only a WRITE that failed leaves bytes undefined, its
\* own, however the accesses of the workers to the disk, the top layer and its
\* bitmap interleave.
THEOREM PromiseKept == TakeTurns => (Spec => DiskPromise)
  <1> SUFFICES ASSUME TakeTurns PROVE Spec => DiskPromise
    OBVIOUS
  <1>1. IInv /\ [Next]_vars => [Service!Next]_(Service!vars)
    BY MapsStep
  <1>2. Init => Service!Init
    BY MapsInit
  <1> QED BY <1>1, <1>2, Invariant, PTL DEF Spec, DiskPromise, Service!Spec

=============================================================================
