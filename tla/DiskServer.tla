----------------------------- MODULE DiskServer -----------------------------
(***************************************************************************)
(* The workers of xnbd-server --target (xnbd_target.c) and --cow-target    *)
(* (xnbd_target_cow_lzo.c).  Every session is a process of its own, forked *)
(* from the master: they share the file offset of the disk image and, in   *)
(* the copy-on-write mode, the mapped top layer and its bitmap.  One       *)
(* action for each access to what is shared.  A byte of the model is any   *)
(* unit smaller than a block.                                              *)
(***************************************************************************)
EXTENDS NbdRequests

CONSTANTS
  Cmds,         \* the values of xnbd->cmd to consider: "target", "cow_target"
  Sends,        \* pairs of a cmd and the type of a request clients send to it
  Sharing,      \* how clients keep out of each other's way, see Compatible
  readonly,     \* xnbd->readonly
  ULONG_MAX,    \* the largest block index the C type holds
  MaxErrors     \* bound on the I/O errors

ASSUME CmdsAssumption == Cmds \subseteq {"target", "cow_target"}
ASSUME SharingAssumption == Sharing \in {"bytes", "turns"}
ASSUME LimitsAssumption ==
  readonly \in BOOLEAN /\ ULONG_MAX \in Nat /\ MaxErrors \in Nat

VARIABLES
  cmd,       \* xnbd->cmd
  disk,      \* the disk image, layer 0 of the disk stack
  offset,    \* the file offset of target_diskfd
  top,       \* the file of the top layer
  bm,        \* the bitmap of the top layer: the blocks marked in it
  pc,        \* session -> the step its worker takes next
  num,       \* session -> how many requests it received
  req,       \* session -> the request it works on
  index,     \* session -> the block its loop is at
  copy,      \* session -> get_sta_block, get_end_block: blocks to copy
  found,     \* session -> the blocks found in the top layer
  word,      \* session -> the bitmap word that bitmap_on() read
  buf,       \* session -> the data of the reply
  errors,    \* I/O errors so far
  reply,     \* session -> the last reply sent on it
  content    \* byte -> what clients may expect a READ to return

layerVars == <<disk, offset, top, bm>>
workVars == <<index, copy, found, word, buf>>
vars == <<cmd, layerVars, pc, num, req, workVars, errors, reply, content>>

cow == cmd = "cow_target"

\* pc: "idle" is poll_request_arrival(); in "desync" the next bytes on the
\* socket are the data of a WRITE that was not read; "gone" is a worker that
\* has exited.
Idle == {"idle", "desync", "gone"}
Steps == Idle \cup {"lseek", "read", "lookup", "send", "test_sta", "test_end",
                    "copy", "bit_read", "bit_write", "data", "punch", "reply"}

BlockBytes(b) == RunBytes(b, 1)
BlockOf(x) == x \div CBLOCKSIZE
FirstBlock(r) == get_bindex_sta(r.iofrom)
ioend(r) == r.iofrom + r.iolen

\* The end index is an unsigned long: for a request that ends at offset zero
\* it wraps.
LastBlock(r) ==
  LET end == get_bindex_end(ioend(r))
  IN  IF end < 0 THEN ULONG_MAX + 1 + end ELSE end

Writes(r) == r.iotype \in {"WRITE", "TRIM"}

\* Sharing "bytes": clients, as with a cluster file system, never have two
\* requests for the same byte on the way when one of them writes.  "turns":
\* they also take turns at READ in the target mode, and at WRITE and TRIM in
\* the copy-on-write mode.
Compatible(r, q) ==
  /\ Writes(r) \/ Writes(q) => RangeOf(r) \cap RangeOf(q) = {}
  /\ Sharing = "turns" =>
       IF cow THEN ~(Writes(r) /\ Writes(q))
              ELSE ~(r.iotype = "READ" /\ q.iotype = "READ")

-----------------------------------------------------------------------------
(* Receiving a request *)

Goto(s, step) == pc' = [pc EXCEPT ![s] = step]

FirstStep(r) ==
  IF readonly /\ Writes(r) THEN "gone"
  ELSE IF cow THEN IF r.iotype = "READ" THEN "lookup" ELSE "test_sta"
  ELSE CASE r.iotype = "READ" -> "lseek"
         [] r.iotype = "WRITE" -> "data"
         [] r.iotype = "FLUSH" -> "reply"
         [] r.iotype = "TRIM" -> "punch"

Receive(s, r) ==
  /\ pc[s] = "idle" /\ num[s] < MaxReq
  /\ <<cmd, r.iotype>> \in Sends
  /\ \A t \in Sessions \ {s} : pc[t] \notin Idle => Compatible(r, req[t])
  /\ num' = [num EXCEPT ![s] = @ + 1]
  /\ req' = [req EXCEPT ![s] = r]
  /\ index' = [index EXCEPT ![s] = FirstBlock(r)]
  /\ found' = [found EXCEPT ![s] = {}]
  /\ buf' = [buf EXCEPT ![s] = NoData]
  /\ Goto(s, FirstStep(r))
  /\ content' = IF FirstStep(r) = "gone" THEN content
                ELSE Apply(content, r, <<s, num[s] + 1>>)
  /\ UNCHANGED <<cmd, layerVars, copy, word, errors, reply>>

\* NBD_SERVER_RECV__BAD_REQUEST: the data of a WRITE is not read.
BadRequest(s, iotype) ==
  /\ pc[s] = "idle" /\ num[s] < MaxReq
  /\ num' = [num EXCEPT ![s] = @ + 1]
  /\ reply' = [reply EXCEPT ![s] =
       [num |-> num[s] + 1, error |-> TRUE, data |-> NoData]]
  /\ Goto(s, IF iotype = "WRITE" THEN "desync" ELSE "idle")
  /\ UNCHANGED <<cmd, layerVars, req, workVars, errors, content>>

\* NBD_SERVER_RECV__TERMINATE, or __MAGIC_MISMATCH on data taken for a header.
Terminate(s) ==
  /\ pc[s] \in {"idle", "desync"}
  /\ Goto(s, "gone")
  /\ UNCHANGED <<cmd, layerVars, num, req, workVars, errors, reply, content>>

Reply(s) ==
  /\ pc[s] = "reply"
  /\ reply' = [reply EXCEPT ![s] =
       [num |-> num[s], error |-> FALSE, data |-> buf[s]]]
  /\ Goto(s, "idle")
  /\ UNCHANGED <<cmd, layerVars, num, req, workVars, errors, content>>

\* What a WRITE that fails leaves behind, as far as clients can tell.
Broken(s) ==
  [x \in Bytes |-> IF req[s].iotype = "WRITE" /\ x \in RangeOf(req[s]) THEN DiskValues
                   ELSE content[x]]

\* The worker exits in the middle of a request: the client closed the
\* connection, or an error ended in err().
Die(s) ==
  /\ pc[s] \in {"data", "reply", "send"}
  /\ Goto(s, "gone")
  /\ content' = Broken(s)
  /\ UNCHANGED <<cmd, layerVars, num, req, workVars, errors, reply>>

-----------------------------------------------------------------------------
(* The target mode: target_mode_main_mmap() *)

\* EIO is reported to the client; the rest of the data of a WRITE stays unread.
IoError(s) ==
  /\ ~cow /\ errors < MaxErrors
  /\ \/ pc[s] \in {"read", "data"}
     \/ pc[s] = "reply" /\ req[s].iotype = "FLUSH"
  /\ errors' = errors + 1
  /\ reply' = [reply EXCEPT ![s] =
       [num |-> num[s], error |-> TRUE, data |-> NoData]]
  /\ Goto(s, IF pc[s] = "data" THEN "desync" ELSE "idle")
  /\ content' = Broken(s)
  /\ UNCHANGED <<cmd, layerVars, num, req, workVars>>

Lseek_Skipped(s) ==
  /\ pc[s] = "lseek"
  /\ Goto(s, "read")
  /\ UNCHANGED <<cmd, layerVars, num, req, workVars, errors, reply, content>>

\* The workers share one open file, and its offset.
Lseek(s) ==
  /\ pc[s] = "lseek"
  /\ offset' = req[s].iofrom
  /\ Goto(s, "read")
  /\ UNCHANGED <<cmd, disk, top, bm, num, req, workVars, errors, reply, content>>

\* read() at the offset as it is now; at the end of the file the worker exits.
Read(s) ==
  /\ pc[s] = "read"
  /\ LET r == req[s]
         end == offset + r.iolen
     IN  IF end <= disksize
         THEN /\ buf' = [buf EXCEPT ![s] =
                   [x \in Bytes |-> IF x \in RangeOf(r)
                                    THEN disk[x - r.iofrom + offset] ELSE Empty]]
              /\ offset' = end
              /\ Goto(s, "reply")
         ELSE /\ offset' = disksize
              /\ Goto(s, "gone")
              /\ UNCHANGED buf
  /\ UNCHANGED <<cmd, disk, top, bm, num, req, index, copy, found, word, errors,
                 reply, content>>

-----------------------------------------------------------------------------
(* The copy-on-write mode: target_mode_main_cow() *)

\* The next round of a loop over the blocks of the request, or after it.
NextBlock(s, after) ==
  IF index[s] = LastBlock(req[s])
  THEN /\ index' = [index EXCEPT ![s] = FirstBlock(req[s])]
       /\ Goto(s, after)
  ELSE /\ index' = [index EXCEPT ![s] = @ + 1]
       /\ Goto(s, IF pc[s] = "bit_write" THEN "bit_read" ELSE pc[s])

\* disk_stack_mmap() of a READ: the top-most layer that has the block.
Lookup(s) ==
  /\ pc[s] = "lookup"
  /\ found' = [found EXCEPT ![s] = @ \cup ({index[s]} \cap bm)]
  /\ NextBlock(s, "send")
  /\ UNCHANGED <<cmd, layerVars, num, req, copy, word, buf, errors, reply, content>>

\* net_writev_all_or_abort(): the layers are read while the data is sent.
Send(s) ==
  /\ pc[s] = "send"
  /\ buf' = [buf EXCEPT ![s] =
       [x \in Bytes |->
          IF x \in RangeOf(req[s]) \cap BlockBytes(index[s])
          THEN IF index[s] \in found[s] THEN top[x] ELSE disk[x]
          ELSE @[x]]]
  /\ NextBlock(s, "reply")
  /\ UNCHANGED <<cmd, layerVars, num, req, copy, found, word, errors, reply, content>>

TestSta_NoCopy(s) ==
  /\ pc[s] = "test_sta"
  /\ copy' = [copy EXCEPT ![s] = {}]
  /\ Goto(s, "test_end")
  /\ UNCHANGED <<cmd, layerVars, num, req, index, found, word, buf, errors, reply,
                 content>>

\* disk_stack_mmap() of any other request: a block of which only a part is
\* written is copied to the top layer first, unless it is there.
TestSta(s) ==
  /\ pc[s] = "test_sta"
  /\ copy' = [copy EXCEPT ![s] =
       IF req[s].iofrom % CBLOCKSIZE # 0 THEN {FirstBlock(req[s])} \ bm ELSE {}]
  /\ Goto(s, "test_end")
  /\ UNCHANGED <<cmd, layerVars, num, req, index, found, word, buf, errors, reply,
                 content>>

TestEnd(s) ==
  /\ pc[s] = "test_end"
  /\ LET last == LastBlock(req[s])
     IN  copy' = [copy EXCEPT ![s] =
           IF /\ ioend(req[s]) % CBLOCKSIZE # 0
              /\ last > FirstBlock(req[s]) \/ (last = FirstBlock(req[s]) /\ @ = {})
           THEN @ \cup ({last} \ bm) ELSE @]
  /\ Goto(s, "copy")
  /\ UNCHANGED <<cmd, layerVars, num, req, index, found, word, buf, errors, reply,
                 content>>

copy_block_to_top_layer(s) ==
  /\ pc[s] = "copy"
  /\ IF copy[s] = {}
     THEN /\ Goto(s, "bit_read")
          /\ UNCHANGED <<top, copy>>
     ELSE \E b \in copy[s] :
            /\ \A c \in copy[s] : b <= c
            /\ top' = [x \in Bytes |->
                 IF x \in BlockBytes(b) /\ b \notin bm THEN disk[x] ELSE top[x]]
            /\ copy' = [copy EXCEPT ![s] = @ \ {b}]
            /\ UNCHANGED pc
  /\ UNCHANGED <<cmd, disk, offset, bm, num, req, index, found, word, buf, errors,
                 reply, content>>

\* bitmap_on() for every block of the request, before any data has arrived: the
\* word is read, and written back.  An index outside the bitmap ends the worker.
BitRead(s) ==
  /\ pc[s] = "bit_read"
  /\ IF index[s] \in Blocks
     THEN /\ word' = [word EXCEPT ![s] = bm]
          /\ Goto(s, "bit_write")
     ELSE /\ Goto(s, "gone")
          /\ UNCHANGED word
  /\ UNCHANGED <<cmd, layerVars, num, req, index, copy, found, buf, errors, reply,
                 content>>

BitWrite(s) ==
  /\ pc[s] = "bit_write"
  /\ bm' = word[s] \cup {index[s]}
  /\ NextBlock(s, IF req[s].iotype = "TRIM" THEN "punch" ELSE "data")
  /\ UNCHANGED <<cmd, disk, offset, top, num, req, copy, found, word, buf, errors,
                 reply, content>>

-----------------------------------------------------------------------------
(* Both modes *)

\* The data of a WRITE is received straight into the mapped file.
RecvData(s) ==
  /\ pc[s] = "data"
  /\ LET into(file) ==
           [x \in Bytes |-> IF x \in RangeOf(req[s]) \cap BlockBytes(index[s])
                            THEN <<s, num[s]>> ELSE file[x]]
     IN  IF cow THEN top' = into(top) /\ UNCHANGED disk
                ELSE disk' = into(disk) /\ UNCHANGED top
  /\ NextBlock(s, "reply")
  /\ UNCHANGED <<cmd, offset, bm, num, req, copy, found, word, buf, errors, reply,
                 content>>

\* punch_hole(), which only warns when it fails.  Neither mode sends a reply:
\* the target mode falls through to err(), the other goes on.
PunchHole(s) ==
  /\ pc[s] = "punch"
  /\ LET hole(file) ==
           [x \in Bytes |-> IF x \in RangeOf(req[s]) THEN Zero ELSE file[x]]
     IN  \/ UNCHANGED <<disk, top>>
         \/ IF cow THEN top' = hole(top) /\ UNCHANGED disk
                   ELSE disk' = hole(disk) /\ UNCHANGED top
  /\ Goto(s, IF cow THEN "idle" ELSE "gone")
  /\ UNCHANGED <<cmd, offset, bm, num, req, workVars, errors, reply, content>>

-----------------------------------------------------------------------------
(* The server *)

\* The top layer of create_disk_stack() is empty and its bitmap is clear.
Init ==
  /\ cmd \in Cmds
  /\ disk = [x \in Bytes |-> Image(x)] /\ offset = 0
  /\ top = [x \in Bytes |-> Zero] /\ bm = {}
  /\ pc = [s \in Sessions |-> "idle"]
  /\ num = [s \in Sessions |-> 0]
  /\ req = [s \in Sessions |-> [iotype |-> "FLUSH", iofrom |-> 0, iolen |-> 0]]
  /\ index = [s \in Sessions |-> 0]
  /\ copy = [s \in Sessions |-> {}]
  /\ found = [s \in Sessions |-> {}]
  /\ word = [s \in Sessions |-> {}]
  /\ buf = [s \in Sessions |-> NoData]
  /\ errors = 0
  /\ reply = [s \in Sessions |-> [num |-> 0, error |-> FALSE, data |-> NoData]]
  /\ content = [x \in Bytes |-> {Image(x)}]

Worker(s) ==
  \/ \E r \in Requests : Receive(s, r)
  \/ \E iotype \in {"READ", "WRITE"} : BadRequest(s, iotype)
  \/ Terminate(s) \/ Reply(s) \/ Die(s) \/ IoError(s)
  \/ Lseek(s) \/ Read(s)
  \/ Lookup(s) \/ Send(s)
  \/ TestSta(s) \/ TestEnd(s) \/ copy_block_to_top_layer(s)
  \/ BitRead(s) \/ BitWrite(s)
  \/ RecvData(s) \/ PunchHole(s)

Over == (\A s \in Sessions : pc[s] = "gone") /\ UNCHANGED vars

Next == (\E s \in Sessions : Worker(s)) \/ Over

Spec == Init /\ [][Next]_vars

-----------------------------------------------------------------------------
(* Properties *)

\* Every variable keeps its type: a block index stays within the bitmap and the
\* file offset within the disk.
TypeOK ==
  /\ cmd \in Cmds
  /\ disk \in [Bytes -> DiskValues] /\ top \in [Bytes -> DiskValues]
  /\ offset \in 0 .. disksize
  /\ bm \subseteq Blocks
  /\ pc \in [Sessions -> Steps]
  /\ num \in [Sessions -> 0 .. MaxReq]
  /\ index \in [Sessions -> 0 .. get_disk_nblocks]
  /\ copy \in [Sessions -> SUBSET Blocks]
  /\ found \in [Sessions -> SUBSET Blocks]
  /\ word \in [Sessions -> SUBSET Blocks]
  /\ buf \in [Sessions -> [Bytes -> DiskValues \cup {Empty}]]
  /\ errors \in 0 .. MaxErrors
  /\ content \in [Bytes -> SUBSET DiskValues]

\* What the layers hold for byte x now.
View(x) == IF cow /\ BlockOf(x) \in bm THEN top[x] ELSE disk[x]

\* The bytes that a request on its way is writing.
Unsettled ==
  UNION {RangeOf(req[s]) : s \in {t \in Sessions : pc[t] \notin Idle /\ Writes(req[t])}}

\* At any moment, also between the copy of a block, its mark and the arrival of
\* its data, the layers hold for every byte that nobody is writing what clients
\* wrote last: a mark never uncovers what was not copied to the top layer.
ViewCurrent == \A x \in Bytes \ Unsettled : View(x) \in content[x]

=============================================================================
