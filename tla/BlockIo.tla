------------------------------ MODULE BlockIo ------------------------------
(***************************************************************************)
(* Byte ranges and cache blocks.  The disk is the bytes 0 .. disksize - 1; *)
(* the proxy caches it in blocks of CBLOCKSIZE bytes, the last of which is *)
(* short when the disk size is not a multiple of CBLOCKSIZE.               *)
(***************************************************************************)
EXTENDS Integers, Sequences, FiniteSets

CONSTANTS
  CBLOCKSIZE,   \* bytes in a cache block (4096 in the build)
  disksize      \* bytes on the disk

ASSUME CBlockSizeAssumption == CBLOCKSIZE \in Nat \ {0}
ASSUME DiskSizeAssumption == disksize \in Nat \ {0}

Bytes == 0 .. disksize - 1

\* get_disk_nblocks(): the number of blocks, a short last one included.
get_disk_nblocks ==
  disksize \div CBLOCKSIZE + (IF disksize % CBLOCKSIZE # 0 THEN 1 ELSE 0)

Blocks == 0 .. get_disk_nblocks - 1

get_bindex_sta(iofrom) == iofrom \div CBLOCKSIZE

get_bindex_end(ioend) ==
  IF ioend % CBLOCKSIZE = 0 THEN ioend \div CBLOCKSIZE - 1
                            ELSE ioend \div CBLOCKSIZE

\* The bytes of a request, and the block indices its loops go through.
ByteRange(iofrom, iolen) == iofrom .. iofrom + iolen - 1

BlockRange(iofrom, iolen) ==
  get_bindex_sta(iofrom) .. get_bindex_end(iofrom + iolen)

\* confine_iolen_within_disk(): cut a length at the end of the disk.
confine_iolen_within_disk(iofrom, iolen) ==
  IF disksize - iofrom < iolen THEN disksize - iofrom ELSE iolen

\* The bytes that a run of len blocks starting at block from covers.
RunBytes(from, len) ==
  ByteRange(from * CBLOCKSIZE,
            confine_iolen_within_disk(from * CBLOCKSIZE, len * CBLOCKSIZE))

\* add_read_block_to_tail(): extend the last remote read request by block i
\* when i follows it, else start a new one.
add_read_block_to_tail(i, req) ==
  IF /\ req # <<>>
     /\ i = req[Len(req)].bindex_iofrom + req[Len(req)].bindex_iolen
  THEN [req EXCEPT ![Len(req)].bindex_iolen = @ + 1]
  ELSE Append(req, [bindex_iofrom |-> i, bindex_iolen |-> 1])

=============================================================================
