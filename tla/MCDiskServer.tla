---------------------------- MODULE MCDiskServer ----------------------------
(* Instances of DiskServer, with its promise, for TLC. *)
EXTENDS DiskRefinement, TLC

CONSTANTS s1, s2

Io(iotype, iofrom, iolen) ==
  [iotype |-> iotype, iofrom |-> iofrom, iolen |-> iolen]

TwoSessions == {s1, s2}
SessionSymmetry == Permutations(TwoSessions)

\* A disk of five bytes in blocks of two: WRITE 1 3 covers one block in part and
\* one in full, WRITE 4 1 is the short last block, READ 1 4 goes over all.
DiskRequests == {Io("READ", 1, 4), Io("WRITE", 1, 3), Io("WRITE", 4, 1),
                 Io("TRIM", 2, 1), Io("FLUSH", 0, 0)}
PairRequests == {Io("READ", 0, 1), Io("READ", 2, 1)}
FlushRequests == {Io("READ", 0, 1), Io("FLUSH", 0, 0)}

AllButCowFlush ==
  ({"target", "cow_target"} \X {"READ", "WRITE", "TRIM"}) \cup {<<"target", "FLUSH">>}
Everything == {"target", "cow_target"} \X IoTypes

=============================================================================
