------------------------------ MODULE MCProxy ------------------------------
(* Instances of Proxy and ProxyService for TLC. *)
EXTENDS ProxyService, TLC

CONSTANTS s1, s2

Io(iotype, iofrom, iolen) ==
  [iotype |-> iotype, iofrom |-> iofrom, iolen |-> iolen]

TwoSessions == {s1, s2}
OneSession == {s1}
SessionSymmetry == Permutations({s1, s2})

\* A disk of five bytes in blocks of two: the third block is short.  WRITE 1 2
\* covers two blocks in part and fetches both; with CACHE 2 2 before it, READ
\* fetches two runs of blocks.
BlockRequests == {Io("READ", 0, 5), Io("WRITE", 1, 2), Io("CACHE", 2, 2),
                  Io("TRIM", 2, 2)}

\* A disk of three bytes in blocks of two.
FewRequests == {Io("READ", 0, 3), Io("WRITE", 1, 2)}
SwitchRequests == FewRequests \cup {Io("CACHE", 0, 2), Io("FLUSH", 0, 0)}

\* A disk of one block.
FaultRequests == {Io("READ", 0, 2), Io("WRITE", 1, 1)}

CacheRequests == {Io("CACHE", 0, 2)}

=============================================================================
