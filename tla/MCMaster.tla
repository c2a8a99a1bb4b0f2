------------------------------ MODULE MCMaster ------------------------------
(* Instances of Master for TLC. *)
EXTENDS Master, TLC

CONSTANTS c1, c2

TwoClients == {c1, c2}

=============================================================================
