---------------------------- MODULE DiskRefinement ----------------------------
(***************************************************************************)
(* What the target and the copy-on-write mode promise their clients: the   *)
(* refinement mapping from DiskServer to DiskService.  The requests that   *)
(* DiskService holds pending are those the workers are busy with.          *)
(***************************************************************************)
EXTENDS DiskServer

\* A request that was accepted and is not finished.
Pending ==
  [s \in Sessions |->
     IF pc[s] \in Idle THEN <<>>
     ELSE <<[num |-> num[s], req |-> req[s], may |-> MayReturn(content, req[s])]>>]

Service == INSTANCE DiskService WITH pending <- Pending

\* Both modes keep the promise of DiskService to clients that take turns.
DiskPromise == Service!Spec

=============================================================================
