----------------------------- MODULE MCWatchdog -----------------------------
(***************************************************************************)
(* Instances of Watchdog: a list whose first server is of the wrong kind.  *)
(***************************************************************************)
EXTENDS Watchdog

CONSTANTS p1, p2, d1

PlainSecond == <<"wrapped", "plain">>
=============================================================================
