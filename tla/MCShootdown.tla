---------------------------- MODULE MCShootdown ----------------------------
(***************************************************************************)
(* The boot CPU 0 and the secondaries 1 and 2.  CPU 2 runs user tasks, so  *)
(* CPUs 0 and 1 may ask it for a flush at the same time, while it spins on *)
(* the lock CPU 1 holds.                                                   *)
(***************************************************************************)
EXTENDS Shootdown, TLC

CONSTANTS u, k, w

MCCpus == {0, 1, 2}
MCUnmapper == (u :> 1) @@ (k :> 0) @@ (w :> 2)
=============================================================================
