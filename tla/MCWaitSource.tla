---------------------------- MODULE MCWaitSource ----------------------------
(* Small instances of WaitSource.                                          *)
EXTENDS WaitSource, TLC

CONSTANTS w1, w2, p1, in, out

\* One waiter for both directions, and one for reads.
BothAndIn == (w1 :> {in, out}) @@ (w2 :> {in})
=============================================================================
