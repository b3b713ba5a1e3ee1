----------------------------- MODULE MCDelegate -----------------------------
(* Small instances of Delegate.                                            *)
EXTENDS Delegate, TLC

CONSTANTS t1, t2, e1
=============================================================================
