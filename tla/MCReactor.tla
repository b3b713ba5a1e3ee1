----------------------------- MODULE MCReactor -----------------------------
(* Small instances of Reactor.                                             *)
EXTENDS Reactor, TLC

CONSTANTS h1, h2, t1, t2

MCHome2 == (t1 :> h1) @@ (t2 :> h2)
MCCallers2 == (t1 :> {h1, h2}) @@ (t2 :> {h1})
MCCallers1 == (t1 :> {h1, h2})
MCHome1 == (t1 :> h1)
=============================================================================
