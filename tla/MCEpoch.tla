------------------------------ MODULE MCEpoch -------------------------------
(* Small instances of Epoch.                                               *)
EXTENDS Epoch, TLC

CONSTANTS n1, n2, n3

MCPaths == n1 :> {"Head"} @@ n2 :> {"Prepared"} @@ n3 :> {"Reserved"}
=============================================================================
