------------------------------ MODULE MCHartIdle ------------------------------
(* HartIdle with a boot hart and one secondary. *)
EXTENDS HartIdle

MCHarts == {0, 1}
=============================================================================
