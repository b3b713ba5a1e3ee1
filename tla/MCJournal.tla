----------------------------- MODULE MCJournal -----------------------------
(***************************************************************************)
(* Two metadata blocks, records of three and four log blocks in a log of   *)
(* six, so that reservations wrap and reuse the blocks of earlier records. *)
(***************************************************************************)
EXTENDS Journal

MCHomes  == {1, 2}
MCMutations == {[tags |-> <<1>>, data |-> FALSE], [tags |-> <<2, 1>>, data |-> TRUE]}
=============================================================================
