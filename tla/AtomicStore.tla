---------------------------- MODULE AtomicStore ----------------------------
(***************************************************************************)
(* What the ext4 journal promises about the metadata blocks of a mount: a  *)
(* transaction that is open takes effect on all of its blocks in one step  *)
(* or on none of them, and what took effect is never lost, whatever        *)
(* crashes happen.  Module Journal implements it.                          *)
(***************************************************************************)
EXTENDS Integers

CONSTANTS
    Homes,  \* the metadata blocks
    Txs     \* transaction numbers; 0 stands for the contents at mkfs

VARIABLES
    store,  \* store[h]: the transaction whose after-image block h holds
    open    \* the transaction that has not taken effect yet

NotOpen == [id |-> 0, blocks |-> {}]

Init == store = [h \in Homes |-> 0] /\ open = NotOpen

Begin ==
    /\ open = NotOpen
    /\ open' \in [id : Txs, blocks : (SUBSET Homes) \ {{}}]
    /\ UNCHANGED store

Commit ==
    /\ open # NotOpen
    /\ store' = [h \in Homes |-> IF h \in open.blocks THEN open.id ELSE store[h]]
    /\ open' = NotOpen

Abort == open # NotOpen /\ open' = NotOpen /\ UNCHANGED store

Next == Begin \/ Commit \/ Abort

Spec == Init /\ [][Next]_<<store, open>>
=============================================================================
