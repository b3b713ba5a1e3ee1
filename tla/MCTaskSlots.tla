---------------------------- MODULE MCTaskSlots ----------------------------
(* Small instances of TaskSlots.                                           *)
EXTENDS TaskSlots, TLC

CONSTANTS h1, h2

\* Bound: entries of a run queue, stale ones included.
QueueBound == \A h \in Harts : Len(queue[h]) <= 2

\* Bound: a second slot is used by one hart, for tasks that nobody wakes.  The
\* free list then holds slots of different generations.
SecondSlotBound ==
    Len(slots) = 2 => At(h2, "Loop") /\ queue[h2] = <<>> /\ wakes = {}

=============================================================================
