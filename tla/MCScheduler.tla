---------------------------- MODULE MCScheduler -----------------------------
(* An instance of Scheduler for TLC: a pinned service and a movable thread. *)
EXTENDS Scheduler, TLC

CONSTANTS t1, t2

ServiceAndThread == t1 :> "Fair" @@ t2 :> "User"

\* Hart 1 calls about both tasks, hart 0 about the thread.
MCCallers == {<<1, t1>>, <<0, t2>>, <<1, t2>>}
=============================================================================
