------------------------------ MODULE RunLease ------------------------------
(***************************************************************************)
(* What the scheduler promises the hart loops: a task is an "execution     *)
(* lease" (TaskRunOwner::Dispatching in scheduler.rs).  It is granted to   *)
(* one hart, only while it is ready, and only the hart that holds it makes *)
(* it ready again, parks it or ends it; SCHED-SMP-2 of the design document *)
(* 10_SCHED_SMP_v1.md is about the race that would break this.  Where a    *)
(* ready task is queued, and who moves it, is not visible here.            *)
(***************************************************************************)
CONSTANTS Tasks, Harts, None

VARIABLES
    state,    \* state[t]: "Absent", "Ready", "Held", "Parked" or "Done"
    runner    \* runner[h]: the task that hart h is inside

vars == <<state, runner>>

Init ==
    /\ state = [t \in Tasks |-> "Absent"]
    /\ runner = [h \in Harts |-> None]

Become(t, s) == state' = [state EXCEPT ![t] = s]
Runs(h, t) == runner' = [runner EXCEPT ![h] = t]

Admit(t) ==
    /\ state[t] = "Absent" /\ \A h \in Harts : runner[h] # t
    /\ Become(t, "Ready") /\ UNCHANGED runner

Grant(h, t) ==
    /\ state[t] = "Ready" /\ runner[h] = None
    /\ Become(t, "Held") /\ Runs(h, t)

\* The holder gives the lease back.
Release(h, t) ==
    /\ state[t] = "Held" /\ runner[h] = t
    /\ (Become(t, "Ready") \/ Become(t, "Parked")) /\ Runs(h, None)

Finish(h, t) ==
    /\ state[t] = "Held" /\ runner[h] = t
    /\ Become(t, "Done") /\ UNCHANGED runner

\* The hart is out of a task that is done.
Quit(h, t) ==
    /\ state[t] \in {"Done", "Absent"} /\ runner[h] = t
    /\ Runs(h, None) /\ UNCHANGED state

Wake(t) ==
    /\ state[t] = "Parked"
    /\ Become(t, "Ready") /\ UNCHANGED runner

Forget(t) ==
    /\ state[t] = "Done"
    /\ Become(t, "Absent") /\ UNCHANGED runner

Next ==
    \E t \in Tasks :
        \/ Admit(t) \/ Wake(t) \/ Forget(t)
        \/ \E h \in Harts : Grant(h, t) \/ Release(h, t) \/ Finish(h, t) \/ Quit(h, t)

Spec == Init /\ [][Next]_vars
=============================================================================
