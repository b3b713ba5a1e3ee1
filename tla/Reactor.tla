------------------------------ MODULE Reactor ------------------------------
(***************************************************************************)
(* The core of tx-reactor: the task table (task.rs), the raw waker         *)
(* (waker.rs), the scheduler's execution lease (TaskRunOwner in            *)
(* scheduler.rs) and the concurrent hart loop that drives them             *)
(* (SharedReactor::run_hart_loop_concurrent_..., runtime.rs).              *)
(*                                                                         *)
(* Every hart runs the loop                                                *)
(*     drain wakes; pick a queued task; take its future; poll it; commit   *)
(* and, from inside a poll or from the timer / bottom-half part of the     *)
(* loop, may call a waker, post to another task's mailbox or submit a      *)
(* task.  A step of the model is one critical section of the code: the     *)
(* task-table lock, the run-queue + metadata locks, or one atomic of the   *)
(* waker.  Run queues are abstracted to the owner record of each task      *)
(* (module Scheduler has the queues themselves); a task is submitted once  *)
(* (module TaskSlots has the reuse of slots).                              *)
(***************************************************************************)
EXTENDS Integers, Sequences, FiniteSets, Functions

CONSTANTS
    Harts,      \* the harts that run the loop
    Tasks,      \* the tasks; each is submitted at most once
    NoTask,     \* a hart that has no task at hand
    NoHart,     \* the owner record of a task that no hart owns
    Home,       \* Home[t]: the hart a pinned task is queued on
    Movable,    \* the tasks the scheduler may queue on any hart
    Callers,    \* Callers[t]: the harts whose polls and interrupts submit, wake or post to t
    OwnerPosts  \* TRUE iff tasks post to each other's mailbox through OwnerWakePost

ASSUME ConstantsAssumption ==
    /\ IsFiniteSet(Harts)
    /\ NoTask \notin Tasks
    /\ NoHart \notin Harts
    /\ Home \in [Tasks -> Harts]
    /\ Movable \subseteq Tasks
    /\ Callers \in [Tasks -> SUBSET Harts]
    /\ OwnerPosts \in BOOLEAN

VARIABLES
    status,      \* Task.status
    future,      \* Task.future: in the slot, taken by a hart, or dropped
    wakeReq,     \* the tasks whose TaskWakeState.wake_requested is set
    wakeQueue,   \* the shared wake queue of task ids
    queuedWakes, \* the counter read before the wake queue is locked
    owner,       \* TaskSchedMeta.owner
    pc,          \* where each hart is in the loop
    cur,         \* the task a hart picked
    batch,       \* ids drained from the wake queue, not yet resolved
    woken,       \* tasks made runnable by the drain, not yet committed
    callStep,    \* progress of the wake, post or submit call a hart is inside
    callTask,    \* the task that call is about
    callKind,    \* "Raw": Waker::wake;  "Post": a mailbox post of OwnerWakePost
    owed         \* history: tasks with a wake that no poll has seen the start of

vars == <<status, future, wakeReq, wakeQueue, queuedWakes, owner, pc, cur,
          batch, woken, callStep, callTask, callKind, owed>>

tableVars == <<status, future>>
wakerVars == <<wakeReq, wakeQueue, queuedWakes>>
loopVars  == <<pc, cur, batch, woken>>
callVars  == <<callStep, callTask, callKind>>

Statuses  == {"Absent", "Runnable", "Polling", "Parked", "Completed"}
Futures   == {"None", "InSlot", "Taken"}
OwnerStates == {"Absent", "Parked", "Queued", "Dispatching", "Terminal"}
Locations == {"Loop", "Resolve", "Commit", "Pick", "Repick", "Take", "Poll",
              "StopCompleted", "DropCompleted", "StopRunnable",
              "FinishPending", "Mark", "MarkCommit"}
CallSteps == {"None", "Swap", "Count", "Push", "Route", "Commit", "Reserve"}

Owner(state, hart) == [state |-> state, hart |-> hart]

\* The harts a wake or a submission may queue t on: wake_target_hart_for_meta
\* and round_robin_hart_in_mask.  Waker affinity, spreading, affinity changes
\* and stealing make this any hart for a movable task.
Placement(t) == IF t \in Movable THEN Harts ELSE {Home[t]}

Init ==
    /\ status = [t \in Tasks |-> "Absent"]
    /\ future = [t \in Tasks |-> "None"]
    /\ wakeReq = {}
    /\ wakeQueue = <<>>
    /\ queuedWakes = 0
    /\ owner = [t \in Tasks |-> Owner("Absent", NoHart)]
    /\ pc = [h \in Harts |-> "Loop"]
    /\ cur = [h \in Harts |-> NoTask]
    /\ batch = [h \in Harts |-> {}]
    /\ woken = [h \in Harts |-> {}]
    /\ callStep = [h \in Harts |-> "None"]
    /\ callTask = [h \in Harts |-> NoTask]
    /\ callKind = [h \in Harts |-> "Raw"]
    /\ owed = {}

-----------------------------------------------------------------------------
(* The scheduler's transitions of an owner record.                         *)

\* commit_runnable_on_local: only a Parked task is queued; a Queued one stays
\* on its hart, and a leased, terminal or forgotten one is left alone.
CommitRunnable(t) ==
    IF owner[t].state = "Parked"
    THEN \E g \in Placement(t) : owner' = [owner EXCEPT ![t] = Owner("Queued", g)]
    ELSE UNCHANGED owner

\* commit_stopped_on_local: only the hart that holds the lease may stop it.
CommitStopped(t, h, stopped) ==
    owner' = IF owner[t] = Owner("Dispatching", h)
             THEN [owner EXCEPT ![t] = stopped] ELSE owner

\* task_dropped: the metadata of the id is removed.
TaskDropped(t) == owner' = [owner EXCEPT ![t] = Owner("Absent", NoHart)]

-----------------------------------------------------------------------------
(* Calls a hart makes from inside a poll or from its timer and bottom-half *)
(* work.  While a call is in progress the hart's loop does not advance.    *)

MayCall(h, t) ==
    /\ pc[h] \in {"Loop", "Poll"}
    /\ callStep[h] = "None"
    /\ h \in Callers[t]

Calling(h, step) == callStep[h] = step

StartCall(h, t, step, kind) ==
    /\ callStep' = [callStep EXCEPT ![h] = step]
    /\ callTask' = [callTask EXCEPT ![h] = t]
    /\ callKind' = [callKind EXCEPT ![h] = kind]

CallTo(h, step) ==
    /\ callStep' = [callStep EXCEPT ![h] = step]
    /\ callTask' = IF step = "None" THEN [callTask EXCEPT ![h] = NoTask] ELSE callTask
    /\ UNCHANGED callKind

\* The step after the raw waker returns.
AfterWake(h) == IF callKind[h] = "Post" THEN "Route" ELSE "None"

\* The event a wake stands for is published before the waker is called.
Owe(t) == owed' = IF status[t] = "Completed" THEN owed ELSE owed \cup {t}

\* Waker::wake is called on any task that was submitted.
StartWake(h, t) ==
    /\ MayCall(h, t)
    /\ status[t] # "Absent"
    /\ StartCall(h, t, "Swap", "Raw")
    /\ Owe(t)
    /\ UNCHANGED <<tableVars, wakerVars, owner, loopVars>>

\* post_mailbox_event: the mailbox calls the waker registered with it, when
\* there is one, and the owner is routed in either case.
StartPost(h, t) ==
    /\ OwnerPosts
    /\ MayCall(h, t)
    /\ status[t] # "Absent"
    /\ \E step \in {"Swap", "Route"} : StartCall(h, t, step, "Post")
    /\ Owe(t)
    /\ UNCHANGED <<tableVars, wakerVars, owner, loopVars>>

\* submit, under the task-table lock.
Submit(h, t) ==
    /\ MayCall(h, t)
    /\ status[t] = "Absent"
    /\ status' = [status EXCEPT ![t] = "Runnable"]
    /\ future' = [future EXCEPT ![t] = "InSlot"]
    /\ StartCall(h, t, "Reserve", "Raw")
    /\ UNCHANGED <<wakerVars, owner, loopVars, owed>>

\* reserve_submitted_task and the push of the queue entry.
ReserveSubmitted(h) ==
    /\ Calling(h, "Reserve")
    /\ \E g \in Placement(callTask[h]) :
          owner' = [owner EXCEPT ![callTask[h]] = Owner("Queued", g)]
    /\ CallTo(h, "None")
    /\ UNCHANGED <<tableVars, wakerVars, loopVars, owed>>

\* TaskWakeState::wake, the swap: a set bit coalesces the wake.
WakeSwap(h) ==
    /\ Calling(h, "Swap")
    /\ CallTo(h, IF callTask[h] \in wakeReq THEN AfterWake(h) ELSE "Count")
    /\ wakeReq' = wakeReq \cup {callTask[h]}
    /\ UNCHANGED <<tableVars, wakeQueue, queuedWakes, owner, loopVars, owed>>

\* The counter is raised before the entry exists.
WakeCount(h) ==
    /\ Calling(h, "Count")
    /\ queuedWakes' = queuedWakes + 1
    /\ CallTo(h, "Push")
    /\ UNCHANGED <<tableVars, wakeReq, wakeQueue, owner, loopVars, owed>>

WakePush(h) ==
    /\ Calling(h, "Push")
    /\ wakeQueue' = Append(wakeQueue, callTask[h])
    /\ CallTo(h, AfterWake(h))
    /\ UNCHANGED <<tableVars, wakeReq, queuedWakes, owner, loopVars, owed>>

\* Mutant: a post that finds the task Polling leaves no trace.
RouteOwnerForgetsPolling(h) ==
    LET t == callTask[h] IN
    /\ Calling(h, "Route")
    /\ status' = IF status[t] = "Parked" THEN [status EXCEPT ![t] = "Runnable"] ELSE status
    /\ CallTo(h, IF status[t] \in {"Parked", "Runnable"} THEN "Commit" ELSE "None")
    /\ UNCHANGED <<future, wakerVars, owner, loopVars, owed>>

\* make_owner_runnable_with_hint, under the task-table lock.
RouteOwner(h) ==
    LET t == callTask[h] IN
    /\ Calling(h, "Route")
    /\ status' = IF status[t] = "Parked" THEN [status EXCEPT ![t] = "Runnable"] ELSE status
    /\ wakeReq' = IF status[t] = "Polling" THEN wakeReq \cup {t} ELSE wakeReq
    /\ CallTo(h, IF status[t] \in {"Parked", "Runnable"} THEN "Commit" ELSE "None")
    /\ UNCHANGED <<future, wakeQueue, queuedWakes, owner, loopVars, owed>>

RouteCommit(h) ==
    /\ Calling(h, "Commit")
    /\ CommitRunnable(callTask[h])
    /\ CallTo(h, "None")
    /\ UNCHANGED <<tableVars, wakerVars, loopVars, owed>>

-----------------------------------------------------------------------------
(* The hart loop.                                                          *)

\* Loop code runs only while the hart is inside no call.
At(h, location) == pc[h] = location /\ callStep[h] = "None"

Go(h, location) == pc' = [pc EXCEPT ![h] = location]

\* drain_wakes_for_hart: the wake queue is locked only if the counter is not 0.
DrainWakes(h) ==
    /\ At(h, "Loop")
    /\ queuedWakes # 0
    /\ batch' = [batch EXCEPT ![h] = Range(wakeQueue)]
    /\ queuedWakes' = queuedWakes - Len(wakeQueue)
    /\ wakeQueue' = <<>>
    /\ Go(h, IF wakeQueue = <<>> THEN "Pick" ELSE "Resolve")
    /\ UNCHANGED <<tableVars, wakeReq, owner, cur, woken, callVars, owed>>

DrainNothing(h) ==
    /\ At(h, "Loop")
    /\ queuedWakes = 0
    /\ Go(h, "Pick")
    /\ UNCHANGED <<tableVars, wakerVars, owner, cur, batch, woken, callVars, owed>>

\* Mutant: the bit of a Polling task is consumed too.
ResolveWakesConsumesPolling(h) ==
    LET toRun == {t \in batch[h] : status[t] = "Parked" /\ t \in wakeReq} IN
    /\ At(h, "Resolve")
    /\ status' = [t \in Tasks |-> IF t \in toRun THEN "Runnable" ELSE status[t]]
    /\ wakeReq' = wakeReq \ batch[h]
    /\ woken' = [woken EXCEPT ![h] = toRun]
    /\ batch' = [batch EXCEPT ![h] = {}]
    /\ Go(h, "Commit")
    /\ UNCHANGED <<future, wakeQueue, queuedWakes, owner, cur, callVars, owed>>

\* take_wake_if_parked_by_id_with_hint over the batch, under one table lock:
\* a Parked task with its bit set becomes Runnable, a Polling one keeps its
\* bit for finish_polled_pending, every other bit is discarded.
ResolveWakes(h) ==
    LET toRun == {t \in batch[h] : status[t] = "Parked" /\ t \in wakeReq} IN
    /\ At(h, "Resolve")
    /\ status' = [t \in Tasks |-> IF t \in toRun THEN "Runnable" ELSE status[t]]
    /\ wakeReq' = {t \in wakeReq : t \in batch[h] => status[t] = "Polling"}
    /\ woken' = [woken EXCEPT ![h] = toRun]
    /\ batch' = [batch EXCEPT ![h] = {}]
    /\ Go(h, "Commit")
    /\ UNCHANGED <<future, wakeQueue, queuedWakes, owner, cur, callVars, owed>>

\* route_task_with_hint for each task the batch made runnable.
CommitWoken(h) ==
    /\ At(h, "Commit")
    /\ \E t \in woken[h] :
          /\ CommitRunnable(t)
          /\ woken' = [woken EXCEPT ![h] = @ \ {t}]
    /\ UNCHANGED <<tableVars, wakerVars, pc, cur, batch, callVars, owed>>

CommitDone(h) ==
    /\ At(h, "Commit")
    /\ woken[h] = {}
    /\ Go(h, "Pick")
    /\ UNCHANGED <<tableVars, wakerVars, owner, cur, batch, woken, callVars, owed>>

LocalQueue(h) == {t \in Tasks : owner[t] = Owner("Queued", h)}

\* pick_next_from_local: the popped task's lease moves to Dispatching.
PickNext(h, t) ==
    /\ At(h, "Pick") \/ At(h, "Repick")
    /\ t \in LocalQueue(h)
    /\ owner' = [owner EXCEPT ![t] = Owner("Dispatching", h)]
    /\ cur' = [cur EXCEPT ![h] = t]
    /\ Go(h, "Take")
    /\ UNCHANGED <<tableVars, wakerVars, batch, woken, callVars, owed>>

\* try_steal_from_locals: an idle hart pulls a movable task into its queue.
Steal(h, t) ==
    /\ At(h, "Pick")
    /\ LocalQueue(h) = {}
    /\ t \in Movable
    /\ owner[t].state = "Queued"
    /\ owner' = [owner EXCEPT ![t] = Owner("Queued", h)]
    /\ Go(h, "Repick")
    /\ UNCHANGED <<tableVars, wakerVars, cur, batch, woken, callVars, owed>>

\* Nothing to run: the loop step ends and the next one drains wakes again.
PickNone(h) ==
    /\ At(h, "Pick") \/ At(h, "Repick")
    /\ LocalQueue(h) = {}
    /\ Go(h, "Loop")
    /\ UNCHANGED <<tableVars, wakerVars, owner, cur, batch, woken, callVars, owed>>

\* Mutant: the future is used without looking at the status or the slot.
TakeRunnableUnchecked(h) ==
    LET t == cur[h] IN
    /\ At(h, "Take")
    /\ status' = [status EXCEPT ![t] = "Polling"]
    /\ future' = [future EXCEPT ![t] = "Taken"]
    /\ wakeReq' = wakeReq \ {t}
    /\ owed' = owed \ {t}
    /\ Go(h, "Poll")
    /\ UNCHANGED <<wakeQueue, queuedWakes, owner, cur, batch, woken, callVars>>

\* take_runnable_future_by_id succeeds.  The table lock is held to the end of
\* the match arm in all three outcomes.
TakeRunnable(h) ==
    LET t == cur[h] IN
    /\ At(h, "Take")
    /\ status[t] = "Runnable" /\ future[t] = "InSlot"
    /\ status' = [status EXCEPT ![t] = "Polling"]
    /\ future' = [future EXCEPT ![t] = "Taken"]
    /\ wakeReq' = wakeReq \ {t}
    /\ owed' = owed \ {t}
    /\ Go(h, "Poll")
    /\ UNCHANGED <<wakeQueue, queuedWakes, owner, cur, batch, woken, callVars>>

Release(h) == Go(h, "Loop") /\ cur' = [cur EXCEPT ![h] = NoTask]

\* TakeRunnableError::Missing, or a terminal task: the metadata is dropped.
TakeMissing(h) ==
    LET t == cur[h] IN
    /\ At(h, "Take")
    /\ \/ status[t] \in {"Absent", "Completed"}
       \/ status[t] = "Runnable" /\ future[t] # "InSlot"
    /\ TaskDropped(t)
    /\ Release(h)
    /\ UNCHANGED <<tableVars, wakerVars, batch, woken, callVars, owed>>

\* Mutant: every task that cannot be taken is dropped.
TakeNotRunnableDrops(h) ==
    /\ At(h, "Take")
    /\ status[cur[h]] \in {"Parked", "Polling"}
    /\ TaskDropped(cur[h])
    /\ Release(h)
    /\ UNCHANGED <<tableVars, wakerVars, batch, woken, callVars, owed>>

\* TakeRunnableError::NotRunnable of a live task: the lease is parked again.
TakeNotRunnable(h) ==
    LET t == cur[h] IN
    /\ At(h, "Take")
    /\ status[t] \in {"Parked", "Polling"}
    /\ CommitStopped(t, h, Owner("Parked", NoHart))
    /\ Release(h)
    /\ UNCHANGED <<tableVars, wakerVars, batch, woken, callVars, owed>>

\* Poll::Ready: finish_polled_complete, task_stopped_local, task_dropped.
PollReady(h) ==
    LET t == cur[h] IN
    /\ At(h, "Poll")
    /\ status' = [status EXCEPT ![t] = "Completed"]
    /\ future' = [future EXCEPT ![t] = "None"]
    /\ wakeReq' = wakeReq \ {t}
    /\ owed' = owed \ {t}
    /\ Go(h, "StopCompleted")
    /\ UNCHANGED <<wakeQueue, queuedWakes, owner, cur, batch, woken, callVars>>

StopCompleted(h) ==
    /\ At(h, "StopCompleted")
    /\ CommitStopped(cur[h], h, Owner("Terminal", NoHart))
    /\ Go(h, "DropCompleted")
    /\ UNCHANGED <<tableVars, wakerVars, cur, batch, woken, callVars, owed>>

DropCompleted(h) ==
    /\ At(h, "DropCompleted")
    /\ TaskDropped(cur[h])
    /\ Release(h)
    /\ UNCHANGED <<tableVars, wakerVars, batch, woken, callVars, owed>>

\* Poll::Pending of a task that was preempted or used up its slice:
\* finish_polled_runnable, then task_stopped_local requeues it.
PollPreempted(h) ==
    LET t == cur[h] IN
    /\ At(h, "Poll")
    /\ status' = [status EXCEPT ![t] = "Runnable"]
    /\ future' = [future EXCEPT ![t] = "InSlot"]
    /\ wakeReq' = wakeReq \ {t}
    /\ Go(h, "StopRunnable")
    /\ UNCHANGED <<wakeQueue, queuedWakes, owner, cur, batch, woken, callVars, owed>>

\* A migration that was requested during the poll moves the task here.
StopRunnable(h) ==
    /\ At(h, "StopRunnable")
    /\ \E g \in Placement(cur[h]) : CommitStopped(cur[h], h, Owner("Queued", g))
    /\ Release(h)
    /\ UNCHANGED <<tableVars, wakerVars, batch, woken, callVars, owed>>

\* Poll::Pending: the scheduler-side Parked owner is published first.
PollPending(h) ==
    /\ At(h, "Poll")
    /\ CommitStopped(cur[h], h, Owner("Parked", NoHart))
    /\ Go(h, "FinishPending")
    /\ UNCHANGED <<tableVars, wakerVars, cur, batch, woken, callVars, owed>>

\* finish_polled_pending without a race: the task is Parked.
FinishParked(h) ==
    LET t == cur[h] IN
    /\ At(h, "FinishPending")
    /\ t \notin wakeReq
    /\ status' = [status EXCEPT ![t] = "Parked"]
    /\ future' = [future EXCEPT ![t] = "InSlot"]
    /\ Release(h)
    /\ UNCHANGED <<wakerVars, owner, batch, woken, callVars, owed>>

\* Mutant: a raced task is made Runnable in the table but not requeued.
FinishRacedUnqueued(h) ==
    LET t == cur[h] IN
    /\ At(h, "FinishPending")
    /\ t \in wakeReq
    /\ status' = [status EXCEPT ![t] = "Runnable"]
    /\ future' = [future EXCEPT ![t] = "InSlot"]
    /\ wakeReq' = wakeReq \ {t}
    /\ Release(h)
    /\ UNCHANGED <<wakeQueue, queuedWakes, owner, batch, woken, callVars, owed>>

\* PendingPollCommit::Woken: a wake that raced the poll makes the task Runnable.
FinishRaced(h) ==
    LET t == cur[h] IN
    /\ At(h, "FinishPending")
    /\ t \in wakeReq
    /\ status' = [status EXCEPT ![t] = "Runnable"]
    /\ future' = [future EXCEPT ![t] = "InSlot"]
    /\ wakeReq' = wakeReq \ {t}
    /\ Go(h, "Mark")
    /\ UNCHANGED <<wakeQueue, queuedWakes, owner, cur, batch, woken, callVars, owed>>

\* mark_runnable_from_hart: mark_runnable under the table lock, which was
\* released after finish_polled_pending, and then commit_woken_task.
MarkRunnable(h) ==
    LET t == cur[h] IN
    /\ At(h, "Mark")
    /\ status[t] \notin {"Absent", "Completed"}
    /\ status' = [status EXCEPT ![t] = "Runnable"]
    /\ Go(h, "MarkCommit")
    /\ UNCHANGED <<future, wakerVars, owner, cur, batch, woken, callVars, owed>>

\* live_nonterminal_task_mut refuses a task another hart completed meanwhile.
MarkTerminal(h) ==
    /\ At(h, "Mark")
    /\ status[cur[h]] \in {"Absent", "Completed"}
    /\ Release(h)
    /\ UNCHANGED <<tableVars, wakerVars, owner, batch, woken, callVars, owed>>

MarkCommit(h) ==
    /\ At(h, "MarkCommit")
    /\ CommitRunnable(cur[h])
    /\ Release(h)
    /\ UNCHANGED <<tableVars, wakerVars, batch, woken, callVars, owed>>

CallProgress(h) ==
    \/ ReserveSubmitted(h) \/ WakeSwap(h) \/ WakeCount(h) \/ WakePush(h)
    \/ RouteOwner(h) \/ RouteCommit(h)

Drain(h) == DrainWakes(h) \/ DrainNothing(h)

PollReturns(h) == PollReady(h) \/ PollPreempted(h) \/ PollPending(h)

LoopProgress(h) ==
    \/ ResolveWakes(h) \/ CommitWoken(h) \/ CommitDone(h)
    \/ PickNone(h) \/ (\E t \in Tasks : PickNext(h, t) \/ Steal(h, t))
    \/ TakeRunnable(h) \/ TakeMissing(h) \/ TakeNotRunnable(h)
    \/ StopCompleted(h) \/ DropCompleted(h) \/ StopRunnable(h)
    \/ FinishParked(h) \/ FinishRaced(h) \/ MarkRunnable(h) \/ MarkTerminal(h)
    \/ MarkCommit(h)

HartNext(h) ==
    \/ \E t \in Tasks : StartWake(h, t) \/ StartPost(h, t) \/ Submit(h, t)
    \/ CallProgress(h)
    \/ Drain(h)
    \/ LoopProgress(h)
    \/ PollReturns(h)

Next == \E h \in Harts : HartNext(h)

Spec == Init /\ [][Next]_vars

\* A hart that is inside a call or between two critical sections goes on, a
\* poll returns, a loop step that only makes calls ends, and a queued task is
\* eventually the one that is picked (the queues are FIFO with aging).
Fairness ==
    \A h \in Harts :
        /\ WF_vars(CallProgress(h))
        /\ WF_vars(LoopProgress(h))
        /\ SF_vars(Drain(h))
        /\ SF_vars(PollReturns(h))
        /\ \A t \in Tasks : SF_vars(PickNext(h, t))

FairSpec == Spec /\ Fairness

-----------------------------------------------------------------------------
(* Properties.                                                             *)

\* Shape of the state of the task table, the waker, the scheduler and the loops.
TypeOK ==
    /\ status \in [Tasks -> Statuses]
    /\ future \in [Tasks -> Futures]
    /\ wakeReq \subseteq Tasks
    /\ wakeQueue \in Seq(Tasks)
    /\ queuedWakes \in Nat
    /\ owner \in [Tasks -> [state : OwnerStates, hart : Harts \cup {NoHart}]]
    /\ pc \in [Harts -> Locations]
    /\ cur \in [Harts -> Tasks \cup {NoTask}]
    /\ batch \in [Harts -> SUBSET Tasks]
    /\ woken \in [Harts -> SUBSET Tasks]
    /\ callStep \in [Harts -> CallSteps]
    /\ callTask \in [Harts -> Tasks \cup {NoTask}]
    /\ callKind \in [Harts -> {"Raw", "Post"}]
    /\ owed \subseteq Tasks

HoldsFuture(h, t) == pc[h] \in {"Poll", "FinishPending"} /\ cur[h] = t

\* A future is never polled by two harts at once: between
\* take_runnable_future_by_id and finish_polled_* it belongs to one hart.
SingleLease ==
    \A g, h \in Harts : \A t \in Tasks :
        HoldsFuture(g, t) /\ HoldsFuture(h, t) => g = h

\* The queued_wakes counter covers every entry of the wake queue, so that a
\* hart that reads 0 misses no entry and the subtraction in drain_wake_ids
\* never underflows; it exceeds the queue only by wakes about to push.
WakeCounter ==
    queuedWakes = Len(wakeQueue) + Cardinality({h \in Harts : callStep[h] = "Push"})

\* An entry of the wake queue, or one about to be there, that will find the
\* wake bit of t set.
EntryComing(t) ==
    \/ t \in Range(wakeQueue)
    \/ \E h \in Harts : t \in batch[h]
    \/ \E h \in Harts : callTask[h] = t /\ callStep[h] \in {"Count", "Push"}

\* A wake of a Parked task t is on its way: the bit is set with an entry
\* coming, or the call that wakes t has not reached the task table yet.
WakeTracked(t) ==
    status[t] = "Parked" =>
        \/ t \in wakeReq /\ EntryComing(t)
        \/ \E h \in Harts : callTask[h] = t /\ callStep[h] \in {"Swap", "Route"}

\* A wake is not lost: a task that was woken since its last poll began is not
\* left Parked with nothing on the way.
WakeNotLost == \A t \in owed : WakeTracked(t)

\* The same for the tasks that never migrate, whatever the others do.
PinnedWakeNotLost == \A t \in owed \ Movable : WakeTracked(t)

\* Someone is committed to queueing t.
CommitComing(t) ==
    \/ \E h \in Harts : t \in woken[h]
    \/ \E h \in Harts : callTask[h] = t /\ callStep[h] \in {"Commit", "Reserve"}
    \/ \E h \in Harts : cur[h] = t /\ pc[h] \in {"Mark", "MarkCommit", "StopRunnable"}

\* A Runnable task is never stranded outside the run queues: it is queued,
\* about to be taken by the hart that dispatched it, or about to be queued.
RunnableIsScheduled ==
    \A t \in Tasks : status[t] = "Runnable" =>
        \/ owner[t].state = "Queued"
        \/ \E h \in Harts : pc[h] = "Take" /\ cur[h] = t
        \/ CommitComing(t)

\* The scheduler never forgets a task whose future is still alive, if the
\* task never migrates.
PinnedTaskHasOwner ==
    \A t \in Tasks \ Movable : status[t] \in {"Runnable", "Polling", "Parked"} =>
        \/ owner[t].state \in {"Parked", "Queued", "Dispatching"}
        \/ \E h \in Harts : callTask[h] = t /\ callStep[h] = "Reserve"

\* Every wake is followed by a new poll of the task, or the task completes in
\* the poll it raced with.
WakeLeadsToPoll == \A t \in Tasks : t \in owed ~> t \notin owed
=============================================================================
