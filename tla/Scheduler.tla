----------------------------- MODULE Scheduler ------------------------------
(***************************************************************************)
(* The run queues of tx-reactor (scheduler.rs) as the hart loop uses them  *)
(* (pick_next_local, commit_woken_task, task_stopped_local,                *)
(* set_task_affinity and the submit calls of runtime.rs).                  *)
(*                                                                         *)
(* Every hart has four queues of task ids; the metadata of a task says     *)
(* where it is queued or which hart has it.  A queue entry counts only if  *)
(* the metadata agrees.  A call routes from an unlocked read and commits   *)
(* under the queue lock and the metadata lock, which is one step here.     *)
(*                                                                         *)
(* The future behind a task and the raw wakers are in module Reactor;      *)
(* here a task may be woken at any time.                                   *)
(***************************************************************************)
EXTENDS Integers, Sequences, FiniteSets, FiniteSetsExt, SequencesExt

CONSTANTS
    N,            \* harts
    Tasks,
    Kind,         \* Kind[t]: "Kernel" (kernel_only), "User" (userspace_thread) or "Fair"
    Movable,      \* tasks with MigrationPolicy::Movable
    Masks,        \* the masks set_task_affinity is called with
    Hints,        \* the WakeHints of wakes
    Reasons,      \* the StopReasons of polls
    AgingTurns,   \* AGING_PROMOTION_TURNS
    ScanLimit,    \* STEAL_SCAN_LIMIT
    Callers       \* bound: the pairs <<h, t>> such that hart h makes calls about t

Harts == 0 .. N - 1
Queues == {"Kernel", "Boosted", "New", "Preempted"}

ASSUME SchedulerAssumption ==
    /\ N \in Nat \ {0} /\ AgingTurns \in Nat \ {0} /\ ScanLimit \in Nat \ {0}
    /\ Kind \in [Tasks -> {"Kernel", "User", "Fair"}]
    /\ Movable \subseteq Tasks
    /\ Masks \subseteq (SUBSET Harts) \ {{}}
    /\ Hints \subseteq {"Normal", "SelfYield", "WakeHandoff", "LifecycleWake", "PriorityBoost", "SignalDelivery"}
    /\ Reasons \subseteq {"Blocked", "Completed", "SliceExpired", "UserspaceTrap"}

VARIABLES
    meta,     \* SchedulerShared.meta; age is pick_turn - queued_turn, up to AgingTurns
    queues,   \* the run queues of each hart
    streak,   \* aged_preempted_picks_since_new, up to its limit
    pc,       \* where each hart is in the pick, the poll and the stop
    cur,      \* the task a hart runs
    stop,     \* the stop a hart commits: reason and claimed hart
    fair,     \* fair_ready of pop_fair_aged_preempted_from_local
    victim,   \* offset of the next steal victim; N when none is tried
    call,     \* the wake, submit or affinity call a hart is inside
    preempt,  \* the UserspacePreempt marker of each hart
    slot      \* the task behind each id: Free, Fresh (never polled), Live, Completed or Gone

vars == <<meta, queues, streak, pc, cur, stop, fair, victim, call, preempt, slot>>
pickVars == <<streak, pc, cur, fair, victim>>

None == "None"
NoHart == -1
StreakLimit == 1    \* AGED_PREEMPTED_STREAK_LIMIT_WHILE_NEW_READY
NoMeta == [owner |-> "None", hart |-> NoHart, queue |-> "None", affinity |-> {}, last |-> NoHart,
           stolen |-> FALSE, must |-> FALSE, latency |-> FALSE, slice |-> FALSE, budget |-> FALSE, age |-> 0]
NoCall == [step |-> "None", task |-> None, hart |-> NoHart, to |-> NoHart, queue |-> "None",
           mask |-> {}, hint |-> "None"]
NoStop == [reason |-> "None", claimed |-> NoHart]

Init ==
    /\ meta = [t \in Tasks |-> NoMeta]
    /\ queues = [h \in Harts |-> [k \in Queues |-> <<>>]]
    /\ streak = [h \in Harts |-> 0]
    /\ pc = [h \in Harts |-> "Kernel"]
    /\ cur = [h \in Harts |-> None]
    /\ stop = [h \in Harts |-> NoStop]
    /\ fair = [h \in Harts |-> FALSE]
    /\ victim = [h \in Harts |-> 1]
    /\ call = [h \in Harts |-> NoCall]
    /\ preempt = [h \in Harts |-> FALSE]
    /\ slot = [t \in Tasks |-> "Free"]

IsQueuedOn(t, h, k) == meta[t].owner = "Queued" /\ meta[t].hart = h /\ meta[t].queue = k
FirstHart(mask) == Min(mask)

\* A hart calls the scheduler between picks and from inside a poll.
MayCall(h, t) == <<h, t>> \in Callers /\ pc[h] \in {"Kernel", "Run"} /\ call[h] = NoCall
Call(h, c) == call' = [call EXCEPT ![h] = c]

-----------------------------------------------------------------------------
(* Submission: the metadata is reserved first, the entry pushed after it.  *)

SubmitQueue(t) == IF Kind[t] = "Kernel" THEN "Kernel" ELSE "New"

\* Threads get the mask of the online harts, kernel tasks and I/O services the
\* hart they are submitted on.  Children of a thread are spread by a counter
\* that all submissions share, hence over any hart of the mask.
Submit(h, t) ==
    LET mask == IF Kind[t] = "User" THEN Harts ELSE {h} IN
    /\ MayCall(h, t) /\ slot[t] = "Free"
    /\ \E target \in IF t \in Movable THEN mask ELSE {FirstHart(mask)} :
          /\ meta' = [meta EXCEPT ![t] = [NoMeta EXCEPT !.owner = "Queued", !.hart = target,
                                             !.queue = SubmitQueue(t), !.affinity = mask]]
          /\ Call(h, [NoCall EXCEPT !.step = "Push", !.task = t, !.hart = target, !.queue = SubmitQueue(t)])
    /\ slot' = [slot EXCEPT ![t] = "Fresh"]
    /\ UNCHANGED <<queues, pickVars, stop, preempt>>

\* apply_local_enqueue
Push(h) ==
    LET c == call[h] IN
    /\ c.step = "Push"
    /\ queues' = [queues EXCEPT ![c.hart][c.queue] = Append(@, c.task)]
    /\ Call(h, NoCall)
    /\ UNCHANGED <<meta, pickVars, stop, preempt, slot>>

-----------------------------------------------------------------------------
(* Wakes.                                                                  *)

\* home_hart_for_meta
HomeHart(m) ==
    IF m.last \in m.affinity THEN m.last ELSE FirstHart(m.affinity)

\* wake_target_hart_for_meta
WakeTarget(t, hint, h) ==
    IF hint = "LifecycleWake" /\ t \in Movable /\ h \in meta[t].affinity THEN h ELSE HomeHart(meta[t])

Promotes(t, hint) == Kind[t] = "User" /\ hint = "SignalDelivery"

\* requests_userspace_preempt
Preempts(hint) == hint \notin {"Normal", "SelfYield"}

\* Mutant: a task can be woken before its first poll.
WakeFresh(h, t) ==
    /\ MayCall(h, t) /\ slot[t] \in {"Fresh", "Live"} /\ meta[t].owner # "None"
    /\ \E hint \in Hints :
          Call(h, [NoCall EXCEPT !.step = "Wake", !.task = t, !.hint = hint,
                      !.hart = IF meta[t].owner = "Queued" /\ Promotes(t, hint)
                               THEN meta[t].hart ELSE WakeTarget(t, hint, h)])
    /\ UNCHANGED <<meta, queues, pickVars, stop, preempt, slot>>

\* runnable_target_hart: the unlocked routing read.  Wakers and the mailbox of
\* a task exist from its first poll on.
Wake(h, t) ==
    /\ MayCall(h, t) /\ slot[t] = "Live" /\ meta[t].owner # "None"
    /\ \E hint \in Hints :
          Call(h, [NoCall EXCEPT !.step = "Wake", !.task = t, !.hint = hint,
                      !.hart = IF meta[t].owner = "Queued" /\ Promotes(t, hint)
                               THEN meta[t].hart ELSE WakeTarget(t, hint, h)])
    /\ UNCHANGED <<meta, queues, pickVars, stop, preempt, slot>>

\* runnable_queue_for_meta: the queue and whether at its front.
RunnableQueue(t, hint) ==
    CASE Kind[t] = "Kernel" -> <<"Kernel", FALSE>>
      [] hint \in {"LifecycleWake", "PriorityBoost", "SignalDelivery"} -> <<"Boosted", FALSE>>
      [] meta[t].budget -> <<"Preempted", Kind[t] # "User" \/ hint = "WakeHandoff">>
      [] OTHER -> <<"New", FALSE>>

PushTo(q, t, front) == IF front THEN <<t>> \o q ELSE Append(q, t)
IsIn(t, q) == \E i \in DOMAIN q : q[i] = t

\* Mutant: a task that is queued already is queued again.
WakeableQueued(m) == m.owner \in {"Parked", "Queued"}

Wakeable(m) == m.owner = "Parked"

\* commit_runnable_on_local: an owner or target that changed since the read
\* repeats the commit on the other hart; a queued thread is promoted by a
\* signal; a task that a hart has is left to the end of its poll.
WakeCommit(h) ==
    LET c == call[h]
        t == c.task
        m == meta[t]
        q == RunnableQueue(t, c.hint)
        Retry(g) == Call(h, [c EXCEPT !.hart = g]) /\ UNCHANGED <<queues, meta, preempt>>
        Placed == Call(h, NoCall) /\ preempt' = [preempt EXCEPT ![h] = @ \/ (c.hart = h /\ Preempts(c.hint))]
    IN
    /\ c.step = "Wake"
    /\ CASE m.owner = "Queued" /\ m.hart # c.hart -> Retry(m.hart)
         [] m.owner = "Queued" /\ m.hart = c.hart /\ Promotes(t, c.hint) /\ m.queue # "Boosted" ->
              /\ queues' = [queues EXCEPT ![c.hart] = [@ EXCEPT
                    ![m.queue] = RemoveFirst(@, t), !["Boosted"] = Append(@, t)]]
              /\ meta' = [meta EXCEPT ![t].queue = "Boosted", ![t].latency = FALSE, ![t].age = 0]
              /\ Placed
         [] Wakeable(m) /\ WakeTarget(t, c.hint, h) # c.hart -> Retry(WakeTarget(t, c.hint, h))
         [] Wakeable(m) /\ WakeTarget(t, c.hint, h) = c.hart ->
              /\ queues' = [queues EXCEPT ![c.hart][q[1]] = PushTo(@, t, q[2])]
              /\ meta' = [meta EXCEPT ![t] = [@ EXCEPT !.owner = "Queued", !.hart = c.hart, !.queue = q[1],
                    !.latency = q[1] = "Preempted" /\ c.hint = "Normal" /\ Kind[t] = "User"]]
              /\ Placed
         [] OTHER -> Call(h, NoCall) /\ UNCHANGED <<queues, meta, preempt>>
    /\ UNCHANGED <<pickVars, stop, slot>>

-----------------------------------------------------------------------------
(* Affinity.                                                               *)

\* set_affinity_for_locals: a task queued on a forbidden hart is to be moved, a
\* running one moves when it stops, a parked one when it is woken.
Affinity(h, t, mask) ==
    LET m == meta[t]
        moves == m.owner = "Queued" /\ m.hart \notin mask
    IN
    IF m.owner \in {"None", "Terminal"} THEN Call(h, NoCall) /\ UNCHANGED meta
    ELSE /\ meta' = [meta EXCEPT ![t].affinity = mask,
                        ![t].must = @ \/ (m.owner = "Dispatching" /\ m.hart \notin mask)]
         /\ Call(h, IF moves THEN [NoCall EXCEPT !.step = "Move", !.task = t, !.hart = m.hart,
                                      !.to = FirstHart(mask), !.queue = m.queue, !.mask = mask]
                    ELSE NoCall)

\* The tid of a thread is registered when its submission has returned.
SetAffinity(h, t) ==
    /\ MayCall(h, t) /\ Kind[t] = "User" /\ \A g \in Harts : ~(call[g].step = "Push" /\ call[g].task = t)
    /\ \E mask \in Masks : mask # meta[t].affinity /\ Affinity(h, t, mask)
    /\ UNCHANGED <<queues, pickVars, stop, preempt, slot>>

AffinityRetry(h) ==
    /\ call[h].step = "Affinity"
    /\ Affinity(h, call[h].task, call[h].mask)
    /\ UNCHANGED <<queues, pickVars, stop, preempt, slot>>

\* commit_affinity_move_locked, under both queue locks.
Move(h) ==
    LET c == call[h]
        t == c.task
        m == meta[t]
        stale == \/ ~IsQueuedOn(t, c.hart, c.queue)
                 \/ c.hart \in m.affinity \/ FirstHart(m.affinity) # c.to
    IN
    /\ c.step = "Move"
    /\ IF m.owner \in {"None", "Terminal"} THEN Call(h, NoCall) /\ UNCHANGED <<queues, meta>>
       ELSE IF stale THEN Call(h, [c EXCEPT !.step = "Affinity"]) /\ UNCHANGED <<queues, meta>>
       ELSE /\ queues' = [queues EXCEPT ![c.hart][c.queue] = RemoveFirst(@, t),
                                         ![c.to][c.queue] = Append(@, t)]
            /\ meta' = [meta EXCEPT ![t].hart = c.to, ![t].last = c.to]
            /\ Call(h, NoCall)
    /\ UNCHANGED <<pickVars, stop, preempt, slot>>

-----------------------------------------------------------------------------
(* Picking.                                                                *)

\* The entries of a queue that the metadata confirms.
LiveAt(h, k) == {i \in DOMAIN queues[h][k] : IsQueuedOn(queues[h][k][i], h, k)}

\* Mutant: queued tasks do not age.
OlderNever(m) == m

\* A turn of the scheduler as the tasks of the preempted queues count it.
Older(m) ==
    IF m.owner = "Queued" /\ m.queue = "Preempted" THEN [m EXCEPT !.age = Min({AgingTurns, @ + 1})] ELSE m

\* finish_popped_task_locked: Queued -> Dispatching, and a new turn begins.
Dispatch(h, t) ==
    /\ meta' = [x \in Tasks |->
          IF x # t THEN Older(meta[x])
          ELSE [meta[t] EXCEPT !.owner = "Dispatching", !.hart = h, !.queue = "None", !.latency = FALSE,
                               !.slice = meta[t].queue # "Kernel",
                               !.budget = @ \/ meta[t].queue # "Kernel", !.age = 0]]
    /\ pc' = [pc EXCEPT ![h] = "Run"]
    /\ cur' = [cur EXCEPT ![h] = t]
    /\ victim' = [victim EXCEPT ![h] = 1]
    /\ slot' = [slot EXCEPT ![t] = IF @ = "Fresh" THEN "Live" ELSE @]
    /\ fair' = [fair EXCEPT ![h] = FALSE]

\* Nothing there: the next place to look.
Miss(h, next) ==
    /\ pc' = [pc EXCEPT ![h] = next]
    /\ UNCHANGED <<meta, cur, slot>>

HasLatency(h, q) == \E i \in DOMAIN q : IsQueuedOn(q[i], h, "Preempted") /\ meta[q[i]].latency

\* pop_from_local_queue: entries that the metadata does not confirm are dropped.
\* When there is nothing to run, the loop consumes its markers and starts again.
PopFront(h, k, next) ==
    LET q == queues[h][k]
        live == LiveAt(h, k)
        rest == SubSeq(q, Min(live) + 1, Len(q))
    IN
    /\ pc[h] = k /\ call[h] = NoCall
    /\ IF live = {}
       THEN /\ queues' = [queues EXCEPT ![h][k] = <<>>]
            /\ Miss(h, next)
            /\ victim' = IF next = "Kernel" THEN [victim EXCEPT ![h] = 1] ELSE victim
            /\ preempt' = IF next = "Kernel" THEN [preempt EXCEPT ![h] = FALSE] ELSE preempt
            /\ UNCHANGED <<streak, fair>>
       ELSE /\ queues' = [queues EXCEPT ![h][k] = rest]
            /\ Dispatch(h, q[Min(live)])
            /\ streak' = [streak EXCEPT ![h] =
                  IF k = "New" THEN 0
                  ELSE IF k = "Preempted" /\ HasLatency(h, rest) THEN StreakLimit ELSE @]
            /\ UNCHANGED preempt
    /\ UNCHANGED <<stop, call>>

\* The first part of pop_fair_aged_preempted_from_local.
FairCheck(h) ==
    LET ready == queues[h]["New"] # <<>> \/ HasLatency(h, queues[h]["Preempted"]) IN
    /\ pc[h] = "Fair"
    /\ fair' = [fair EXCEPT ![h] = ready]
    /\ streak' = [streak EXCEPT ![h] = IF ready THEN @ ELSE 0]
    /\ Miss(h, IF ready /\ streak[h] >= StreakLimit THEN "Latency" ELSE "Aged")
    /\ UNCHANGED <<queues, stop, victim, call, preempt>>

\* One entry from the middle of the preempted queue.
PopPreemptedAt(h, chosen, next, newStreak) ==
    LET q == queues[h]["Preempted"] IN
    /\ IF chosen = {}
       THEN Miss(h, next) /\ fair' = [fair EXCEPT ![h] = FALSE] /\ UNCHANGED <<queues, streak, victim>>
       ELSE /\ queues' = [queues EXCEPT ![h]["Preempted"] = RemoveAt(q, Min(chosen))]
            /\ Dispatch(h, q[Min(chosen)])
            /\ streak' = [streak EXCEPT ![h] = newStreak]
    /\ UNCHANGED <<stop, call, preempt>>

\* pop_aged_preempted_from_local
PopAged(h) ==
    /\ pc[h] = "Aged"
    /\ PopPreemptedAt(h, {i \in LiveAt(h, "Preempted") : meta[queues[h]["Preempted"][i]].age >= AgingTurns},
                      "Latency", IF fair[h] THEN StreakLimit ELSE streak[h])

\* pop_latency_wake_preempted_from_local
PopLatency(h) ==
    /\ pc[h] = "Latency"
    /\ PopPreemptedAt(h, {i \in LiveAt(h, "Preempted") : /\ meta[queues[h]["Preempted"][i]].latency
                                                          /\ streak[h] >= StreakLimit}, "New", 0)

\* pick_next_from_local, one queue after the other.
Pick(h) ==
    \/ PopFront(h, "Kernel", "Boosted") \/ PopFront(h, "Boosted", "Fair")
    \/ FairCheck(h) \/ PopAged(h) \/ PopLatency(h)
    \/ PopFront(h, "New", "Preempted")
    \/ PopFront(h, "Preempted", IF victim[h] < N THEN "Steal" ELSE "Kernel")

-----------------------------------------------------------------------------
(* Stealing.                                                               *)

Stealable(t, thief) == t \in Movable /\ Kind[t] # "Kernel" /\ ~meta[t].stolen /\ thief \in meta[t].affinity

\* Mutant: the entries that were looked at in vain are not put back.
LeftBehindNone(h, v, scanned) == <<>>

\* The scanned entries that stay with the victim: confirmed, but not to be stolen.
LeftBehind(h, v, scanned) ==
    SelectSeq(scanned, LAMBDA t : IsQueuedOn(t, v, "Preempted") /\ ~Stealable(t, h))

\* try_steal_from_locals with the next victim of pick_next_local.  Either lock
\* may be taken; a success is followed by one more pick.
Steal(h) ==
    LET v == (h + victim[h]) % N
        q == queues[v]["Preempted"]
        good == {i \in LiveAt(v, "Preempted") : i <= ScanLimit /\ Stealable(q[i], h)}
        scan == IF good = {} THEN Min({ScanLimit, Len(q)}) ELSE Min(good) - 1
        left == LeftBehind(h, v, SubSeq(q, 1, scan))
    IN
    /\ pc[h] = "Steal"
    /\ \/ /\ good # {}
          /\ queues' = [queues EXCEPT ![v]["Preempted"] = left \o SubSeq(q, scan + 2, Len(q)),
                                       ![h]["Preempted"] = <<q[scan + 1]>> \o @]
          /\ meta' = [meta EXCEPT ![q[scan + 1]] = [@ EXCEPT !.hart = h, !.last = h, !.stolen = TRUE]]
          /\ victim' = [victim EXCEPT ![h] = N]
          /\ pc' = [pc EXCEPT ![h] = "Kernel"]
          /\ UNCHANGED preempt
       \/ /\ queues' = IF good = {} THEN [queues EXCEPT ![v]["Preempted"] = left \o SubSeq(q, scan + 1, Len(q))]
                       ELSE queues
          /\ victim' = [victim EXCEPT ![h] = IF @ + 1 < N THEN @ + 1 ELSE 1]
          /\ pc' = [pc EXCEPT ![h] = IF victim[h] + 1 < N THEN "Steal" ELSE "Kernel"]
          /\ preempt' = IF victim[h] + 1 < N THEN preempt ELSE [preempt EXCEPT ![h] = FALSE]
          /\ UNCHANGED meta
    /\ UNCHANGED <<streak, cur, stop, fair, call, slot>>

-----------------------------------------------------------------------------
(* Stopping.                                                               *)

\* Mutant: a change of affinity during the poll is forgotten.
StopTargetStays(t, h) == h

StopTarget(t, h) == IF meta[t].must /\ h \notin meta[t].affinity THEN FirstHart(meta[t].affinity) ELSE h

\* The poll is over; its budget of polls may be used up, which ends the step
\* of the loop and consumes the markers.
Leave(h) ==
    /\ pc' = [pc EXCEPT ![h] = "Kernel"]
    /\ cur' = [cur EXCEPT ![h] = None]
    /\ stop' = [stop EXCEPT ![h] = NoStop]
    /\ preempt' \in {preempt, [preempt EXCEPT ![h] = FALSE]}

\* Why a poll of t on h ends: a marker that anyone set on this hart preempts
\* whatever task is polled; a thread is also preempted by the timer.
EndsWith(h, t, reason) ==
    CASE reason = "Completed" -> TRUE
      [] reason = "UserspaceTrap" -> preempt[h] \/ Kind[t] = "User"
      [] reason = "SliceExpired" -> ~preempt[h] /\ meta[t].slice
      [] reason = "Blocked" -> ~preempt[h]

\* The poll returned: the task table has the result, stopped_target_hart routes
\* the stop.  Another hart may have dropped a completed task already.
StopRoute(h) ==
    LET t == cur[h] IN
    /\ pc[h] = "Run" /\ call[h] = NoCall
    /\ \E reason \in Reasons :
          /\ EndsWith(h, t, reason)
          /\ stop' = [stop EXCEPT ![h] = [reason |-> reason, claimed |-> StopTarget(t, h)]]
          /\ slot' = IF reason = "Completed" THEN [slot EXCEPT ![t] = "Completed"] ELSE slot
          /\ preempt' = IF reason = "Completed" THEN preempt ELSE [preempt EXCEPT ![h] = FALSE]
    /\ pc' = [pc EXCEPT ![h] = "Stop"]
    /\ UNCHANGED <<meta, queues, streak, cur, fair, victim, call>>

\* apply_stopped_fields, with the budget the poll left: all of it used only by
\* a poll that ran longer than its slice, or had none.
Stopped(m, reason, target, left) ==
    [m EXCEPT !.last = target, !.budget = @ /\ left /\ reason # "SliceExpired", !.stolen = FALSE,
              !.must = FALSE, !.hart = NoHart, !.slice = FALSE,
              !.owner = IF reason = "Completed" THEN "Terminal" ELSE "Parked"]

\* commit_stopped_on_local: only the hart with the lease publishes the stop, and
\* what goes back into a queue is queued in the same transaction.
StopCommit(h) ==
    LET t == cur[h]
        r == stop[h].reason
        target == StopTarget(t, h)
        Finish == IF r = "Completed" THEN pc' = [pc EXCEPT ![h] = "Drop"] /\ UNCHANGED <<cur, stop, preempt>>
                  ELSE Leave(h)
    IN
    /\ pc[h] = "Stop"
    /\ IF meta[t].owner # "Dispatching" \/ meta[t].hart # h
       THEN Finish /\ UNCHANGED <<meta, queues>>
       ELSE IF target # stop[h].claimed
       THEN stop' = [stop EXCEPT ![h].claimed = target] /\ UNCHANGED <<meta, queues, pc, cur, preempt>>
       ELSE /\ \E left \in BOOLEAN :
                  LET m == Stopped(meta[t], r, target, left) IN
                  /\ r = "Blocked" /\ meta[t].slice => left
                  /\ IF r \in {"SliceExpired", "UserspaceTrap"}
                     THEN /\ meta' = [meta EXCEPT ![t] = [m EXCEPT !.owner = "Queued", !.hart = target,
                                                                   !.queue = "Preempted"]]
                          /\ queues' = [queues EXCEPT ![target]["Preempted"] =
                                PushTo(@, t, r = "UserspaceTrap" /\ m.budget /\ Kind[t] # "User")]
                     ELSE meta' = [meta EXCEPT ![t] = m] /\ UNCHANGED queues
            /\ Finish
    /\ UNCHANGED <<streak, fair, victim, call, slot>>

\* task_dropped at the end of the poll that completed the task.
TaskDropped(h) ==
    /\ pc[h] = "Drop"
    /\ meta' = [meta EXCEPT ![cur[h]] = NoMeta]
    /\ Leave(h)
    /\ UNCHANGED <<queues, streak, fair, victim, call, slot>>

\* Mutant: a parked task is reclaimed like a completed one.
DrainParked(h, t) ==
    /\ MayCall(h, t)
    /\ slot[t] = "Completed" \/ (slot[t] = "Live" /\ meta[t].owner = "Parked")
    /\ meta' = [meta EXCEPT ![t] = NoMeta]
    /\ slot' = [slot EXCEPT ![t] = "Gone"]
    /\ UNCHANGED <<queues, pickVars, stop, call, preempt>>

\* drain_terminal on any hart.  What happens when the id is given to another
\* task is in module TaskSlots.
DrainTerminal(h, t) ==
    /\ MayCall(h, t) /\ slot[t] = "Completed"
    /\ meta' = [meta EXCEPT ![t] = NoMeta]
    /\ slot' = [slot EXCEPT ![t] = "Gone"]
    /\ UNCHANGED <<queues, pickVars, stop, call, preempt>>

-----------------------------------------------------------------------------
Calls(h) == Push(h) \/ WakeCommit(h) \/ AffinityRetry(h) \/ Move(h)

HartLoop(h) == Pick(h) \/ Steal(h) \/ StopRoute(h) \/ StopCommit(h) \/ TaskDropped(h) \/ Calls(h)

Next ==
    \E h \in Harts :
        \/ HartLoop(h)
        \/ \E t \in Tasks : Submit(h, t) \/ Wake(h, t) \/ SetAffinity(h, t) \/ DrainTerminal(h, t)

Spec == Init /\ [][Next]_vars

\* A hart goes round its loop for ever: a pick ends, a poll returns and a
\* call that the loop or the poll makes gets through.
GoesRound(h) == []<>(pc[h] \in {"Kernel", "Run"}) /\ []<>(pc[h] \notin {"Kernel", "Run"})

FairSpec == Spec /\ \A h \in Harts : GoesRound(h)

-----------------------------------------------------------------------------
(* Properties.                                                             *)

\* A submission has reserved the metadata of t and not pushed its entry yet.
Pushing(t) == \E h \in Harts : call[h].step = "Push" /\ call[h].task = t

\* A task that the metadata calls queued has its entry in that very queue: else
\* nobody would ever pick it, and "queued task metadata has no matching
\* source queue entry".
QueuedIsPhysical ==
    \A t \in Tasks : meta[t].owner = "Queued" => Pushing(t) \/ IsIn(t, queues[meta[t].hart][meta[t].queue])

\* A task is at most once in the queues, and not at all while a hart has it.
OneEntry ==
    \A t \in Tasks :
        Cardinality({p \in Harts \X Queues : IsIn(t, queues[p[1]][p[2]])})
            <= IF meta[t].owner = "Queued" /\ ~Pushing(t) THEN 1 ELSE 0

\* The scheduler as a lease of tasks: module RunLease.
LeaseState(t) ==
    CASE slot[t] \in {"Free", "Gone"} -> "Absent"
      [] slot[t] = "Completed" -> "Done"
      [] meta[t].owner = "Queued" -> "Ready"
      [] meta[t].owner = "Dispatching" -> "Held"
      [] OTHER -> "Parked"

Lease == INSTANCE RunLease WITH
    state <- [t \in Tasks |-> LeaseState(t)],
    runner <- [h \in Harts |-> IF pc[h] \in {"Run", "Stop", "Drop"} THEN cur[h] ELSE None]

\* Wakes, steals, moves, preemptions and stops of several harts together grant
\* each task to one hart at a time, and take it back only from that hart.
ImplementsRunLease == Lease!Spec

\* A task on a hart that its affinity forbids is on its way to another one:
\* the call that changed the affinity is moving it, or it moves when it stops.
AffinityEnforced ==
    \A t \in Tasks :
        /\ meta[t].owner \in {"Queued", "Dispatching"}
        /\ meta[t].hart \notin meta[t].affinity
        => \/ meta[t].owner = "Dispatching" /\ meta[t].must
           \/ \E h \in Harts : call[h].task = t /\ call[h].step \in {"Move", "Affinity"}

\* The assertions of the signal promotion and of the affinity move: the entry
\* they remove is there.
PromotionFindsEntry ==
    \A h \in Harts :
        LET c == call[h]
            m == meta[c.task]
        IN
        /\ c.step = "Wake" /\ m.owner = "Queued" /\ m.hart = c.hart
        /\ Promotes(c.task, c.hint) /\ m.queue # "Boosted"
        => IsIn(c.task, queues[c.hart][m.queue])

\* A preempted task is picked in the end, although other tasks keep coming back
\* in front of it: aging (pop_aged_preempted_from_local) gets it through.  Only
\* signals may overtake it for ever, as the boosted queue comes before aging.
PreemptedIsPicked ==
    (<>[]\A h \in Harts : call[h].hint # "SignalDelivery") =>
        \A t \in Tasks : (meta[t].owner = "Queued" /\ meta[t].queue = "Preempted")
                            ~> (meta[t].owner # "Queued" \/ meta[t].queue # "Preempted")
=============================================================================
