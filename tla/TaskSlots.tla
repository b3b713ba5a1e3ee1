----------------------------- MODULE TaskSlots -----------------------------
(***************************************************************************)
(* The life of a slot of the reactor's task table: submission, completion, *)
(* cancellation, drain and reuse under a new generation (TaskTable in      *)
(* task.rs), together with the scheduler metadata and the wake queue,      *)
(* which know a task by its id only, without the generation                *)
(* (scheduler.rs, waker.rs, drain_terminal in runtime.rs).                 *)
(*                                                                         *)
(* Module Reactor has the wake and poll races of a task that lives in one  *)
(* slot; here the harts race over who owns the slot.  A step is one        *)
(* critical section.  A hart at "Loop" or inside a poll may drain, submit  *)
(* and cancel; SharedReactor::with takes no lock around these calls.       *)
(***************************************************************************)
EXTENDS Integers, Sequences, FiniteSets, SequencesExt

CONSTANTS
    Harts,
    MaxSlots,   \* bound: slots the table may grow to
    LastGen,    \* the last generation: TaskGeneration::next fails there
    MayCancel   \* TRUE iff cancel_task is called

ASSUME SlotsAssumption ==
    /\ MaxSlots \in Nat \ {0}
    /\ LastGen \in Nat
    /\ MayCancel \in BOOLEAN

VARIABLES
    slots,     \* TaskTable.slots: generation, status of the task, future present
    free,      \* TaskTable.free, used as a stack
    terminal,  \* TaskTable.completed and TaskTable.cancelled
    bits,      \* the keys whose TaskWakeState has wake_requested set
    wakeIds,   \* the ids in the wake queue
    meta,      \* the scheduler's metadata by id
    queue,     \* the physical run queue of each hart
    pc,        \* where each hart is in the loop
    key,       \* the key of the task a hart dispatched
    call,      \* the drain, submit, cancel or wake commit a hart is inside
    wakes      \* history: the keys that were woken

vars == <<slots, free, terminal, bits, wakeIds, meta, queue, pc, key, call, wakes>>
tableVars == <<slots, free, terminal>>
wakeVars == <<bits, wakeIds, wakes>>
schedVars == <<meta, queue>>

Ids == 0..(MaxSlots - 1)
Keys == [id : Ids, gen : 0..LastGen]
Live == {"Runnable", "Polling", "Parked"}
Terminal == {"Completed", "Cancelled"}
NoKey == [id |-> -1, gen |-> -1]
NoMeta == [state |-> "None", hart |-> "None"]
NoCall == [step |-> "None", ids |-> {}, hart |-> "None"]

Meta(state, hart) == [state |-> state, hart |-> hart]

Init ==
    /\ slots = <<>>
    /\ free = <<>>
    /\ terminal = [s \in Terminal |-> <<>>]
    /\ bits = {}
    /\ wakeIds = {}
    /\ wakes = {}
    /\ meta = [i \in Ids |-> NoMeta]
    /\ queue = [h \in Harts |-> <<>>]
    /\ pc = [h \in Harts |-> "Loop"]
    /\ key = [h \in Harts |-> NoKey]
    /\ call = [h \in Harts |-> NoCall]

\* Slot i of the table; ids count from 0, the sequence from 1.
Slot(i) == slots[i + 1]
Allocated == 0..(Len(slots) - 1)
KeyOf(i) == [id |-> i, gen |-> Slot(i).gen]

\* live_task: the slot still holds the task of the key.
IsCurrent(k) == k.id \in Allocated /\ Slot(k.id).gen = k.gen /\ Slot(k.id).status # "Empty"

\* live_nonterminal_task_mut
IsLive(k) == IsCurrent(k) /\ Slot(k.id).status \in Live

\* A hart changes the status of the task in slot i, taking or returning its future.
SetTask(i, s, hasFuture) ==
    slots' = [slots EXCEPT ![i + 1] = [gen |-> @.gen, status |-> s, future |-> hasFuture]]

MayCall(h) == pc[h] \in {"Loop", "Poll"} /\ call[h] = NoCall
At(h, location) == pc[h] = location /\ call[h] = NoCall
Calling(h, step) == call[h].step = step
Go(h, location) == pc' = [pc EXCEPT ![h] = location]
CallTo(h, step, ids) == call' = [call EXCEPT ![h] = [step |-> step, ids |-> ids, hart |-> "None"]]
CallEnds(h) == call' = [call EXCEPT ![h] = NoCall]

\* The call works through a set of ids, one critical section each.
NextId(h, i) ==
    IF call[h].ids = {i} THEN CallEnds(h) ELSE CallTo(h, call[h].step, call[h].ids \ {i})

-----------------------------------------------------------------------------
(* Submission.                                                             *)

\* The free list is popped from its end; a slot that is occupied or whose
\* generation is exhausted is dropped from the list and never used again.
Usable(i) == Slot(i).status = "Empty" /\ Slot(i).gen < LastGen
Candidates == {n \in 1..Len(free) : Usable(free[n])}
FreeIndex == CHOOSE n \in Candidates : \A m \in Candidates : m <= n

\* Mutant: the search takes the whole list and keeps one slot of it.
ReuseSlotLosesRest(h) ==
    LET i == free[FreeIndex] IN
    /\ MayCall(h)
    /\ Candidates # {}
    /\ slots' = [slots EXCEPT ![i + 1] = [gen |-> @.gen + 1, status |-> "Runnable", future |-> TRUE]]
    /\ free' = <<>>
    /\ CallTo(h, "Reserve", {i})
    /\ UNCHANGED <<terminal, wakeVars, schedVars, pc, key>>

\* submit with take_reusable_slot.
ReuseSlot(h) ==
    LET i == free[FreeIndex] IN
    /\ MayCall(h)
    /\ Candidates # {}
    /\ slots' = [slots EXCEPT ![i + 1] = [gen |-> @.gen + 1, status |-> "Runnable", future |-> TRUE]]
    /\ free' = SubSeq(free, 1, FreeIndex - 1)
    /\ CallTo(h, "Reserve", {i})
    /\ UNCHANGED <<terminal, wakeVars, schedVars, pc, key>>

\* submit with push_fresh_slot.
FreshSlot(h) ==
    LET i == Len(slots) IN
    /\ MayCall(h)
    /\ Candidates = {}
    /\ Len(slots) < MaxSlots
    /\ slots' = Append(slots, [gen |-> 0, status |-> "Runnable", future |-> TRUE])
    /\ free' = <<>>
    /\ CallTo(h, "Reserve", {i})
    /\ UNCHANGED <<terminal, wakeVars, schedVars, pc, key>>

\* reserve_submitted_task overwrites whatever metadata the id has.
Reserve(h) ==
    /\ Calling(h, "Reserve")
    /\ \E g \in Harts, i \in call[h].ids :
          /\ meta' = [meta EXCEPT ![i] = Meta("Queued", g)]
          /\ call' = [call EXCEPT ![h] = [step |-> "Push", ids |-> {i}, hart |-> g]]
    /\ UNCHANGED <<tableVars, wakeVars, queue, pc, key>>

\* apply_local_enqueue pushes the entry whatever became of the metadata.
PushEntry(h) ==
    /\ Calling(h, "Push")
    /\ \E i \in call[h].ids : queue' = [queue EXCEPT ![call[h].hart] = Append(@, i)]
    /\ CallEnds(h)
    /\ UNCHANGED <<tableVars, wakeVars, meta, pc, key>>

-----------------------------------------------------------------------------
(* Drain and cancellation.                                                 *)

\* drain_status: the slots in the list that still hold a task of that status
\* are emptied and go to the free list.
Drained(s) == SelectSeq(terminal[s], LAMBDA i : Slot(i).status = s)

Drain(h, s) ==
    /\ MayCall(h)
    /\ terminal[s] # <<>>
    /\ slots' = [n \in DOMAIN slots |->
                    IF n - 1 \in ToSet(Drained(s)) THEN [slots[n] EXCEPT !.status = "Empty", !.future = FALSE]
                                                   ELSE slots[n]]
    /\ free' = free \o Drained(s)
    /\ bits' = {k \in bits : ~(k.id \in ToSet(Drained(s)) /\ IsCurrent(k))}
    /\ terminal' = [terminal EXCEPT ![s] = <<>>]
    /\ CallTo(h, "Drop", ToSet(Drained(s)))
    /\ UNCHANGED <<wakeIds, wakes, schedVars, pc, key>>

\* task_dropped for each record, after the table lock is released.
DropDrained(h) ==
    /\ Calling(h, "Drop")
    /\ \E i \in call[h].ids :
          /\ meta' = [meta EXCEPT ![i] = NoMeta]
          /\ NextId(h, i)
    /\ UNCHANGED <<tableVars, wakeVars, queue, pc, key>>

\* cancel_task of the table, and then task_dropped.
Cancel(h, k) ==
    /\ MayCancel
    /\ MayCall(h)
    /\ IsLive(k)
    /\ SetTask(k.id, "Cancelled", FALSE)
    /\ terminal' = [terminal EXCEPT !["Cancelled"] = Append(@, k.id)]
    /\ bits' = bits \ {k}
    /\ CallTo(h, "Drop", {k.id})
    /\ UNCHANGED <<free, wakeIds, wakes, schedVars, pc, key>>

-----------------------------------------------------------------------------
(* Wakes: the waker belongs to a key, the wake queue holds ids.            *)

\* TaskWakeState::wake of any waker ever handed out.
Wake(h, k) ==
    /\ MayCall(h)
    /\ k.id \in Allocated /\ k.gen <= Slot(k.id).gen
    /\ k \notin bits
    /\ bits' = bits \cup {k}
    /\ wakeIds' = wakeIds \cup {k.id}
    /\ wakes' = wakes \cup {k}
    /\ UNCHANGED <<tableVars, schedVars, pc, key, call>>

\* drain_wakes_for_hart takes the whole queue under one acquisition of the
\* table lock and resolves it under another.
DrainWakeIds(h) ==
    /\ At(h, "Loop")
    /\ wakeIds # {}
    /\ wakeIds' = {}
    /\ CallTo(h, "Resolve", wakeIds)
    /\ UNCHANGED <<tableVars, bits, wakes, schedVars, pc, key>>

\* take_wake_if_parked_by_id looks at the bit of the task that holds the slot
\* now.
ResolveWakes(h) ==
    LET toRun == {i \in call[h].ids : Slot(i).status = "Parked" /\ KeyOf(i) \in bits} IN
    /\ Calling(h, "Resolve")
    /\ slots' = [n \in DOMAIN slots |->
                    IF n - 1 \in toRun THEN [slots[n] EXCEPT !.status = "Runnable"]
                                       ELSE slots[n]]
    /\ bits' = {k \in bits : ~(k.id \in call[h].ids /\ IsCurrent(k) /\ Slot(k.id).status # "Polling")}
    /\ IF toRun = {} THEN CallEnds(h) ELSE CallTo(h, "Commit", toRun)
    /\ UNCHANGED <<free, terminal, wakeIds, wakes, schedVars, pc, key>>

\* Mutant: the owner of a mailbox is known by its id.
PostOwnerById(h, k) ==
    LET i == k.id IN
    /\ MayCall(h)
    /\ i \in Allocated /\ k.gen <= Slot(i).gen
    /\ \/ /\ Slot(i).status \in {"Parked", "Runnable"}
          /\ SetTask(i, "Runnable", Slot(i).future)
          /\ CallTo(h, "Commit", {i})
          /\ UNCHANGED bits
       \/ /\ Slot(i).status = "Polling"
          /\ bits' = bits \cup {KeyOf(i)}
          /\ UNCHANGED <<slots, call>>
    /\ wakes' = wakes \cup {k}
    /\ UNCHANGED <<free, terminal, wakeIds, schedVars, pc, key>>

\* A post to the mailbox of a task makes its owner runnable at once
\* (make_owner_runnable_with_hint), or leaves the bit when it is being polled.
\* Mailboxes outlive their tasks: one of an earlier generation, or of a
\* finished task, changes nothing.
PostOwner(h, k) ==
    LET i == k.id IN
    /\ MayCall(h)
    /\ IsLive(k)
    /\ \/ /\ Slot(i).status \in {"Parked", "Runnable"}
          /\ SetTask(i, "Runnable", Slot(i).future)
          /\ CallTo(h, "Commit", {i})
          /\ UNCHANGED bits
       \/ /\ Slot(i).status = "Polling"
          /\ bits' = bits \cup {k}
          /\ UNCHANGED <<slots, call>>
    /\ wakes' = wakes \cup {k}
    /\ UNCHANGED <<free, terminal, wakeIds, schedVars, pc, key>>

\* commit_runnable_on_local, by id.
CommitWoken(h) ==
    /\ Calling(h, "Commit")
    /\ \E i \in call[h].ids :
          /\ IF meta[i].state = "Parked"
             THEN \E g \in Harts :
                    /\ meta' = [meta EXCEPT ![i] = Meta("Queued", g)]
                    /\ queue' = [queue EXCEPT ![g] = Append(@, i)]
             ELSE UNCHANGED schedVars
          /\ NextId(h, i)
    /\ UNCHANGED <<tableVars, wakeVars, pc, key>>

-----------------------------------------------------------------------------
(* Dispatch, poll and commit.                                              *)

\* pop_from_local_queue: an entry the metadata does not agree with is skipped.
Pick(h) ==
    LET i == Head(queue[h]) IN
    /\ At(h, "Loop")
    /\ queue[h] # <<>>
    /\ queue' = [queue EXCEPT ![h] = Tail(@)]
    /\ IF meta[i].state = "Queued" /\ meta[i].hart = h
       THEN /\ meta' = [meta EXCEPT ![i].state = "Dispatching"]
            /\ key' = [key EXCEPT ![h] = [id |-> i, gen |-> -1]]
            /\ Go(h, "Take")
       ELSE UNCHANGED <<meta, key, pc>>
    /\ UNCHANGED <<tableVars, wakeVars, call>>

\* commit_stopped_on_local, by id.
Stopped(h, state) ==
    LET i == key[h].id IN
    meta' = IF meta[i].state = "Dispatching" /\ meta[i].hart = h
            THEN [meta EXCEPT ![i] = Meta(state, "None")] ELSE meta

\* Mutant: the future is taken from a slot that does not hold it.
TakeRunnableUnchecked(h) ==
    LET i == key[h].id IN
    /\ At(h, "Take")
    /\ Slot(i).status \in Live
    /\ SetTask(i, "Polling", FALSE)
    /\ bits' = bits \ {KeyOf(i)}
    /\ key' = [key EXCEPT ![h] = KeyOf(i)]
    /\ Go(h, "Poll")
    /\ UNCHANGED <<free, terminal, wakeIds, wakes, schedVars, call>>

\* take_runnable_future_by_id returns the key of the task in the slot now.
TakeRunnable(h) ==
    LET i == key[h].id IN
    /\ At(h, "Take")
    /\ Slot(i).status = "Runnable" /\ Slot(i).future
    /\ SetTask(i, "Polling", FALSE)
    /\ bits' = bits \ {KeyOf(i)}
    /\ key' = [key EXCEPT ![h] = KeyOf(i)]
    /\ Go(h, "Poll")
    /\ UNCHANGED <<free, terminal, wakeIds, wakes, schedVars, call>>

\* A missing or terminal task: task_dropped, under the table lock.
TakeMissing(h) ==
    LET i == key[h].id IN
    /\ At(h, "Take")
    /\ \/ Slot(i).status \in Terminal \cup {"Empty"}
       \/ Slot(i).status = "Runnable" /\ ~Slot(i).future
    /\ meta' = [meta EXCEPT ![i] = NoMeta]
    /\ Go(h, "Loop")
    /\ UNCHANGED <<tableVars, wakeVars, queue, key, call>>

TakeNotRunnable(h) ==
    /\ At(h, "Take")
    /\ Slot(key[h].id).status \in {"Polling", "Parked"}
    /\ Stopped(h, "Parked")
    /\ Go(h, "Loop")
    /\ UNCHANGED <<tableVars, wakeVars, queue, key, call>>

\* finish_polled_* fails when the task was cancelled meanwhile; the hart then
\* leaves the scheduler alone.
PollStale(h) ==
    /\ At(h, "Poll") \/ At(h, "Park")
    /\ ~IsLive(key[h])
    /\ Go(h, "Loop")
    /\ UNCHANGED <<tableVars, wakeVars, schedVars, key, call>>

\* finish_polled_complete
PollReady(h) ==
    LET k == key[h] IN
    /\ At(h, "Poll") /\ IsLive(k)
    /\ SetTask(k.id, "Completed", FALSE)
    /\ terminal' = [terminal EXCEPT !["Completed"] = Append(@, k.id)]
    /\ bits' = bits \ {k}
    /\ Go(h, "StopCompleted")
    /\ UNCHANGED <<free, wakeIds, wakes, schedVars, key, call>>

StopCompleted(h) ==
    /\ At(h, "StopCompleted")
    /\ Stopped(h, "Terminal")
    /\ Go(h, "DropCompleted")
    /\ UNCHANGED <<tableVars, wakeVars, queue, key, call>>

\* task_dropped, by id: the last step of a completed poll.
DropCompleted(h) ==
    /\ At(h, "DropCompleted")
    /\ meta' = [meta EXCEPT ![key[h].id] = NoMeta]
    /\ Go(h, "Loop")
    /\ UNCHANGED <<tableVars, wakeVars, queue, key, call>>

\* finish_polled_runnable of a preempted task, then the requeue by id.
PollPreempted(h) ==
    /\ At(h, "Poll") /\ IsLive(key[h])
    /\ SetTask(key[h].id, "Runnable", TRUE)
    /\ bits' = bits \ {key[h]}
    /\ Go(h, "Requeue")
    /\ UNCHANGED <<free, terminal, wakeIds, wakes, schedVars, key, call>>

Requeue(h) ==
    LET i == key[h].id IN
    /\ At(h, "Requeue")
    /\ IF meta[i] = Meta("Dispatching", h)
       THEN /\ meta' = [meta EXCEPT ![i] = Meta("Queued", h)]
            /\ queue' = [queue EXCEPT ![h] = Append(@, i)]
       ELSE UNCHANGED schedVars
    /\ Go(h, "Loop")
    /\ UNCHANGED <<tableVars, wakeVars, key, call>>

\* Poll::Pending: the Parked owner first, by id, before the key is looked at.
PollPending(h) ==
    /\ At(h, "Poll")
    /\ Stopped(h, "Parked")
    /\ Go(h, "Park")
    /\ UNCHANGED <<tableVars, wakeVars, queue, key, call>>

\* finish_polled_pending, by key.
Park(h) ==
    LET k == key[h] IN
    /\ At(h, "Park")
    /\ IsLive(k) /\ k \notin bits
    /\ SetTask(k.id, "Parked", TRUE)
    /\ Go(h, "Loop")
    /\ UNCHANGED <<free, terminal, wakeVars, schedVars, key, call>>

ParkRaced(h) ==
    LET k == key[h] IN
    /\ At(h, "Park")
    /\ IsLive(k) /\ k \in bits
    /\ SetTask(k.id, "Runnable", TRUE)
    /\ bits' = bits \ {k}
    /\ Go(h, "Mark")
    /\ UNCHANGED <<free, terminal, wakeIds, wakes, schedVars, key, call>>

\* mark_runnable_from_hart: mark_runnable by key, then the commit by id.
Mark(h) ==
    LET k == key[h] IN
    /\ At(h, "Mark")
    /\ IF IsLive(k)
       THEN SetTask(k.id, "Runnable", Slot(k.id).future) /\ CallTo(h, "Commit", {k.id})
       ELSE UNCHANGED <<slots, call>>
    /\ Go(h, "Loop")
    /\ UNCHANGED <<free, terminal, wakeVars, schedVars, key>>

HartNext(h) ==
    \/ ReuseSlot(h) \/ FreshSlot(h) \/ Reserve(h) \/ PushEntry(h)
    \/ (\E s \in Terminal : Drain(h, s)) \/ DropDrained(h)
    \/ (\E k \in Keys : Cancel(h, k) \/ Wake(h, k) \/ PostOwner(h, k))
    \/ DrainWakeIds(h) \/ ResolveWakes(h) \/ CommitWoken(h)
    \/ Pick(h) \/ TakeRunnable(h) \/ TakeMissing(h) \/ TakeNotRunnable(h)
    \/ PollStale(h) \/ PollReady(h) \/ StopCompleted(h) \/ DropCompleted(h)
    \/ PollPreempted(h) \/ Requeue(h)
    \/ PollPending(h) \/ Park(h) \/ ParkRaced(h) \/ Mark(h)

Next == \E h \in Harts : HartNext(h)

Spec == Init /\ [][Next]_vars

-----------------------------------------------------------------------------
(* Properties.                                                             *)

Count(i, q) == Cardinality({n \in 1..Len(q) : q[n] = i})

\* No slot is leaked or handed out twice: an empty slot is once in the free
\* list unless its generations are used up, a terminal one is once in the
\* list that drain_status takes, and a live one is in neither.
SlotAccounting ==
    \A i \in Allocated :
        /\ Count(i, free) <= IF Slot(i).status = "Empty" THEN 1 ELSE 0
        /\ Slot(i).status = "Empty" /\ Slot(i).gen < LastGen => Count(i, free) = 1
        /\ \A s \in Terminal : Count(i, terminal[s]) = IF Slot(i).status = s THEN 1 ELSE 0

\* A hart that polls a future is alone with it, although the run queues, the
\* metadata and the wake queue name the slot without its generation.
SinglePoller ==
    \A g, h \in Harts :
        g # h /\ pc[g] = "Poll" /\ pc[h] = "Poll" => key[g] # key[h]

\* A waker or a mailbox of an earlier occupant never wakes the task that reuses
\* its slot: a parked task becomes runnable only by a wake of its own.
OnlyOwnWake ==
    [][\A i \in Allocated :
          Slot(i).status = "Parked" /\ Slot(i)'.status = "Runnable" => KeyOf(i) \in wakes']_vars
=============================================================================
