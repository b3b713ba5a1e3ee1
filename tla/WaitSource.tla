----------------------------- MODULE WaitSource -----------------------------
(***************************************************************************)
(* Blocking on an object: the WaitSource with its subscriber rows, pending *)
(* mask and notification sequence (tx-substrate wake/wait_source.rs), the  *)
(* TaskMailbox the events are posted to (wake/mailbox.rs), the loop that   *)
(* steps an operation and parks it (drive and resolve_on_wait_source in    *)
(* tx-scripts drive.rs), and the predicate-checked wait of the syscalls    *)
(* (await_wait_source_if in tx-shims wait.rs).                             *)
(*                                                                         *)
(* An object has a set of ready interest bits.  A producer makes a bit     *)
(* ready and then notifies; a waiter looks, subscribes and parks.  The     *)
(* reactor is here by what module Reactor shows of it: a woken task is     *)
(* polled again.                                                           *)
(***************************************************************************)
EXTENDS Integers, Sequences, FiniteSets, SequencesExt

CONSTANTS
    Waiters,
    Producers,
    Observing,   \* waiters that use register_after_observation; the others install_if
    Bits,        \* the interest bits of the source
    Interest,    \* Interest[w]: the bits waiter w waits for
    Bound,       \* MAILBOX_QUEUE_BOUND
    MaxSeq,      \* bound: notifications
    MaxNoise     \* bound: events of other protocols posted to the mailboxes

ASSUME WaitSourceAssumption ==
    /\ Observing \subseteq Waiters
    /\ Interest \in [Waiters -> SUBSET Bits]
    /\ Bound \in Nat \ {0}
    /\ MaxSeq \in Nat /\ MaxNoise \in Nat

VARIABLES
    ready,      \* the authoritative state of the object
    seq,        \* NOTIFICATION_SEQUENCE
    last,       \* last_notification_sequence
    subs,       \* subscribers
    pending,    \* pending_mask
    lock,       \* the holder of the subscribers lock, across a locked notify
    mail,       \* the queue of each mailbox
    overflow,   \* the overflow flag of each mailbox
    waker,      \* TRUE once a waker is registered with the mailbox
    woken,      \* the waker fired since the task was last polled
    gen,        \* the generation of the current wait of each waiter
    seen,       \* the sequence observed before the step, 0 when it is dead
    raced,      \* notification_raced, FALSE when it is dead
    wpc,        \* where each waiter is
    ppc,        \* where each producer is
    todo,       \* the deliveries a producer still has to post
    noise       \* history: events of other protocols posted so far

objectVars == <<ready, seq, last, subs, pending, lock>>
mailVars == <<mail, overflow, waker, woken>>
waiterVars == <<gen, seen, raced, wpc>>
producerVars == <<ppc, todo>>
vars == <<objectVars, mailVars, waiterVars, producerVars, noise>>

None == "None"
Idle == [at |-> "Idle", mask |-> {}, delivered |-> {}]

Init ==
    /\ ready = {} /\ seq = 0 /\ last = 0 /\ subs = <<>> /\ pending = {} /\ lock = None
    /\ mail = [w \in Waiters |-> <<>>]
    /\ overflow = [w \in Waiters |-> FALSE]
    /\ waker = [w \in Waiters |-> FALSE]
    /\ woken = [w \in Waiters |-> FALSE]
    /\ gen = [w \in Waiters |-> 0]
    /\ seen = [w \in Waiters |-> 0]
    /\ raced = [w \in Waiters |-> FALSE]
    /\ wpc = [w \in Waiters |-> "Observe"]
    /\ ppc = [p \in Producers |-> Idle]
    /\ todo = [p \in Producers |-> <<>>]
    /\ noise = 0

Go(w, location) == wpc' = [wpc EXCEPT ![w] = location]

-----------------------------------------------------------------------------
(* TaskMailbox.                                                            *)

Fired(g, bits) == [kind |-> "Fired", gen |-> g, bits |-> bits]
Foreign(kind) == [kind |-> kind, gen |-> 0, bits |-> {}]

Coalesces(q, ev) == ev.kind = "Fired" /\ \E n \in 1..Len(q) : q[n].kind = "Fired" /\ q[n].gen = ev.gen
Merge(q, ev) ==
    [n \in 1..Len(q) |->
        IF q[n].kind = "Fired" /\ q[n].gen = ev.gen THEN [q[n] EXCEPT !.bits = @ \cup ev.bits]
                                                    ELSE q[n]]

\* The result of post: TRUE only for an event that got an entry of its own.
Enqueued(w, ev) == ~Coalesces(mail[w], ev) /\ Len(mail[w]) < Bound

\* The first half of post_with_scheduler_hint: coalesce, append, or latch
\* the overflow flag.
Enqueue(w, ev) ==
    /\ mail' = [mail EXCEPT ![w] = IF Coalesces(@, ev) THEN Merge(@, ev)
                                   ELSE IF Len(@) < Bound THEN Append(@, ev) ELSE @]
    /\ overflow' = [overflow EXCEPT ![w] = @ \/ (~Coalesces(mail[w], ev) /\ Len(mail[w]) >= Bound)]

\* The second half: the registered waker fires, whatever became of the event.
WakeOwner(w) == woken' = [woken EXCEPT ![w] = @ \/ waker[w]]

\* ActiveWait::matches
Matches(w, ev) == ev.kind = "Fired" /\ ev.gen = gen[w] /\ ev.bits \cap Interest[w] # {}
Ends(w, ev) == ev.kind = "Signal" \/ Matches(w, ev)

\* poll_select with the closure of resolve_on_wait_source: stale events of the
\* source are dropped on the way, those of other protocols stay.
FirstEnd(w) ==
    LET hits == {n \in 1..Len(mail[w]) : Ends(w, mail[w][n])}
    IN IF hits = {} THEN 0 ELSE CHOOSE n \in hits : \A m \in hits : n <= m
Stale(w, ev) == ev.kind = "Fired" /\ ev.gen # gen[w]
Selected(w) ==
    LET n == FirstEnd(w)
        Fresh(q) == SelectSeq(q, LAMBDA ev : ~Stale(w, ev))
    IN IF n = 0 THEN Fresh(mail[w])
       ELSE Fresh(SubSeq(mail[w], 1, n - 1)) \o SubSeq(mail[w], n + 1, Len(mail[w]))

\* The loop of MailboxSourceFuture: everything up to the event is taken.
Drained(w) ==
    IF FirstEnd(w) = 0 THEN <<>> ELSE SubSeq(mail[w], FirstEnd(w) + 1, Len(mail[w]))

-----------------------------------------------------------------------------
(* The waiter.                                                             *)

Blocked(w) == Interest[w] \cap ready = {}

\* drive reads the sequence before it steps the operation.
Observe(w) ==
    /\ wpc[w] = "Observe"
    /\ seen' = [seen EXCEPT ![w] = seq]
    /\ Go(w, "Step")
    /\ UNCHANGED <<objectVars, mailVars, gen, raced, producerVars, noise>>

\* The operation completes; it may consume the readiness.
StepDone(w) ==
    /\ wpc[w] = "Step" /\ ~Blocked(w)
    /\ ready' \in {ready, ready \ Interest[w]}
    /\ Go(w, "Observe")
    /\ UNCHANGED <<seq, last, subs, pending, lock, mailVars, gen, seen, raced, producerVars, noise>>

\* Yield: next_generation.
StepYield(w) ==
    /\ wpc[w] = "Step" /\ Blocked(w)
    /\ gen' = [gen EXCEPT ![w] = @ + 1]
    /\ Go(w, "Register")
    /\ UNCHANGED <<objectVars, mailVars, seen, raced, producerVars, noise>>

Row(w) == [who |-> w, gen |-> gen[w]]

\* Mutant: the subscription does not look back at the notifications.
RegisterBlindly(w) ==
    /\ wpc[w] = "Register" /\ w \in Observing /\ lock = None
    /\ raced' = [raced EXCEPT ![w] = FALSE]
    /\ subs' = Append(subs, Row(w))
    /\ seen' = [seen EXCEPT ![w] = 0]
    /\ Go(w, "Deliver")
    /\ UNCHANGED <<ready, seq, last, pending, lock, mailVars, gen, producerVars, noise>>

\* register_after_observation, under the subscribers lock.
RegisterObserved(w) ==
    /\ wpc[w] = "Register" /\ w \in Observing /\ lock = None
    /\ raced' = [raced EXCEPT ![w] = last > seen[w]]
    /\ subs' = Append(subs, Row(w))
    /\ seen' = [seen EXCEPT ![w] = 0]
    /\ Go(w, "Deliver")
    /\ UNCHANGED <<ready, seq, last, pending, lock, mailVars, gen, producerVars, noise>>

\* register_if: the predicate is evaluated under the subscribers lock.
RegisterIf(w) ==
    /\ wpc[w] = "Register" /\ w \notin Observing /\ lock = None
    /\ IF Blocked(w) THEN subs' = Append(subs, Row(w)) /\ Go(w, "Deliver")
                     ELSE UNCHANGED subs /\ Go(w, "Observe")
    /\ seen' = [seen EXCEPT ![w] = 0]
    /\ UNCHANGED <<ready, seq, last, pending, lock, mailVars, gen, raced, producerVars, noise>>

\* deliver_pending_to: the overlap is taken out of the mask and posted.
DeliverPending(w) ==
    LET overlap == pending \cap Interest[w] IN
    /\ wpc[w] = "Deliver"
    /\ pending' = pending \ overlap
    /\ IF overlap = {} THEN UNCHANGED <<mail, overflow, woken>>
                       ELSE Enqueue(w, Fired(gen[w], overlap)) /\ WakeOwner(w)
    /\ Go(w, IF w \in Observing THEN "Raced" ELSE "Poll")
    /\ UNCHANGED <<ready, seq, last, subs, lock, waker, gen, seen, raced, producerVars, noise>>

PostRaced(w) ==
    /\ wpc[w] = "Raced"
    /\ IF raced[w] THEN Enqueue(w, Fired(gen[w], Interest[w])) /\ WakeOwner(w)
                   ELSE UNCHANGED <<mail, overflow, woken>>
    /\ raced' = [raced EXCEPT ![w] = FALSE]
    /\ Go(w, "Poll")
    /\ UNCHANGED <<objectVars, waker, gen, seen, producerVars, noise>>

RegisterWaker(w) ==
    /\ wpc[w] = "Poll"
    /\ waker' = [waker EXCEPT ![w] = TRUE]
    /\ Go(w, "Select")
    /\ UNCHANGED <<objectVars, mail, overflow, woken, gen, seen, raced, producerVars, noise>>

\* The rest of the poll: an event ends the wait, and so does a latched
\* overflow; otherwise the task parks.
Select(w) ==
    LET found == FirstEnd(w) # 0 IN
    /\ wpc[w] = "Select"
    /\ mail' = [mail EXCEPT ![w] = IF w \in Observing THEN Selected(w) ELSE Drained(w)]
    /\ overflow' = [overflow EXCEPT ![w] = @ /\ found]
    /\ Go(w, IF found \/ overflow[w] THEN "Leave" ELSE "Parked")
    /\ UNCHANGED <<objectVars, waker, woken, gen, seen, raced, producerVars, noise>>

Repoll(w) ==
    /\ wpc[w] = "Parked" /\ woken[w]
    /\ woken' = [woken EXCEPT ![w] = FALSE]
    /\ Go(w, "Poll")
    /\ UNCHANGED <<objectVars, mail, overflow, waker, gen, seen, raced, producerVars, noise>>

\* Mutant: the guard is forgotten.
LeaveKeepsRow(w) ==
    /\ wpc[w] = "Leave" /\ lock = None
    /\ Go(w, "Observe")
    /\ UNCHANGED <<objectVars, mailVars, gen, seen, raced, producerVars, noise>>

\* unregister, by the guard; Retry, or the caller gets EINTR and calls again.
Leave(w) ==
    /\ wpc[w] = "Leave" /\ lock = None
    /\ subs' = SelectSeq(subs, LAMBDA row : row # Row(w))
    /\ Go(w, "Observe")
    /\ UNCHANGED <<ready, seq, last, pending, lock, mailVars, gen, seen, raced, producerVars, noise>>

-----------------------------------------------------------------------------
(* The producer.                                                           *)

\* An object becomes ready, and notifies after that, as a write to an eventfd
\* does (step_eventfd_write_with_post).
Produce(p) ==
    /\ ppc[p].at = "Idle"
    /\ seq + Cardinality({q \in Producers : ppc[q].at = "Notify"}) < MaxSeq
    /\ \E b \in Bits :
          /\ ready' = ready \cup {b}
          /\ ppc' = [ppc EXCEPT ![p] = [at |-> "Notify", mask |-> {b}, delivered |-> {}]]
    /\ UNCHANGED <<seq, last, subs, pending, lock, mailVars, waiterVars, todo, noise>>

Overlapping(mask) == SelectSeq(subs, LAMBDA row : Interest[row.who] \cap mask # {})
Covered(mask) == mask \cap UNION {Interest[subs[n].who] : n \in 1..Len(subs)}

\* record_notification, under the subscribers lock.
RecordNotification == seq' = seq + 1 /\ last' = seq + 1

\* notify_with_hint and notify_emit_with_hint keep the lock while they post.
NotifyLocked(p) ==
    /\ ppc[p].at = "Notify" /\ lock = None
    /\ lock' = p
    /\ RecordNotification
    /\ todo' = [todo EXCEPT ![p] = Overlapping(ppc[p].mask)]
    /\ ppc' = [ppc EXCEPT ![p].at = "Push"]
    /\ UNCHANGED <<ready, subs, pending, mailVars, waiterVars, noise>>

\* notify_with_owner_post: rows and pending bits under the lock, posts after.
NotifyWithOwnerPost(p) ==
    /\ ppc[p].at = "Notify" /\ lock = None
    /\ RecordNotification
    /\ todo' = [todo EXCEPT ![p] = Overlapping(ppc[p].mask)]
    /\ pending' = pending \cup (ppc[p].mask \ Covered(ppc[p].mask))
    /\ ppc' = [ppc EXCEPT ![p].at = "Push"]
    /\ UNCHANGED <<ready, subs, lock, mailVars, waiterVars, noise>>

\* Mutant: the post waits for room in the mailbox.
PushWaits(p) ==
    LET row == Head(todo[p])
        ev == Fired(row.gen, ppc[p].mask \cap Interest[row.who])
    IN
    /\ ppc[p].at = "Push" /\ todo[p] # <<>> /\ Len(mail[row.who]) < Bound
    /\ Enqueue(row.who, ev)
    /\ ppc' = [ppc EXCEPT ![p].at = "Wake", ![p].delivered = @ \cup ev.bits]
    /\ UNCHANGED <<objectVars, waker, woken, waiterVars, todo, noise>>

Push(p) ==
    LET row == Head(todo[p])
        ev == Fired(row.gen, ppc[p].mask \cap Interest[row.who])
    IN
    /\ ppc[p].at = "Push" /\ todo[p] # <<>>
    /\ Enqueue(row.who, ev)
    /\ ppc' = [ppc EXCEPT ![p].at = "Wake",
                          ![p].delivered = IF Enqueued(row.who, ev) THEN @ \cup ev.bits ELSE @]
    /\ UNCHANGED <<objectVars, waker, woken, waiterVars, todo, noise>>

Wake(p) ==
    /\ ppc[p].at = "Wake"
    /\ WakeOwner(Head(todo[p]).who)
    /\ todo' = [todo EXCEPT ![p] = Tail(@)]
    /\ ppc' = [ppc EXCEPT ![p].at = "Push"]
    /\ UNCHANGED <<objectVars, mail, overflow, waker, waiterVars, noise>>

\* The locked variants latch the bits no mailbox took.
NotifyEnds(p) ==
    /\ ppc[p].at = "Push" /\ todo[p] = <<>>
    /\ IF lock = p THEN pending' = pending \cup (ppc[p].mask \ ppc[p].delivered) /\ lock' = None
                   ELSE UNCHANGED <<pending, lock>>
    /\ ppc' = [ppc EXCEPT ![p] = Idle]
    /\ UNCHANGED <<ready, seq, last, subs, mailVars, waiterVars, todo, noise>>

\* A signal, or an event of another protocol that shares the task's mailbox.
Interfere(w) ==
    /\ noise < MaxNoise
    /\ \E kind \in {"Signal", "Other"} : Enqueue(w, Foreign(kind))
    /\ WakeOwner(w)
    /\ noise' = noise + 1
    /\ UNCHANGED <<objectVars, waker, waiterVars, producerVars>>

-----------------------------------------------------------------------------
WaiterStep(w) ==
    \/ Observe(w) \/ StepDone(w) \/ StepYield(w)
    \/ RegisterObserved(w) \/ RegisterIf(w) \/ DeliverPending(w) \/ PostRaced(w)
    \/ RegisterWaker(w) \/ Select(w) \/ Repoll(w) \/ Leave(w)

NotifyStep(p) ==
    \/ NotifyLocked(p) \/ NotifyWithOwnerPost(p)
    \/ Push(p) \/ Wake(p) \/ NotifyEnds(p)

Next ==
    \/ \E w \in Waiters : WaiterStep(w) \/ Interfere(w)
    \/ \E p \in Producers : Produce(p) \/ NotifyStep(p)

Spec == Init /\ [][Next]_vars

\* A woken task is polled, a call to notify runs to its end.
Fairness ==
    /\ \A w \in Waiters : WF_vars(WaiterStep(w))
    /\ \A p \in Producers : WF_vars(NotifyStep(p))

FairSpec == Spec /\ Fairness

-----------------------------------------------------------------------------
(* Properties.                                                             *)

\* A notification for waiter w is on its way.
Coming(w) ==
    \E p \in Producers :
        \/ ppc[p].at = "Notify" /\ ppc[p].mask \cap Interest[w] # {}
        \/ \E n \in 1..Len(todo[p]) : todo[p][n] = Row(w)

\* No wake is lost between looking and parking: a task that sleeps although
\* the object is ready for it has been woken, or is about to be, by a
\* notification that knows its row.  This covers the check-before-subscribe
\* window, coalesced events and a full mailbox.
NoLostWake ==
    \A w \in Waiters : wpc[w] = "Parked" /\ ~Blocked(w) => woken[w] \/ Coming(w)

\* A parked task has exactly one subscriber row, of its current generation,
\* and no other row of its stays behind after it left.
OneRowPerWait ==
    \A w \in Waiters :
        LET rows == {n \in 1..Len(subs) : subs[n].who = w} IN
        IF wpc[w] \in {"Deliver", "Raced", "Poll", "Select", "Parked", "Leave"}
        THEN Cardinality(rows) = 1 /\ \A n \in rows : subs[n].gen = gen[w]
        ELSE rows = {}

\* A task that sleeps while the object stays ready for it runs in the end.
ReadyWaiterRuns ==
    \A w \in Waiters :
        (wpc[w] = "Parked" /\ ~Blocked(w)) ~> (wpc[w] # "Parked" \/ Blocked(w))
=============================================================================
