------------------------------ MODULE HartIdle ------------------------------
(***************************************************************************)
(* How a hart goes to sleep and how the others wake it: the reactor loops  *)
(* of the secondary harts and of the boot hart, the two-part software      *)
(* interrupt of the RISC-V board (a mask of pending kinds in memory and    *)
(* the hardware latch SSIP), the trap that acknowledges it, and the stop   *)
(* of the secondary harts at shutdown.                                     *)
(*                                                                         *)
(* What a hart is about to do outside its loop is the sequence ops[h]:     *)
(* the rest of a send, of an acknowledgement, or of a trap.  A trap puts   *)
(* its own operations in front of what it interrupts.  Every operation is  *)
(* one access to shared state, an enqueue with its marker being two.       *)
(***************************************************************************)
EXTENDS Naturals, Sequences, FiniteSets, Functions, SequencesExt

CONSTANTS
    Harts,
    Boot,
    MaxPosts    \* bound: wakes, posts and epoch requests in one behaviour

ASSUME ConstantsAssumption == Boot \in Harts /\ MaxPosts \in Nat

VARIABLES
    pc,         \* where the reactor loop of each hart is
    ops,        \* the operations each hart runs before its loop goes on
    pending,    \* IPI_PENDING: the kinds published to each hart
    ssip,       \* the hardware latch of each hart's software interrupt
    queued,     \* queued_wakes: wakes nobody has taken from the wake queue
    taken,      \* wakes each hart's drain has taken and not yet placed
    depth,      \* tasks in each hart's run queues
    marker,     \* the need_resched marker of each hart
    busy,       \* the step of each hart's loop has placed wakes or found a marker
    drain,      \* drain_requested of each hart's epoch state
    stop,       \* AP_REACTOR_STOP_REQUESTED
    stopped,    \* AP_REACTOR_STOPPED_CPUS
    posts       \* how much of the bound is used

vars == <<pc, ops, pending, ssip, queued, taken, depth, marker, busy, drain,
          stop, stopped, posts>>
ipi == <<pending, ssip>>
tasks == <<queued, taken, depth, marker>>
shutdown == <<stop, stopped>>

Secondaries == Harts \ {Boot}

Init ==
    /\ pc = [h \in Harts |-> "Top"]
    /\ ops = [h \in Harts |-> << >>]
    /\ pending = [h \in Harts |-> {}]
    /\ ssip = [h \in Harts |-> FALSE]
    /\ queued = 0
    /\ taken = [h \in Harts |-> 0]
    /\ depth = [h \in Harts |-> IF h = Boot THEN 1 ELSE 0]
    /\ marker = [h \in Harts |-> FALSE]
    /\ busy = [h \in Harts |-> FALSE]
    /\ drain = [h \in Harts |-> FALSE]
    /\ stop = FALSE
    /\ stopped = {}
    /\ posts = 0

(***************************************************************************)
(* Software interrupts.                                                    *)
(***************************************************************************)

\* send_ipi: publish the kind, then ring the hardware; a hart never sends
\* to itself.
SendIpi(h, t, kind) ==
    IF t = h THEN << >> ELSE << <<"publish", t, kind>>, <<"raise", t>> >>

\* broadcast_ipi: publish to every target, then ring them all.
BroadcastIpi(targets, kind) ==
    LET order == SetToSeq(targets)
    IN  [i \in DOMAIN order |-> <<"publish", order[i], kind>>]
            \o [i \in DOMAIN order |-> <<"raise", order[i]>>]

\* A bug: the latch is cleared without looking at the mask again.
AckIpiNoRecheck(kind) == << <<"ack", kind>>, <<"load">>, <<"clear">>, <<"none">> >>

\* ack_ipi: remove the kind; when no kind is left clear the latch, and look
\* at the mask once more.
AckIpi(kind) == << <<"ack", kind>>, <<"load">>, <<"clear">>, <<"recheck">> >>

\* on_ipi after the board's handler has cleared the latch: acknowledge the
\* kinds seen.  Stop is left to the loop.
OnIpi(seen) ==
    (IF "Maintenance" \in seen THEN AckIpi("Maintenance") ELSE << >>)
        \o (IF "Reschedule" \in seen THEN AckIpi("Reschedule") ELSE << >>)

\* A woken task goes into a queue of t, with the need_resched marker, and a
\* remote t is interrupted (apply_runnable_placement).
Placement(h, t) ==
    << <<"enqueue", t>> >> \o SendIpi(h, t, "Reschedule")

InTrap(h) == \E i \in DOMAIN ops[h] : ops[h][i] = <<"return">>

\* Where h takes an interrupt.  From prepare_interrupt_wait to the end of WFI
\* interrupts are masked, and a handler is not interrupted.  Elsewhere it may
\* run anywhere.  The points named here are the head of an iteration, a poll,
\* the polling window, the gap between the window's last look and the masking,
\* the return from WFI, the wait for the others at shutdown, and the loads
\* and stores of an acknowledgement.  From the head to the window the loop
\* reads neither mask nor latch and looks at every queue again before it
\* sleeps, so a handler that runs there could as well run at the head or in
\* the window.
Interruptible(h) ==
    /\ ~InTrap(h)
    /\ IF ops[h] = << >>
       THEN pc[h] \in {"Top", "Poll", "Window", "Prepare", "Woke", "Quiesce"}
       ELSE Head(ops[h])[1] \in {"ack", "load", "clear", "recheck"}

\* The software interrupt is taken: the handler clears the latch, then looks
\* at the mask and acknowledges what it finds.
Trap(h) ==
    /\ ssip[h] /\ Interruptible(h)
    /\ ssip' = [ssip EXCEPT ![h] = FALSE]
    /\ ops' = [ops EXCEPT ![h] = << <<"read">>, <<"return">> >> \o @]
    /\ UNCHANGED <<pc, pending, tasks, busy, drain, shutdown, posts>>

\* A handler that has nothing left to do returns.
Returned(seq) == IF seq # << >> /\ Head(seq) = <<"return">> THEN Tail(seq) ELSE seq

\* What is left of ops[h] after the operation at its head.
Rest(h) ==
    LET op == Head(ops[h])
        rest == Tail(ops[h])
    IN  Returned(CASE op[1] = "read" -> OnIpi(pending[h]) \o rest
                   [] op[1] = "load" /\ pending[h] # {} ->
                          SubSeq(rest, 3, Len(rest))
                   [] op[1] = "recheck" /\ pending[h] # {} ->
                          << <<"raise", h>> >> \o rest
                   [] OTHER -> rest)

\* One operation of a send, an acknowledgement or a trap.
Operate(h) ==
    /\ ops[h] # << >>
    /\ LET op == Head(ops[h])
           Is(name, t) == op[1] = name /\ op[2] = t
       IN  /\ ops' = [ops EXCEPT ![h] = Rest(h)]
           /\ pending' =
                  [t \in Harts |->
                     CASE op[1] = "publish" /\ op[2] = t -> pending[t] \cup {op[3]}
                       [] op[1] = "ack" /\ t = h -> pending[t] \ {op[2]}
                       [] OTHER -> pending[t]]
           /\ ssip' = [t \in Harts |-> \/ Is("raise", t)
                                       \/ ssip[t] /\ ~(op[1] = "clear" /\ t = h)]
           /\ depth' = [t \in Harts |->
                          IF Is("enqueue", t) THEN depth[t] + 1 ELSE depth[t]]
           /\ marker' = [t \in Harts |-> marker[t] \/ Is("enqueue", t)]
    /\ UNCHANGED <<pc, queued, taken, busy, drain, shutdown, posts>>

(***************************************************************************)
(* The reactor loop.                                                       *)
(***************************************************************************)

\* The loop of h goes from one point to another; nothing precedes it in ops.
Goto(h, from, to) ==
    /\ pc[h] = from /\ ops[h] = << >>
    /\ pc' = [pc EXCEPT ![h] = to]

\* service_local_drain_request: take the request and run the reclaim callbacks
\* that are due, one of which may wake a task; when work remains the request is
\* made again, without an interrupt.
ServeDrain(h) ==
    \E remaining \in BOOLEAN, woken \in {0, 1} :
        /\ woken = 1 => drain[h] /\ posts < MaxPosts
        /\ drain' = [drain EXCEPT ![h] = drain[h] /\ remaining]
        /\ queued' = queued + woken
        /\ posts' = posts + woken
        /\ UNCHANGED <<taken, depth, marker>>

\* A bug: the stop request is only looked at when no epoch work remains.
TopServesFirst(h) ==
    /\ IF h = Boot THEN UNCHANGED <<drain, tasks, posts>> ELSE ServeDrain(h)
    /\ IF stop /\ h # Boot /\ ~drain'[h]
       THEN /\ Goto(h, "Top", "Offline")
            /\ ops' = [ops EXCEPT ![h] =
                          IF "Stop" \in pending[h] THEN AckIpi("Stop") ELSE << >>]
       ELSE /\ Goto(h, "Top", "DrainWakes")
            /\ UNCHANGED ops
    /\ UNCHANGED <<ipi, busy, shutdown>>

\* The head of an iteration.  A secondary hart serves an epoch request, then
\* looks for the stop request; when it sees it, it acknowledges its interrupt
\* and leaves the loop.  The boot hart does neither here.
Top(h) ==
    /\ IF stop /\ h # Boot
       THEN /\ Goto(h, "Top", "Offline")
            /\ ops' = [ops EXCEPT ![h] =
                          IF "Stop" \in pending[h] THEN AckIpi("Stop") ELSE << >>]
       ELSE /\ Goto(h, "Top", "DrainWakes")
            /\ UNCHANGED ops
    /\ IF h = Boot THEN UNCHANGED <<drain, tasks, posts>> ELSE ServeDrain(h)
    /\ UNCHANGED <<ipi, busy, shutdown>>

\* It then publishes that it has stopped, and never takes an interrupt again.
Offline(h) ==
    /\ Goto(h, "Offline", "Stopped")
    /\ stopped' = stopped \cup {h}
    /\ UNCHANGED <<ops, ipi, tasks, busy, drain, stop, posts>>

\* drain_hart_loop_wakes: take every queued wake, once, then place them one by
\* one.
DrainWakes(h) ==
    /\ Goto(h, "DrainWakes", "Place")
    /\ taken' = [taken EXCEPT ![h] = queued]
    /\ queued' = 0
    /\ busy' = [busy EXCEPT ![h] = queued > 0]
    /\ UNCHANGED <<ops, ipi, depth, marker, drain, shutdown, posts>>

Place(h) ==
    /\ pc[h] = "Place" /\ ops[h] = << >>
    /\ taken[h] > 0
    /\ taken' = [taken EXCEPT ![h] = @ - 1]
    /\ \E t \in Harts : ops' = [ops EXCEPT ![h] = Placement(h, t)]
    /\ UNCHANGED <<pc, ipi, queued, depth, marker, busy, drain, shutdown, posts>>

\* consume_hart_loop_markers, once the wakes are placed.
ConsumeMarkers(h) ==
    /\ Goto(h, "Place", "Pick")
    /\ taken[h] = 0
    /\ marker' = [marker EXCEPT ![h] = FALSE]
    /\ busy' = [busy EXCEPT ![h] = @ \/ marker[h]]
    /\ UNCHANGED <<ops, ipi, queued, taken, depth, drain, shutdown, posts>>

\* A bug: a step that placed no wake and found no marker leaves the queues alone.
PickWhenMarked(h) ==
    /\ \/ /\ busy[h] /\ depth[h] > 0
          /\ Goto(h, "Pick", "Poll")
          /\ depth' = [depth EXCEPT ![h] = @ - 1]
       \/ ~busy[h] /\ Goto(h, "Pick", "Window") /\ UNCHANGED depth
    /\ busy' = [busy EXCEPT ![h] = FALSE]
    /\ UNCHANGED <<ops, ipi, queued, taken, marker, drain, shutdown, posts>>

\* run_hart_loop_ready with a budget of one poll: the next task of the
\* hart's own queues, or a movable one of another hart's.
Pick(h) ==
    /\ \E v \in Harts :
           /\ depth[v] > 0 /\ (depth[h] > 0 => v = h)
           /\ Goto(h, "Pick", "Poll")
           /\ depth' = [depth EXCEPT ![v] = @ - 1]
    /\ busy' = [busy EXCEPT ![h] = FALSE]
    /\ UNCHANGED <<ops, ipi, queued, taken, marker, drain, shutdown, posts>>

\* service_reactor_epoch_boundary ends the step, with or without a poll; a
\* step that made progress is followed by another.
PickNothing(h) ==
    /\ depth[h] = 0
    /\ Goto(h, "Pick", IF busy[h] THEN "Top" ELSE "Window")
    /\ busy' = [busy EXCEPT ![h] = FALSE]
    /\ ServeDrain(h)
    /\ UNCHANGED <<ops, ipi, shutdown>>

PollDone(h) ==
    /\ Goto(h, "Poll", "Top")
    /\ ServeDrain(h)
    /\ UNCHANGED <<ops, ipi, busy, shutdown>>

\* should_leave_polling_idle looks at the wake queue that all harts share.
WakesQueued == queued > 0

\* poll_boot_reactor_idle_window: spin on should_leave_polling_idle, then
\* give up.  Work and interrupts that come after the last look, an interrupt
\* that is acknowledged before the masking among them, are seen by nobody here.
Window(h) ==
    /\ Goto(h, "Window", IF marker[h] \/ WakesQueued \/ depth[h] > 0
                         THEN "Top" ELSE "Prepare")
    /\ UNCHANGED <<ops, ipi, tasks, busy, drain, shutdown, posts>>

\* prepare_interrupt_wait: mask interrupts.  The latch still ends a WFI.
PrepareWait(h) ==
    /\ Goto(h, "Prepare", "CheckStop")
    /\ UNCHANGED <<ops, ipi, tasks, busy, drain, shutdown, posts>>

\* A bug: the queues are not looked at again once interrupts are masked.
LastLookAtStop(h) ==
    /\ Goto(h, "CheckStop", IF stop /\ h # Boot THEN "Top" ELSE "CheckDrain")
    /\ UNCHANGED <<ops, ipi, tasks, busy, drain, shutdown, posts>>

\* The last look before sleeping, load by load, interrupts masked: the stop
\* request (secondary harts only) and the marker, the wake queue, the run
\* queues.
LastLook(h) ==
    /\ \/ Goto(h, "CheckStop", IF (stop /\ h # Boot) \/ marker[h]
                               THEN "Top" ELSE "CheckQueued")
       \/ Goto(h, "CheckQueued", IF WakesQueued THEN "Top" ELSE "CheckDepth")
       \/ Goto(h, "CheckDepth", IF depth[h] > 0 THEN "Top" ELSE "CheckDrain")
    /\ UNCHANGED <<ops, ipi, tasks, busy, drain, shutdown, posts>>

\* And the epoch request, which is served on the spot.
LastDrain(h) ==
    /\ Goto(h, "CheckDrain", IF drain[h] THEN "Top" ELSE "Wfi")
    /\ ServeDrain(h)
    /\ UNCHANGED <<ops, ipi, busy, shutdown>>

\* wait_for_interrupt_prepared: WFI ends once the software interrupt is
\* latched, masked or not.
Wfi(h) ==
    /\ ssip[h]
    /\ Goto(h, "Wfi", "Woke")
    /\ UNCHANGED <<ops, ipi, tasks, busy, drain, shutdown, posts>>

\* After the sleep: acknowledge a reschedule the trap has not.
Woke(h) ==
    /\ Goto(h, "Woke", "Top")
    /\ ops' = [ops EXCEPT ![h] =
                  IF "Reschedule" \in pending[h] THEN AckIpi("Reschedule") ELSE << >>]
    /\ UNCHANGED <<ipi, tasks, busy, drain, shutdown, posts>>

HartStep(h) ==
    \/ Operate(h) \/ Trap(h)
    \/ Top(h) \/ Offline(h)
    \/ DrainWakes(h) \/ Place(h) \/ ConsumeMarkers(h)
    \/ Pick(h) \/ PickNothing(h) \/ PollDone(h)
    \/ Window(h) \/ PrepareWait(h) \/ LastLook(h) \/ LastDrain(h) \/ Wfi(h) \/ Woke(h)

(***************************************************************************)
(* What tasks, devices and shutdown ask for.                               *)
(***************************************************************************)

Spend == posts < MaxPosts /\ posts' = posts + 1

Polling(h) == pc[h] = "Poll" /\ ops[h] = << >>

\* A task wakes another through its waker: the wake queue grows, and no
\* interrupt is sent.
Wake(h) ==
    /\ Polling(h) /\ Spend
    /\ queued' = queued + 1
    /\ UNCHANGED <<pc, ops, ipi, taken, depth, marker, busy, drain, shutdown>>

\* A task posts to a mailbox: its owner is placed at once.
Post(h) ==
    /\ Polling(h) /\ Spend
    /\ \E t \in Harts : ops' = [ops EXCEPT ![h] = Placement(h, t)]
    /\ UNCHANGED <<pc, ipi, tasks, busy, drain, shutdown>>

\* What the boot hart's loop does for itself around its step: device bottom
\* halves and console input before it, bottom halves, submitted threads and
\* reclaim callbacks after it.  Whatever woke or placed a task there keeps the
\* loop from its idle window.
BootWork ==
    /\ Goto(Boot, "Top", "Top") \/ Goto(Boot, "Window", "Top")
    /\ Spend
    /\ \/ queued' = queued + 1 /\ UNCHANGED ops
       \/ \E t \in Harts :
              ops' = [ops EXCEPT ![Boot] = Placement(Boot, t)] /\ UNCHANGED queued
    /\ UNCHANGED <<ipi, taken, depth, marker, busy, drain, shutdown>>

\* A device interrupt on the boot hart.  The alarm handler of the RTC posts in
\* the interrupt; the network and console handlers leave their work to the
\* loop.
DeviceIrq ==
    /\ Interruptible(Boot) /\ Spend
    /\ \E t \in Harts :
           ops' = [ops EXCEPT ![Boot] =
                      Placement(Boot, t) \o << <<"return">> >> \o @]
    /\ UNCHANGED <<pc, ipi, tasks, busy, drain, shutdown>>

\* h scans the epochs: in a poll that retires something or at the boundary that
\* follows it, at the boundary of a step without a poll, or while it serves a
\* request with interrupts masked.
Scanning(h) ==
    /\ ops[h] = << >>
    /\ pc[h] \in {"Poll", "Window"} \/ (pc[h] = "CheckDrain" /\ drain[h])

\* The scan finds t behind: it makes the request, and interrupts t only when
\* the request was not already made.
RequestDrain(h) ==
    /\ Scanning(h) /\ Spend
    /\ \E t \in Harts \ {h} :
           /\ drain' = [drain EXCEPT ![t] = TRUE]
           /\ ops' = [ops EXCEPT ![h] =
                         IF drain[t] THEN << >> ELSE SendIpi(h, t, "Maintenance")]
    /\ UNCHANGED <<pc, ipi, tasks, busy, shutdown>>

\* Any other interrupt, a timer for instance, ends WFI.
OtherInterrupt(h) ==
    /\ Goto(h, "Wfi", "Woke")
    /\ UNCHANGED <<ops, ipi, tasks, busy, drain, shutdown, posts>>

\* quiesce_secondary_reactors, once init has exited: publish the request,
\* interrupt everyone, wait until all have stopped.
Quiesce ==
    /\ Goto(Boot, "Top", "Quiesce")
    /\ stop' = TRUE
    /\ stopped' = {}
    /\ ops' = [ops EXCEPT ![Boot] = BroadcastIpi(Secondaries, "Stop")]
    /\ UNCHANGED <<ipi, tasks, busy, drain, posts>>

Quiesced ==
    /\ stopped = Secondaries
    /\ Goto(Boot, "Quiesce", "Stopped")
    /\ UNCHANGED <<ops, ipi, tasks, busy, drain, shutdown, posts>>

Next ==
    \/ \E h \in Harts :
           HartStep(h) \/ Wake(h) \/ Post(h) \/ RequestDrain(h) \/ OtherInterrupt(h)
    \/ BootWork \/ DeviceIrq \/ Quiesce \/ Quiesced

Spec == Init /\ [][Next]_vars

\* A hart executes, and a poll ends: weak fairness for every hart's own steps.
\* Nothing is assumed of tasks, devices, timers or shutdown.
FairSpec == Spec /\ \A h \in Harts : WF_vars(HartStep(h))

(***************************************************************************)
(* Properties.                                                             *)
(***************************************************************************)

\* An interrupt to h is latched, or somebody is about to raise it.
Due(h) ==
    \/ ssip[h]
    \/ \E g \in Harts : <<"raise", h>> \in Range(ops[g])

\* A hart that sleeps in WFI with a task in its queues, an epoch request or
\* the stop request outstanding is about to be woken: what the masked last
\* look of the loop misses leaves an interrupt behind.  An epoch request made
\* twice interrupts once, and a hart that serves one re-arms it silently.
NoSleepOverRequest ==
    \A h \in Harts :
        (pc[h] = "Wfi" /\ (depth[h] > 0 \/ drain[h] \/ (stop /\ h # Boot))) => Due(h)

\* A published reschedule or maintenance interrupt is never stranded: the
\* latch is set, or will be, or the target is going to look at its mask.
\* ack_ipi clears the latch after it has seen an empty mask, which another
\* kind may have entered since.
PublishedIsDelivered ==
    \A h \in Harts : \A kind \in pending[h] \ {"Stop"} :
        \/ Due(h)
        \/ Range(ops[h]) \cap {<<"read">>, <<"recheck">>, <<"ack", kind>>} # {}
        \/ pc[h] = "Stopped"

\* A wake that is not drained, or not placed, or a task in some run queue.
Work == queued > 0 \/ \E h \in Harts : taken[h] > 0 \/ depth[h] > 0

\* While the system runs, every queued wake is drained and every task in a
\* hart's queues is run, although a waker sends no interrupt: as the tasks and
\* devices ask for finitely much, in the end no work is left at all.
WorkIsDone == Work ~> (~Work \/ stop)

\* Once shutdown asks for it every secondary hart stops, wherever it was.
StopIsReached == stop ~> stopped = Secondaries
=============================================================================
