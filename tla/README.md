# TLA+ verification of txKernel

txKernel runs every thread as a stackless future that a reactor polls on several
harts. Nothing has a kernel stack to sleep on: a thread that must wait registers
with a wait source, leaves its poll with `Pending`, and is polled again after
somebody posted to its mailbox or called its waker. Correctness therefore hangs
on a few protocols at the bottom: who may poll a task, when a task that returned
`Pending` may be forgotten, how an event reaches the task it is for, when a hart
may sleep, when memory that other harts may still look at is freed, and what a
crash may leave on the disk. This project models those protocols from the source,
checks them with TLC on small instances, and proves the most important safety properties
of the reactor, of delegation, of the epochs and of the TLB shootdown with TLAPS, for any
number of harts, tasks, CPUs, nodes and pages.

Contents: [inventory](#inventory), [modules](#modules), [runs](#runs),
[fairness](#fairness), [proofs](#proofs), [what the checks found](#what-the-checks-found),
[abstractions](#abstractions), [not modelled](#not-modelled), [plan](#plan).

## Inventory

`PROJECT.json` lists every part with its main sources, its modules and, if it is not
modelled, the reason. The parts at the centre of the system:

| Part | State | Operations | Talks to | What is hard |
|---|---|---|---|---|
| Task table (`tx-reactor/src/task.rs`) | slots with generation, status and future; free list; lists of finished ids | submit, take the future, finish a poll (complete, runnable, pending), mark runnable, resolve wakes, cancel, drain | waker, scheduler, hart loop | a wake during a poll, an id that outlives its task, reclaim on one hart against submit on another |
| Raw waker (`waker.rs`) | one bit per task, a shared queue of ids, a counter | wake: swap the bit, count, push | task table | three separate atomics; the counter is read without the queue lock |
| Owner posts (`runtime.rs`) | none of their own | post to the mailbox, wake, then route the owner | mailbox, task table, scheduler | the same wake arrives twice, on two paths |
| Scheduler (`scheduler.rs`) | metadata per id; four queues per hart; pick turn and streak; preemption markers | reserve and push, route and commit a wake, promote by signal, set affinity, move, pick, steal, stop, drop | hart loop, threads, signals | every call reads first and commits later; entries and metadata change under different locks |
| Hart loop (`runtime.rs`, `hart_loop.rs`) | per hart: the task at hand, the drained batch | drain, pick, take, poll, commit | all of the above | the locks are released between the two halves of a commit |
| Wait source (`tx-substrate/src/wake/wait_source.rs`) | subscriber rows, pending mask, notification sequence | register (after observation, or if a predicate holds), unregister, notify (locked, or with posts after the lock) | mailbox, every blocking object | the object is looked at before the row exists |
| Mailbox (`wake/mailbox.rs`) | bounded queue, overflow flag, waker, generation | post (append, coalesce or overflow), select, drain | wait sources, delegation, signals, timers | one mailbox serves several protocols, and it can be full |
| Driver (`tx-scripts/src/drive.rs`) | the operation, its current wait | step, yield, resolve a wait source, an agent or a timer | wait source, delegation | what ends a wait is not always what was waited for |
| Delegation (`tx-substrate/src/step/agent.rs`) | token slots | install, reply, time out, cancel, endpoint death, take the reply | driver, deadlines, mailbox | four writers race for a token, events are posted after the lock |
| Epochs (`tx-substrate/src/epoch`) | global epoch; per CPU: local epoch, three bags, reserved records, drain request | guard, retire (three ways), scan and advance, drain, offline, admit | publication, zones, hart loop | stale loads and scans, reuse of bags, CPUs that come and go |
| Publication (`tx-substrate/src/publication`) | a root, deferred drops | read, commit, drain the deferred drops | epochs | nothing may fail after the root is swapped |
| Hart idle (`tx-kernel/src/init.rs`, `init/exec.rs`, RISC-V board) | pending kinds and the interrupt latch per hart, markers, the stop flags | send, acknowledge, trap, idle window, last look, WFI, stop | reactor, epochs, devices | an interrupt has two halves, and most requests are flags that the interrupt only announces |
| TLB shootdown (LoongArch board, `la64_pmap.rs`) | generations per CPU, pins, residency and online masks, locks | unmap, request, service, switch address space, go offline | virtual memory, vmalloc, shutdown | senders hold locks and wait with interrupts masked |
| ext4 journal (`tx-ext4`, `tx-ext4-format`) | log ring, superblock state, one admitted mutation and its graph | admit, data, commit, checkpoint, reclaim, replay | fsync, foreground settlement, io manager | a write cache that reorders, crashes during recovery, errors after submission |

Around the centre are the objects threads block on (futex, pipe, eventfd, IPC,
sockets, tty), processes and signals, virtual memory and the page cache, the
file systems, time, the Linux system calls, and the platform. They use the centre
by the protocols above. Properties worth having there, for the plan:

* futex: a waiter that saw the expected value is on the queue before a waker can
  miss it; requeue neither loses nor duplicates a waiter; at most n are woken.
* pipe, eventfd: bytes and counts are conserved, atomic writes are not split,
  the last close wakes both sides.
* signals: a signal that becomes deliverable ends an interruptible wait; a masked
  one does not.
* process: every exited child is reported once; a thread group exits once; a
  parent that exits leaves no child without a reaper.
* deadlines: a deadline that is registered fires once or is cancelled, never both.
* zones: a capability of an earlier generation opens nothing; reservations plus
  live slots never exceed the capacity.
* bus: a reserved slot is committed or cancelled once; neither side sleeps while
  the other has room or data.

The hazards of the code, each with the line where it bites and the properties that
would show it going wrong, are in `PROJECT.json`.

## Modules

A step of a model is one critical section of the code, or one atomic operation
where the code uses no lock. Between two steps any other hart may run. Names are
the names of the source; the comment above a definition says which function it is,
and `PROJECT.json` has the lines.

**`Reactor`**: the task table, the raw waker, the owner record of the scheduler
and the loop that all harts run concurrently
(`run_hart_loop_concurrent_with_slice_clock_and_poll_budget`). A hart is at one
`pc` of the loop, and may be inside one call (a wake, a post, a submission) that it
makes from a poll or from its timer and bottom-half work. The wake is three steps
(`WakeSwap`, `WakeCount`, `WakePush`); a post adds `RouteOwner` and `RouteCommit`.
A poll that returned `Pending` goes through `PollPending` (the scheduler's Parked),
`FinishParked` or `FinishRaced` (the table's), and in the raced case
`MarkRunnable` and `MarkCommit`, with the table lock released in between, as in the
code. The run queue is only the owner record here. `owed` is a history variable: the
tasks with a wake that no poll has seen the beginning of.

**`TaskSlots`**: the life of a slot: submission into a fresh or a reused slot under a
new generation, completion, cancellation, drain. Metadata, queue entries and the wake
queue know a task by its id only, as in the code, so everything left over from an
earlier task can meet a later one. A raw `Wake` leaves a bit and an id in the wake queue;
`PostOwner` (`make_owner_runnable_with_hint`) changes the status at once, and must tell a
mailbox of an earlier generation from one of the current task.

**`Scheduler`**: the four queues of each hart with their entries, the metadata, and
all calls that read first and commit later. `Submit` reserves the metadata and
`Push` adds the entry. `Wake` routes and `WakeCommit` commits, promotes or retries.
`SetAffinity` publishes the mask and `Move` transfers the entry, or retries.
`Pick` looks at one queue per step in the order of `pick_next_from_local`,
including the aging rule with its streak. `Steal` scans a victim. `StopRoute` and
`StopCommit` end a poll.

**`RunLease`**: what the scheduler promises, without queues: a task is granted to one
hart while it is ready, and only that hart gives it back. `Scheduler` is shown to
implement it by the mapping at its end.

**`WaitSource`**: two kinds of waiters on one object: the driver, which observes the
notification sequence before it steps and registers with
`register_after_observation`, and the system calls, which register only if a predicate
still holds under the lock. Producers make a bit ready and notify, holding the lock
while they post or posting after it. Mailboxes are bounded, events coalesce, the full
queue latches the overflow flag, and other protocols post to the same mailbox.

**`Delegate`**: tokens, the four ways they become terminal, the posts after the lock,
the wait of `resolve_on_agent` and the guards that are dropped at its end. Tasks
install one request after another, so leftover events of earlier tokens are there.

**`Epoch`**: guards with their three-step admission, the three ways to retire (a head
enqueued after the barrier, a prepared publication, a reserved record), the two-pass
scan and the advance, drains with a budget, deferred drops, and taking a CPU offline
and back.

**`HartIdle`**: the loop of each hart from its top to WFI and back, one access to
shared state per step. What a hart still has to do outside the loop (the rest of a
send, of an acknowledgement, of a trap) is the sequence `ops[h]`, and a trap puts its
own operations in front of what it interrupts. `pending` is the mask in memory
(`IPI_PENDING`) and `ssip` the hardware latch. Tasks are counted per queue only; who
polls them is the subject of `Reactor`. Between the last open look at the queues
(`Window`) and the masked ones (`LastLook`, `LastDrain`) lies `PrepareWait`, which masks
interrupts; until then a handler may still acknowledge an interrupt and leave only its
flag behind. `BootWork` stands for what the boot loop does around its step (bottom halves,
console, submitted threads, reclaim callbacks), and `Quiesce` is the shutdown.

**`Shootdown`**: the unmap of a user or a kernel page, from the lock over the cleared
entry, the residency or online mask, the pins and the requests to the wait for every
target's generation; the service of the mailbox, which a poll and a nested interrupt
may both be in; entering and leaving an address space; and a CPU that goes offline.
`stale` is what the TLB of a CPU may still hold.

**`Journal`**: the disk, its volatile cache and the life of one mutation after another:
`Begin` reserves log blocks, `StartData`, `StartCommit` and `StartCheckpoint` plan a
graph, `RunNode` lets any node run whose predecessors are complete, and the completions
go on or give up. `AbortUnsubmitted` gives up a mutation whose data never became a graph. `Crash` keeps any subset of the cached writes, in whatever phase,
and `MountStart` to `MountDone` are the recovery. `Recovered(d)` is what replay would
make of the durable contents `d`; the history variable `shown` holds it.

**`AtomicStore`**: what the journal promises: a transaction changes all of its blocks
in one step or none, and nothing that took effect is ever lost. `Journal` implements
it, with `shown` as the store.

`MC*` modules give the constants values for TLC. `ReactorProofs`, `DelegateProofs`,
`EpochControl`, `EpochProofs`, `EpochPlaces`, `EpochReclaimProofs` and `ShootdownProofs`
hold the theorems; see [proofs](#proofs).

## Runs

| Run | Checks | Instance | States |
|---|---|---|---|
| `reactor` | `SingleLease`, `PinnedWakeNotLost`, `PinnedTaskHasOwner` | two harts, a pinned and a movable task, raw wakes and posts | 1.6 million |
| `reactor_live` | `RunnableIsScheduled`, `WakeLeadsToPoll` | two harts, a movable task, raw wakes | 2.6 thousand |
| `reactor_migrating_wake` | `WakeNotLost` (violated) | the same with posts | |
| `slots` | `SinglePoller`, `SlotAccounting`, `OnlyOwnWake` | two harts, two slots, two generations, cancellation, posts | 223 thousand |
| `wait_source` | `NoLostWake`, `OneRowPerWait`, `ReadyWaiterRuns` | two waiters, two bits, one producer, mailboxes of one | 209 thousand |
| `delegate` | `AppliedReplyIsTaken`, `AbortIsTerminal`, `WinnerWakes`, `FirstWriterWins`, `TerminalResumes` | two tasks, two tokens, one endpoint, mailboxes of one | 491 thousand |
| `epoch` | `NoUseAfterFree`, `OnePlace`, `BagFits`, `ReaderHoldsEpoch`, `OneAdvanceWhileRetiring` | two CPUs, three nodes, bags of one, epochs up to 4 | 1.1 million |
| `sched` | `QueuedIsPhysical`, `OneEntry`, `AffinityEnforced`, `PromotionFindsEntry`, `ImplementsRunLease`, `PreemptedIsPicked` | two harts, a service and a thread | 531 thousand |
| `journal` | `AckedIsDurable`, `OrderedData`, `MountedShowsStore`, `ImplementsAtomicStore`, `ReachesRest` | two blocks, a log of six, three mutations, two crashes, one error | 73 thousand |
| `journal_commit_error` | `ReleasedStaysUndone` (violated) | the same, with the error on the fsync path | |
| `shootdown` | `NoStaleTranslation`, `NobodyAwaitsStopped`, `RequestIsHeard`, `StopCompletes` | three CPUs, two user pages and a kernel page | 183 thousand |
| `hart_idle` | `NoSleepOverRequest`, `PublishedIsDelivered`, `WorkIsDone`, `StopIsReached` | the boot hart and a secondary, two posts | 315 thousand |

Why the bounds are enough for the cases they are about:

* Two harts are the least on which a task migrates, a wake races with the end of a
  poll, and a reclaim races with a submission. `Callers` (in `Reactor` and in
  `Scheduler`) restricts which hart calls for which task: one remote and one local
  caller of each kind remain.
* Two generations make every leftover of the first task of a slot meet the second. A
  second slot lets the free list hold a slot that is used up beside one that is not; by
  `SecondSlotBound` one hart uses it, for tasks that nobody wakes. `QueueBound` limits how
  many stale entries may pile up.
* Mailboxes of capacity one overflow at the second event. `MaxSeq`, `MaxNoise`,
  `MaxSignals` and `MaxTokens` bound notifications, foreign events, signals and tokens.
* Three bags rotate, so four epochs bring a bag round again. One node for each way to
  retire, bags of one and a drain budget of two make a bag full and a drain incomplete.
  The writing CPU leaves only from epoch 4 on (`OfflineFrom`), when everything else has
  happened, and `MaxVersion` bounds the changes of membership.
* `AgingTurns` is 1 instead of 8, so that a task ages within the instance.
* Records of three and four blocks in a log of six make reservations wrap and leave
  stale records behind; with two crashes one may hit the recovery from the other.
* Three CPUs: two senders for one target, one of which holds the lock the target
  wants, while one of the others shuts down. `Unmasked` names the points where interrupts
  are taken: in userspace, where nothing polls; in the spin on a lock, where the interrupt
  nests into a poll of the mailbox; and on the way offline.
* `MaxPosts` is what tasks and devices ask for in one behaviour. Two requests are
  enough for the second to come while the first is being acknowledged.

What these instances do not reach: in `sched` there is one affinity mask besides the full
one, so two calls with different masks never compete, and `PreemptedIsPicked` meets no
kernel task and leaves out lasting signals by its premise; in `epoch` the bound
`MaxVersion` ends the changes of membership with the first CPU that goes offline, so none
comes back (the theorems of the epoch modules have no such limit).

Deadlock is checked where the system always goes on. It is not in `slots` (generations
run out), `wait_source` and `delegate` (the bounded producers stop), `journal` (the
mutations run out), `shootdown` and `hart_idle` (the system has shut down).

For every property of a passing run there is a mutant in `PROJECT.json`: a definition
changed as a plausible bug would change it, under which TLC finds the property violated.

## Fairness

* `Reactor`: weak fairness of calls and of the hart loop; strong fairness of the drain,
  of the return of a poll and of the pick, which other harts may disable again and
  again. The loop never blocks and a poll is a call that returns.
* `WaitSource`: waiters and notifications that have begun go on. `Delegate`: tasks go
  on, and an event that is to be posted after the lock is posted. Nothing is assumed of
  replies, signals or timers.
* `Scheduler`: every hart comes back to the point where it picks, and leaves it
  (`GoesRound`). The loop of a hart never ends and polls return. The assumption also excludes the
  retry loop of an affinity change losing to a hart that runs the task for ever.
* `Journal`: a mount and a graph that has been started run through.
* `Shootdown`: CPUs go on with their own steps, polls included. A poll of a thread ends
  (strong fairness of `Idle`): the time slice stops a thread that keeps going back to
  userspace. No other interrupt is relied on, because the code may mask it.
* `HartIdle`: harts execute. Nothing is assumed of devices and timers, so the
  properties hold without the periodic timer.

## Proofs

The theorems hold for every value of the constants that satisfies the named assumption of
the module (`ConstantsAssumption`, `DelegateAssumption`, `EpochAssumption`), which TLC
evaluates on the instances. They are about the same specifications as the runs, without
fairness. The listed ones, with the inductive invariant behind each:

| Module | Theorem | Property | Inductive invariant |
|---|---|---|---|
| `ReactorProofs` | `LeaseInvariant` | `SingleLease` | `LeaseInv` |
| | `PinnedWakeSafety` | `PinnedWakeNotLost` | `WakeInv` |
| `DelegateProofs` | `WinnerAlwaysWakes`, `AbortOnlyWhenTerminal`, `ReplyIsTaken`, `FirstWriterAlwaysWins` | `WinnerWakes`, `AbortIsTerminal`, `AppliedReplyIsTaken`, `FirstWriterWins` | `Inv` |
| `EpochControl` | `ControlHolds` | | `ControlInv` |
| `EpochProofs` | `ReadersHoldTheEpoch`, `RetiringHoldsTheEpoch`, `EnqueueFindsRoom` | `ReaderHoldsEpoch`, `OneAdvanceWhileRetiring`, `BagFits` | `Inv`: `Grace`, `Room` |
| `EpochPlaces` | `NodesAreInOnePlace` | `OnePlace` | `Places` |
| `EpochReclaimProofs` | `ReadersNeverSeeFreed` | `NoUseAfterFree` | `HeldSafe` |
| `ShootdownProofs` | `StoppedAreNotAwaited` | `NobodyAwaitsStopped` | `Control`, `Pins` |
| | `FreedIsFlushed` | `NoStaleTranslation` | `Control`, `Fresh` |
| | `RequestsAreHeard` | `RequestIsHeard` | `Control`, `Heard` |

**Reactor**, for any harts, tasks, homes and any mix of wakes, posts and migration.
`SingleLease` is not inductive: a hart may only take a future that is in its slot, so the
invariant must say that a future somebody holds is out of its slot (`HeldIsTaken`), that an
unused slot is empty (`AbsentIsEmpty`) and what each location of the loop has at hand
(`AtHand`); the proof about the wake counter counts the calls between the count and the
push. For `PinnedWakeNotLost`: a pinned task is only ever dispatched on its home hart
(`PinnedInv`), so the second status write of `mark_runnable_from_hart` cannot meet another
poll of it (`MarkSafe`). From that it follows that a held future has status Polling
(`HeldIsPolling`), that a wake bit outside a poll has an entry in the wake queue or one on
its way (`BitHasEntry`), and that an owed wake has its bit or a caller still at work
(`OwedIsPending`). For movable tasks `MarkSafe` is false, which is what
`reactor_migrating_wake` shows.

**Delegate**, for any tasks, endpoints and mailbox capacity. The invariant follows the event
of a token: a terminal token is still to be posted, its event is in the mailbox of the task
that waits for it, or that mailbox has overflowed (`Announced`), and an event in a mailbox is
about a terminal token (`EventIsTerminal`). Both need that a token has one waiter
(`OwnsToken`). `FirstWriterWins` is an action property and follows step by step.

**Epoch**, for any CPUs and nodes, in four modules that build on each other. `ControlInv`
says what each location of a CPU means for its guard, its retire section, its scan and its
membership. `Grace` says what an unfinished scan knows of the CPUs it has passed, although
guards, sections and membership change behind it: that is what makes a late commit of the
advance safe. `Room` does the same for bags. `Places` puts each node in exactly one place.
`HeldSafe` then says that what a reader holds was, if retired at all, not retired before the
epoch the reader published; a node that is old enough to be detached is held by nobody.

**Shootdown**, for any CPUs and pages and any choice of unmasked points. `Control` relates
where a CPU is to the masks it is in, and fixes the page and the targets of a sender. `Pins`
says that the counter of a target is the number of its senders, and that nobody has
confirmed a pin of a CPU that has seen its counter at zero. `Fresh` says that a CPU that may
still hold a translation is yet to be asked, owes the sender a flush (its generation is
ahead of what was completed or flushed for), or is offline and the page the kernel's.
`Heard` says that a mailbox in service has an owner which has yet to release it, so the
interrupt that nests into a service may leave the request to it.

Only model-checked, on the instances above: all liveness (fairness and `ENABLED` are out of
the prover's reach), the refinements of `RunLease` and `AtomicStore`, `PinnedTaskHasOwner`,
`RunnableIsScheduled`, and the safety of `TaskSlots`, `WaitSource`, `Scheduler`, `Journal`
and `HartIdle`.


## What the checks found

Two disagreements have a run of their own.

* `reactor_migrating_wake`: a post on another hart can queue, dispatch and start polling
  a raced task before `mark_runnable` writes Runnable a second time, over Polling; a wake
  of that poll leaves no bit. The comment at `runtime.rs:805` says there is no lost-wake
  window. It needs a movable task that is woken by posts, as user threads are.
* `journal_commit_error`: `complete_commit` treats a failed commit as a failure before
  submission and gives the journal extent back (`mutation_lifecycle.rs:417`), although
  the record may be on the medium. `EXT4_LIFECYCLE_v1.md`, section 4.2, forbids that;
  the foreground settlement (`settlement.rs:42`) does it right. `journal` therefore
  lets only the foreground path fail.

Met while modelling, and either checked in earlier forms of the models or read from the
code, without a run here:

* `drain_terminal` (`runtime.rs:2439`) releases the table lock and then drops scheduler
  metadata by `TaskId` without the generation; a task submitted on another hart in
  between loses its metadata. The comment at `reactor_submit.rs:289` relies on one
  critical section. `Scheduler` leaves slot reuse out for this reason.
* `resolve_on_agent` (`drive.rs:736`) reports `Aborted(Canceled)` for a pending token
  after an overflow or a masked signal hint, against its comments at lines 739 and 829.
  `AbortIsTerminal` excludes exactly these waits with the history variable `hurried`.
* A failed checkpoint is kept but never planned again; the design document says it is
  retried through the mount owner.
* The debug assertion in `quiesce_this_cpu` (`platform_impls.rs:871`) can see the
  pin that `try_pin` takes for a moment before it gives it back.
* Boosted tasks come before aged ones, so repeated signals keep a preempted task waiting;
  `PreemptedIsPicked` assumes that signals cease.
* A userspace-preempt marker is consumed by whatever the hart polls next
  (`runtime.rs:767`), which may be a kernel task.
* A device bottom half that becomes due after the loop's last look at it is not part of
  the masked check before WFI; the periodic timer of the boot hart covers it.

## Abstractions

In every module memory is sequentially consistent and a critical section is one step.
Beyond that:

* `Reactor`: the run queues are the owner record; the order of a queue is in `Scheduler`.
* `Scheduler`: the class is always Fair, as for every task the kernel submits; the
  turn a task was queued at is a capped age; the placement counter is any hart of the
  mask; both lock sections of the fairness check are one step, and so are the take of the
  slot with the reservation and the free of a slot with its drop. Cancellation and reuse of ids
  are in `TaskSlots`.
* `Delegate`: dropping the future of a task that is torn down is not modelled.
* `Epoch`: the pin count follows from the control state; the writer claim is left out,
  which allows more behaviours; the load of the safe epoch and the detach of a bag are one
  step; drains and guards inside callbacks are not nested.
* `HartIdle`: membarrier and TLB kinds are left out; an enqueue and its marker are one step;
  a trap is taken only at the points `Interruptible` names, and its comment says why the
  others add nothing; both reads of the mask in `on_ipi` are one; devices interrupt the
  boot hart, and of their handlers only the RTC alarm posts in the interrupt; the extra
  drains of the boot loop are wakes and placements of `BootWork`.
* `Shootdown`: one address space; a flush is a flush of everything; the sender's own
  invalidation comes with the cleared entry; the poll at the top of the loop and the look at
  the stop request are one step; the deadline of two seconds on the stop and the wrap of generations are left out.
* `Journal`: data is planned once, by the writeback that began the mutation or, for a
  mutation begun in the foreground, by its settlement (all of them hold the mutation permit,
  and `data_graph` has no way to fail on the graph it builds); contents are transaction
  numbers; a payload never parses as a record, because its magic is escaped; a single-block
  write with its barrier is one durable step.

## Not modelled

`PROJECT.json` gives the reason for every part. In short: the objects threads block on,
processes and signals, the page cache, VFS and mounts, time, epoll and the rings are
planned as modules on top of these. File formats, system call decoding, tty line
discipline and synthetic file systems are sequential data processing. Third-party code,
boot, assembly and drivers are outside. Within the modelled parts the following is left out: the
sequential hart loop and wake inboxes, which production does not use; the legacy
unconditional wait (`tx-subsystems/src/wait_source.rs:284`); liveness of epoch
reclamation; retirement of address-space ids; journal revokes, orphan recovery, checksums,
wrap of sequence numbers and orderly unmount.

## Plan

Next, in this order: proofs of `SinglePoller`, `OneRowPerWait` and of
`ImplementsRunLease`; the deadline registry and the legacy wait; futex and pipe on top of
`WaitSource`; process exit and wait; zones with reservations; the page cache against
truncate and writeback.
