----------------------------- MODULE Shootdown -----------------------------
(***************************************************************************)
(* TLB shootdown of the LoongArch board (la64_pmap.rs, boot_smp.rs) with   *)
(* what surrounds it: the pmap lock and the vmalloc lock that a sender     *)
(* holds (vm/pmap.rs, slab.rs), entering and leaving userspace, and the    *)
(* shutdown that takes the secondary CPUs offline (tx-kernel init.rs).     *)
(*                                                                         *)
(* A sender clears a page table entry, asks every CPU that may have cached *)
(* it for a full flush, waits for their generations and then frees the     *)
(* frame.  The request reaches a CPU through an interrupt, or through the  *)
(* loops that poll the mailbox because interrupts may be masked there.     *)
(*                                                                         *)
(* There is one user address space and the kernel one; a page is unmapped  *)
(* at most once.  Memory is sequentially consistent.                       *)
(***************************************************************************)
EXTENDS Integers, FiniteSets, FiniteSetsExt

CONSTANTS
    Cpus,        \* CPU numbers
    Boot,        \* the CPU that runs the shutdown
    UserPages, KernelPages,
    Unmapper,    \* Unmapper[p]: the CPU whose task unmaps page p
    Unmasked,    \* bound: the points where a CPU takes interrupts
    Visitors,    \* bound: the CPUs whose tasks go to userspace
    Nobody

VARIABLES
    pc,        \* what the task level of a CPU does
    page,      \* the page it unmaps
    todo,      \* candidates: targets not yet pinned
    pending,   \* targets whose generation it waits for
    gen,       \* generations[t] of its shootdown
    lock,      \* lock[k]: holder of the "User" pmap lock, the "Kernel" vmalloc lock
    pte,       \* pages the page tables map
    freed,     \* pages whose frames were freed
    stale,     \* unmapped pages whose translation the TLB of a CPU may still hold
    resid,     \* LA64_ASID_RESIDENCY of the address space
    online, accepting,     \* LA64_ONLINE_CPUS, LA64_TLB_ACCEPTING_CPUS
    users,                 \* LA64_TLB_TARGET_USERS
    requested, completed,  \* LA64_TLB_SHOOTDOWN_REQUESTED, _COMPLETED
    servicing,             \* CPUs with LA64_TLB_SHOOTDOWN_SERVICING set
    ipi,                   \* CPUs with a TlbShootdown action pending
    svc,       \* svc[c][x]: step of the mailbox service of context x
    seen,      \* seen[c][x]: the generation it flushes for
    stop,      \* AP_REACTOR_STOP_REQUESTED
    stopped    \* AP_REACTOR_STOPPED_CPUS

sender == <<page, todo, pending, gen, lock, pte, freed, users>>
cpuset == <<resid, online, accepting, stop, stopped>>
mailbox == <<completed, servicing, svc, seen>>
vars == <<pc, sender, cpuset, mailbox, stale, requested, ipi>>

Pages == UserPages \cup KernelPages
Contexts == {"poll", "irq"}
Kind(p) == IF p \in UserPages THEN "User" ELSE "Kernel"

ASSUME ConstantsAssumption ==
    /\ Cpus \subseteq Nat /\ IsFiniteSet(Cpus) /\ Boot \in Cpus
    /\ UserPages \cap KernelPages = {}
    /\ Unmapper \in [UserPages \cup KernelPages -> Cpus]
    /\ Nobody \notin Cpus /\ Visitors \subseteq Cpus
    /\ Unmasked \subseteq {"Top", "Run", "LockWait", "Wait", "StopWait", "Drain", "LastService", "User"}

Init ==
    /\ pc = [c \in Cpus |-> "Top"]
    /\ page = [c \in Cpus |-> Nobody]
    /\ todo = [c \in Cpus |-> {}] /\ pending = [c \in Cpus |-> {}]
    /\ gen = [c \in Cpus |-> [t \in Cpus |-> 0]]
    /\ lock = [k \in {"User", "Kernel"} |-> Nobody]
    /\ pte = Pages /\ freed = {}
    /\ stale = [c \in Cpus |-> {}]
    /\ resid = {} /\ online = Cpus /\ accepting = Cpus
    /\ users = [c \in Cpus |-> 0]
    /\ requested = [c \in Cpus |-> 0] /\ completed = [c \in Cpus |-> 0]
    /\ servicing = {} /\ ipi = {}
    /\ svc = [c \in Cpus |-> [x \in Contexts |-> "None"]]
    /\ seen = [c \in Cpus |-> [x \in Contexts |-> 0]]
    /\ stop = FALSE /\ stopped = {}

Goto(c, at) == pc' = [pc EXCEPT ![c] = at]

\* The task level of CPU c is at a step: no service call is under way.
At(c, at) == pc[c] = at /\ \A x \in Contexts : svc[c][x] = "None"
-----------------------------------------------------------------------------
(* Servicing the mailbox: service_la64_pending_tlb_shootdown, called by    *)
(* the polling loops and by the interrupt, which nests over them.          *)

\* Mutant: a CPU that spins on a lock does not poll its mailbox.
PollPointsWithoutLock == {"Top", "Wait", "StopWait", "Drain", "LastService"}

\* The loops that poll the mailbox.
PollPoints == {"Top", "LockWait", "Wait", "StopWait", "Drain", "LastService"}

Step(c, x, at) == svc' = [svc EXCEPT ![c][x] = at]

\* Context x of CPU c may run: the interrupt is done before the poll goes on.
Runs(c, x) == x = "irq" \/ svc[c]["irq"] = "None"

Poll(c) ==
    /\ pc[c] \in PollPoints
    /\ \A x \in Contexts : svc[c][x] = "None"
    /\ requested[c] # completed[c]
    /\ Step(c, "poll", "Claim")
    /\ UNCHANGED <<pc, sender, cpuset, completed, servicing, seen, stale, requested, ipi>>

\* ack_ipi(TlbShootdown): the action is cleared before the mailbox is read.
Interrupt(c) ==
    /\ pc[c] \in Unmasked
    /\ c \in ipi
    /\ svc[c]["irq"] = "None"
    /\ ipi' = ipi \ {c}
    /\ Step(c, "irq", "Claim")
    /\ UNCHANGED <<pc, sender, cpuset, completed, servicing, seen, stale, requested>>

\* Nothing to do: an interrupt flushes all the same.
NothingPending(c, x) ==
    /\ svc[c][x] = "Claim" /\ Runs(c, x)
    /\ requested[c] = completed[c]
    /\ stale' = IF x = "irq" THEN [stale EXCEPT ![c] = {}] ELSE stale
    /\ Step(c, x, "None")
    /\ UNCHANGED <<pc, sender, cpuset, completed, servicing, seen, requested, ipi>>

\* The compare-exchange of the servicing flag.
Claim(c, x) ==
    /\ svc[c][x] = "Claim" /\ Runs(c, x)
    /\ requested[c] # completed[c]
    /\ Step(c, x, IF c \in servicing THEN "None" ELSE "Loop")
    /\ servicing' = servicing \cup {c}
    /\ UNCHANGED <<pc, sender, cpuset, completed, seen, stale, requested, ipi>>

Flush(c, x) ==
    /\ svc[c][x] = "Loop" /\ Runs(c, x)
    /\ requested[c] # completed[c]
    /\ seen' = [seen EXCEPT ![c][x] = requested[c]]
    /\ stale' = [stale EXCEPT ![c] = {}]
    /\ Step(c, x, "Flushed")
    /\ UNCHANGED <<pc, sender, cpuset, completed, servicing, requested, ipi>>

\* Mutant: the generation is read again after the flush.
CompleteLatest(c, x) ==
    /\ svc[c][x] = "Flushed" /\ Runs(c, x)
    /\ completed' = [completed EXCEPT ![c] = requested[c]]
    /\ seen' = [seen EXCEPT ![c][x] = 0]
    /\ Step(c, x, "Loop")
    /\ UNCHANGED <<pc, sender, cpuset, servicing, stale, requested, ipi>>

Complete(c, x) ==
    /\ svc[c][x] = "Flushed" /\ Runs(c, x)
    /\ completed' = [completed EXCEPT ![c] = seen[c][x]]
    /\ seen' = [seen EXCEPT ![c][x] = 0]
    /\ Step(c, x, "Loop")
    /\ UNCHANGED <<pc, sender, cpuset, servicing, stale, requested, ipi>>

Drained(c, x) ==
    /\ svc[c][x] = "Loop" /\ Runs(c, x)
    /\ requested[c] = completed[c]
    /\ Step(c, x, "Release")
    /\ UNCHANGED <<pc, sender, cpuset, completed, servicing, seen, stale, requested, ipi>>

Release(c, x) ==
    /\ svc[c][x] = "Release" /\ Runs(c, x)
    /\ servicing' = servicing \ {c}
    /\ Step(c, x, "Recheck")
    /\ UNCHANGED <<pc, sender, cpuset, completed, seen, stale, requested, ipi>>

\* Mutant: the mailbox is left without a last look.
RecheckSkipped(c, x) ==
    /\ svc[c][x] = "Recheck" /\ Runs(c, x)
    /\ Step(c, x, "None")
    /\ UNCHANGED <<pc, sender, cpuset, completed, servicing, seen, stale, requested, ipi>>

\* The last recheck claims the mailbox again for a request that came late.
Recheck(c, x) ==
    LET again == requested[c] # completed[c] /\ c \notin servicing IN
    /\ svc[c][x] = "Recheck" /\ Runs(c, x)
    /\ Step(c, x, IF again THEN "Loop" ELSE "None")
    /\ servicing' = IF again THEN servicing \cup {c} ELSE servicing
    /\ UNCHANGED <<pc, sender, cpuset, completed, seen, stale, requested, ipi>>

Service(c, x) == NothingPending(c, x) \/ Claim(c, x) \/ Flush(c, x) \/ Complete(c, x)
                 \/ Drained(c, x) \/ Release(c, x) \/ Recheck(c, x)
-----------------------------------------------------------------------------
(* Address spaces: tx_la64_begin_pmap_switch, the CSR writes, INVTLB and   *)
(* tx_la64_finish_pmap_switch; deactivate_la64_user_pmap.                  *)

EnterUser(c) ==
    /\ At(c, "Run") /\ Goto(c, "Entering")
    /\ resid' = resid \cup {c}
    /\ UNCHANGED <<online, accepting, stop, stopped, sender, mailbox, stale, requested, ipi>>

InstallRoot(c) ==
    /\ pc[c] = "Entering" /\ Goto(c, "Installed")
    /\ UNCHANGED <<sender, cpuset, mailbox, stale, requested, ipi>>

FinishSwitch(c) ==
    /\ pc[c] = "Installed" /\ Goto(c, "User")
    /\ stale' = [stale EXCEPT ![c] = {}]
    /\ resid' = resid \cup {c}
    /\ UNCHANGED <<online, accepting, stop, stopped, sender, mailbox, requested, ipi>>

\* A trap that reschedules: the kernel root is installed first.
LeaveUser(c) ==
    /\ At(c, "User") /\ Goto(c, "Leaving")
    /\ UNCHANGED <<sender, cpuset, mailbox, stale, requested, ipi>>

\* The thread goes on within its poll: it may enter userspace again at once.
FinishLeave(c) ==
    /\ pc[c] = "Leaving" /\ Goto(c, "Run")
    /\ stale' = [stale EXCEPT ![c] = {}]
    /\ resid' = resid \ {c}
    /\ UNCHANGED <<online, accepting, stop, stopped, sender, mailbox, requested, ipi>>

\* The TLB of CPU c may hold a translation of page p: the page walker caches
\* what the installed roots map, at any time.
Reaches(c, p) == IF p \in UserPages THEN pc[c] \in {"Installed", "User", "Leaving"}
                 ELSE pc[c] # "Parked"
-----------------------------------------------------------------------------
(* A sender: the lock, the unmap, la64_remote_tlb_shootdown.               *)

StartUnmap(c, p) ==
    /\ At(c, "Run") /\ Goto(c, "LockWait")
    /\ Unmapper[p] = c /\ p \in pte
    /\ page' = [page EXCEPT ![c] = p]
    /\ UNCHANGED <<todo, pending, gen, lock, pte, freed, users, cpuset, mailbox, stale, requested, ipi>>

\* lock_with_progress.
Acquire(c) ==
    /\ At(c, "LockWait") /\ Goto(c, "Unmap")
    /\ lock[Kind(page[c])] = Nobody
    /\ lock' = [lock EXCEPT ![Kind(page[c])] = c]
    /\ UNCHANGED <<page, todo, pending, gen, pte, freed, users, cpuset, mailbox, stale, requested, ipi>>

\* unmap_la64_user_mapping, unmap_la64_kernel_mapping: the leaf entry is cleared.
\* The shootdown begins with the invalidation of the own TLB entry, which counts
\* here already: the CPU touches the page no more in between.
ClearPte(c) ==
    /\ pc[c] = "Unmap" /\ Goto(c, "Mask")
    /\ pte' = pte \ {page[c]}
    /\ stale' = [d \in Cpus |-> IF d # c /\ Reaches(d, page[c]) THEN stale[d] \cup {page[c]}
                                                               ELSE stale[d]]
    /\ UNCHANGED <<page, todo, pending, gen, lock, freed, users, cpuset, mailbox, requested, ipi>>

\* shootdown_mappings, shootdown_kernel_mappings.
ReadMask(c) ==
    /\ pc[c] = "Mask" /\ Goto(c, "Pin")
    /\ todo' = [todo EXCEPT ![c] = (IF page[c] \in UserPages THEN resid ELSE online) \ {c}]
    /\ UNCHANGED <<page, pending, gen, lock, pte, freed, users, cpuset, mailbox, stale, requested, ipi>>

Candidate(c) == Min(todo[c])

\* try_pin_la64_tlb_target: the first look at the accepting mask.
Pin(c) ==
    /\ pc[c] = "Pin" /\ todo[c] # {}
    /\ IF Candidate(c) \in accepting
       THEN Goto(c, "PinUsers") /\ UNCHANGED todo
       ELSE UNCHANGED pc /\ todo' = [todo EXCEPT ![c] = @ \ {Candidate(c)}]
    /\ UNCHANGED <<page, pending, gen, lock, pte, freed, users, cpuset, mailbox, stale, requested, ipi>>

PinUsers(c) ==
    /\ pc[c] = "PinUsers" /\ Goto(c, "PinCheck")
    /\ users' = [users EXCEPT ![Candidate(c)] = @ + 1]
    /\ UNCHANGED <<page, todo, pending, gen, lock, pte, freed, cpuset, mailbox, stale, requested, ipi>>

\* Mutant: the accepting mask is not read again once the pin is counted.
PinUnchecked(c) ==
    /\ pc[c] = "PinCheck" /\ Goto(c, "Request")
    /\ UNCHANGED <<sender, cpuset, mailbox, stale, requested, ipi>>

\* The second look, which undoes a pin of a CPU that has gone offline.
PinCheck(c) ==
    /\ pc[c] = "PinCheck"
    /\ IF Candidate(c) \in accepting
       THEN Goto(c, "Request") /\ UNCHANGED <<todo, users>>
       ELSE /\ Goto(c, "Pin")
            /\ users' = [users EXCEPT ![Candidate(c)] = @ - 1]
            /\ todo' = [todo EXCEPT ![c] = @ \ {Candidate(c)}]
    /\ UNCHANGED <<page, pending, gen, lock, pte, freed, cpuset, mailbox, stale, requested, ipi>>

Request(c) ==
    LET t == Candidate(c) IN
    /\ pc[c] = "Request" /\ Goto(c, "SendIpi")
    /\ requested' = [requested EXCEPT ![t] = @ + 1]
    /\ gen' = [gen EXCEPT ![c][t] = requested[t] + 1]
    /\ pending' = [pending EXCEPT ![c] = @ \cup {t}]
    /\ UNCHANGED <<page, todo, lock, pte, freed, users, cpuset, mailbox, stale, ipi>>

SendIpi(c) ==
    /\ pc[c] = "SendIpi" /\ Goto(c, "Pin")
    /\ ipi' = ipi \cup {Candidate(c)}
    /\ todo' = [todo EXCEPT ![c] = @ \ {Candidate(c)}]
    /\ UNCHANGED <<page, pending, gen, lock, pte, freed, users, cpuset, mailbox, stale, requested>>

PinDone(c) ==
    /\ pc[c] = "Pin" /\ todo[c] = {} /\ Goto(c, "Wait")
    /\ UNCHANGED <<sender, cpuset, mailbox, stale, requested, ipi>>

\* la64_tlb_generation_reached: the pin is given back.
TargetDone(c, t) ==
    /\ At(c, "Wait")
    /\ t \in pending[c] /\ completed[t] >= gen[c][t]
    /\ pending' = [pending EXCEPT ![c] = @ \ {t}]
    /\ gen' = [gen EXCEPT ![c][t] = 0]
    /\ users' = [users EXCEPT ![t] = @ - 1]
    /\ UNCHANGED <<pc, page, todo, lock, pte, freed, cpuset, mailbox, stale, requested, ipi>>

\* The shootdown returns; the frame is freed, the lock released, and the poll
\* goes on.
Return(c) ==
    /\ At(c, "Wait") /\ pending[c] = {} /\ Goto(c, "Run")
    /\ freed' = freed \cup {page[c]}
    /\ lock' = [lock EXCEPT ![Kind(page[c])] = Nobody]
    /\ page' = [page EXCEPT ![c] = Nobody]
    /\ UNCHANGED <<todo, pending, gen, pte, users, cpuset, mailbox, stale, requested, ipi>>

SenderStep(c) == Acquire(c) \/ ClearPte(c) \/ ReadMask(c) \/ Pin(c) \/ PinUsers(c) \/ PinCheck(c)
                 \/ Request(c) \/ SendIpi(c) \/ PinDone(c) \/ Return(c)
                 \/ \E t \in Cpus : TargetDone(c, t)
-----------------------------------------------------------------------------
(* Shutdown: quiesce_secondary_reactors and prepare_la64_tlb_cpu_offline.  *)

StartStop ==
    /\ At(Boot, "Run") /\ Goto(Boot, "StopWait")
    /\ stop' = TRUE
    /\ UNCHANGED <<resid, online, accepting, stopped, sender, mailbox, stale, requested, ipi>>

AllStopped ==
    /\ At(Boot, "StopWait") /\ Goto(Boot, "Halted")
    /\ stopped = Cpus \ {Boot}
    /\ UNCHANGED <<sender, cpuset, mailbox, stale, requested, ipi>>

\* The top of the loop: the mailbox was polled, and a secondary looks for the
\* stop request; it leaves LA64_ONLINE_CPUS (its root is the kernel's already).
\* The code polls once: a request that comes between the poll and the look is
\* here one that comes after the look, which no sender can tell apart.
LoopTop(c) ==
    /\ At(c, "Top") /\ requested[c] = completed[c]
    /\ IF c # Boot /\ stop
       THEN Goto(c, "Offline") /\ online' = online \ {c}
       ELSE Goto(c, "Run") /\ UNCHANGED online
    /\ UNCHANGED <<resid, accepting, stop, stopped, sender, mailbox, stale, requested, ipi>>

\* Nothing to run, or the poll has ended: the next round begins.
Idle(c) ==
    /\ At(c, "Run") /\ Goto(c, "Top")
    /\ UNCHANGED <<sender, cpuset, mailbox, stale, requested, ipi>>

StopAccepting(c) ==
    /\ pc[c] = "Offline" /\ Goto(c, "Drain")
    /\ accepting' = accepting \ {c}
    /\ UNCHANGED <<resid, online, stop, stopped, sender, mailbox, stale, requested, ipi>>

DrainedSenders(c) ==
    /\ At(c, "Drain") /\ Goto(c, "LastService")
    /\ users[c] = 0
    /\ UNCHANGED <<sender, cpuset, mailbox, stale, requested, ipi>>

PublishStopped(c) ==
    /\ At(c, "LastService") /\ Goto(c, "Quiesce")
    /\ requested[c] = completed[c]
    /\ stopped' = stopped \cup {c}
    /\ UNCHANGED <<resid, online, accepting, stop, sender, mailbox, stale, requested, ipi>>

\* quiesce_this_cpu: interrupts are off for good.
Park(c) ==
    /\ pc[c] = "Quiesce" /\ Goto(c, "Parked")
    /\ UNCHANGED <<sender, cpuset, mailbox, stale, requested, ipi>>

OfflineStep(c) == StopAccepting(c) \/ DrainedSenders(c) \/ PublishStopped(c) \/ Park(c)

SwitchStep(c) == InstallRoot(c) \/ FinishSwitch(c) \/ LeaveUser(c) \/ FinishLeave(c)

\* What CPU c does of itself, interrupts and new work aside.
CpuStep(c) ==
    \/ Poll(c) \/ \E x \in Contexts : Service(c, x)
    \/ LoopTop(c) \/ Idle(c) \/ SwitchStep(c) \/ SenderStep(c) \/ OfflineStep(c)
    \/ c = Boot /\ AllStopped

Next ==
    \/ StartStop
    \/ \E c \in Cpus :
        \/ CpuStep(c) \/ Interrupt(c)
        \/ c \in Visitors /\ EnterUser(c)
        \/ \E p \in Pages : StartUnmap(c, p)

Spec == Init /\ [][Next]_vars

\* Every CPU goes on with its own steps, polls included.  A timer ends a stay in
\* userspace, and its slice ends a poll that keeps going back there.  No other
\* interrupt is relied on, for interrupts may be masked.
FairSpec == Spec /\ \A c \in Cpus : WF_vars(CpuStep(c)) /\ SF_vars(Idle(c))
-----------------------------------------------------------------------------
(* Properties.                                                             *)

\* A freed frame is reachable through no TLB: when a shootdown returns, every
\* CPU that had cached the translation has flushed it, entered after the entry
\* was cleared, or is on its way offline and touches kernel mappings no more
\* (la64_remote_tlb_shootdown, tx_la64_begin_pmap_switch, try_pin).
NoStaleTranslation ==
    \A c \in Cpus, p \in freed :
        p \in stale[c] => p \in KernelPages /\ c \notin online

\* No sender waits for a CPU that has stopped: whoever pinned it in time is
\* served before it parks, and whoever came late gave the pin back
\* (prepare_la64_tlb_cpu_offline, try_pin_la64_tlb_target).
NobodyAwaitsStopped ==
    \A c \in Cpus, t \in stopped : t \in pending[c] => completed[t] >= gen[c][t]

\* A request is never left to a chance poll: it is being served, or an interrupt
\* for it is pending or about to be sent.  The nested interrupt that finds the
\* mailbox in service returns without serving it, and relies on the owner to
\* look once more after the release (service_la64_pending_tlb_shootdown).
RequestIsHeard ==
    \A t \in Cpus :
        requested[t] # completed[t] =>
            \/ t \in ipi
            \/ \E x \in Contexts : svc[t][x] # "None"
            \/ \E c \in Cpus : pc[c] = "SendIpi" /\ Candidate(c) = t

\* A requested shutdown finds every secondary stopped, and so every unmap of a
\* secondary returns: two senders that wait for each other, a sender that holds
\* the lock a target spins on, a target that goes offline and the boot CPU never
\* wait in a circle (lock_with_progress, the polls of the wait loops,
\* quiesce_secondary_reactors).
StopCompletes == stop ~> pc[Boot] = "Halted"
=============================================================================
