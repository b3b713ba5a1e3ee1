------------------------------- MODULE Epoch --------------------------------
(***************************************************************************)
(* Epoch-based reclamation: tx-substrate/src/epoch (domain, local, bag,    *)
(* guard) and its writers in publication/mod.rs and zone.                  *)
(*                                                                         *)
(* A guarded reader loads a root and uses the node it finds.  A writer     *)
(* replaces the root inside a local-retire section and puts the old node,  *)
(* tagged with the epoch sampled after the swap, into one of three bags of *)
(* its CPU, or into a record it reserved earlier.  A drain scans the CPUs, *)
(* tries to advance the global epoch and runs the reclaim callbacks of the *)
(* nodes that are two epochs old.                                          *)
(*                                                                         *)
(* Every CPU runs one thread of control, pinned while it is in a guard or  *)
(* a retire section; a writer may run inside a guard or a callback.  Loads *)
(* and stores are sequentially consistent, which the SeqCst fences of      *)
(* guard_with_admission_hook and try_advance_epoch_with are there for.     *)
(* The membership lock protects single actions, so it is not a variable,   *)
(* and the pin count of a CPU follows from where its control is.           *)
(***************************************************************************)
EXTENDS Integers, FiniteSets, FiniteSetsExt

CONSTANTS
    N,          \* possible_cpus
    Nodes,
    First,      \* the node that is published first
    Capacity,   \* LOCAL_RETIRE_RESERVATION_CAPACITY
    Paths,      \* how each node may be retired: "Head", "Prepared", "Reserved"
    Budget,     \* nodes one drain reclaims
    Deferring,  \* the nodes whose reclaim callback defers the drop (Published nodes)
    Readers,    \* bound: the CPUs that take guards
    Writers,    \* bound: the CPUs that retire nodes
    MaxEpoch,   \* bound: epochs
    Leavers,    \* bound: the CPUs that are taken offline
    OfflineFrom, \* bound: the epoch from which CPUs are taken offline
    MaxVersion  \* bound: membership changes

CPUs == 0 .. N - 1

ASSUME EpochAssumption ==
    /\ Readers \subseteq CPUs /\ Writers \subseteq CPUs /\ Leavers \subseteq CPUs
    /\ Paths \in [Nodes -> SUBSET {"Head", "Prepared", "Reserved"}]
    /\ N \in Nat \ {0} /\ First \in Nodes /\ Capacity \in Nat /\ Budget \in Nat \ {0}
    /\ Deferring \subseteq Nodes /\ MaxEpoch \in Nat \ {0} /\ MaxVersion \in Nat /\ OfflineFrom \in Nat

VARIABLES
    epoch,     \* global_epoch
    version,   \* membership_version
    member,    \* membership of each CPU
    local,     \* local_epoch: 0 outside guards
    retiring,  \* retire_active
    bags,      \* the three bags of each CPU: tag and nodes
    credit,    \* reservations made and not filled
    ready,     \* filled records
    request,   \* drain_requested
    deferred,  \* nodes on the deferred-drop list of each CPU
    list,      \* nodes a drain has detached and not called back yet
    pc,        \* where each CPU is
    reg,       \* epoch loaded on the way into a guard
    scan,      \* locals of try_advance_epoch_with
    writer,    \* locals of the retire section
    root,      \* the published node
    held,      \* nodes a guarded reader may use
    free       \* nodes that are destroyed or not allocated

readerVars == <<local, reg, held>>
retireVars == <<retiring, writer, bags, credit, ready>>
drainVars == <<request, deferred, list, scan>>
memberVars == <<version, member>>
vars == <<epoch, memberVars, readerVars, retireVars, drainVars, pc, root, free>>

Slot(e) == e % 3
EmptyBag == [tag |-> 0, nodes |-> {}]
NoScan == [version |-> 0, current |-> 0, cpu |-> 0, blocked |-> FALSE, serviced |-> FALSE]
NoWriter == [at |-> "None", path |-> "None", prep |-> 0, epoch |-> 0, nodes |-> {}, fresh |-> {}]

Init ==
    /\ epoch = 1
    /\ version = 0
    /\ member = [c \in CPUs |-> IF c = 0 THEN "Online" ELSE "Offline"]
    /\ local = [c \in CPUs |-> 0]
    /\ retiring = [c \in CPUs |-> FALSE]
    /\ bags = [c \in CPUs |-> [k \in 0..2 |-> EmptyBag]]
    /\ credit = [c \in CPUs |-> 0]
    /\ ready = [c \in CPUs |-> {}]
    /\ request = [c \in CPUs |-> FALSE]
    /\ deferred = [c \in CPUs |-> {}]
    /\ list = [c \in CPUs |-> {}]
    /\ pc = [c \in CPUs |-> "Idle"]
    /\ reg = [c \in CPUs |-> 0]
    /\ scan = [c \in CPUs |-> NoScan]
    /\ writer = [c \in CPUs |-> NoWriter]
    /\ root = First
    /\ held = [c \in CPUs |-> {}]
    /\ free = Nodes \ {root}

Go(c, location) == pc' = [pc EXCEPT ![c] = location]
Home(c) == IF local[c] # 0 THEN "Reading" ELSE "Idle"
NotWriting(c) == writer[c].at = "None"

\* pin_count(c) # 0
Pinned(c) ==
    \/ local[c] # 0 \/ ~NotWriting(c)
    \/ pc[c] \in {"Enter", "Validate", "Republish", "Callback", "Offlining"}

-----------------------------------------------------------------------------
(* Readers.                                                                *)

GuardLoad(c) ==
    /\ c \in Readers /\ pc[c] = "Idle" /\ NotWriting(c) /\ member[c] = "Online"
    /\ reg' = [reg EXCEPT ![c] = epoch]
    /\ Go(c, "Enter")
    /\ UNCHANGED <<epoch, memberVars, local, held, retireVars, drainVars, root, free>>

GuardEnter(c) ==
    /\ pc[c] = "Enter"
    /\ local' = [local EXCEPT ![c] = reg[c]]
    /\ Go(c, "Validate")
    /\ UNCHANGED <<epoch, memberVars, reg, held, retireVars, drainVars, root, free>>

\* Mutant: the published epoch is not validated.
GuardNotValidated(c) ==
    /\ pc[c] = "Validate"
    /\ Go(c, "Reading")
    /\ reg' = [reg EXCEPT ![c] = 0]
    /\ UNCHANGED <<epoch, memberVars, local, held, retireVars, drainVars, root, free>>

GuardValidate(c) ==
    /\ pc[c] = "Validate"
    /\ Go(c, IF epoch = reg[c] THEN "Reading" ELSE "Republish")
    /\ reg' = [reg EXCEPT ![c] = 0]
    /\ UNCHANGED <<epoch, memberVars, local, held, retireVars, drainVars, root, free>>

\* The repair under the lock that also protects the epoch CAS.
GuardRepublish(c) ==
    /\ pc[c] = "Republish"
    /\ local' = [local EXCEPT ![c] = epoch]
    /\ Go(c, "Reading")
    /\ UNCHANGED <<epoch, memberVars, reg, held, retireVars, drainVars, root, free>>

\* Published::read
Read(c) ==
    /\ pc[c] = "Reading" /\ NotWriting(c) /\ root \notin held[c]
    /\ held' = [held EXCEPT ![c] = @ \cup {root}]
    /\ UNCHANGED <<epoch, memberVars, local, reg, retireVars, drainVars, pc, root, free>>

GuardDrop(c) ==
    /\ pc[c] = "Reading" /\ NotWriting(c)
    /\ local' = [local EXCEPT ![c] = 0]
    /\ held' = [held EXCEPT ![c] = {}]
    /\ Go(c, "Idle")
    /\ UNCHANGED <<epoch, memberVars, reg, retireVars, drainVars, root, free>>

-----------------------------------------------------------------------------
(* Writers.                                                                *)

\* try_reserve_local_retire, and the drop of a reservation that is not used.
Reserve(c) ==
    /\ c \in Writers /\ pc[c] \in {"Idle", "Reading"} /\ NotWriting(c) /\ member[c] = "Online"
    /\ credit[c] + Cardinality(ready[c]) < Capacity
    /\ credit' = [credit EXCEPT ![c] = @ + 1]
    /\ UNCHANGED <<epoch, memberVars, readerVars, retiring, writer, bags, ready, drainVars, pc, root, free>>

CancelReservation(c) ==
    /\ pc[c] \in {"Idle", "Reading"} /\ NotWriting(c) /\ credit[c] > 0
    /\ credit' = [credit EXCEPT ![c] = @ - 1]
    /\ UNCHANGED <<epoch, memberVars, readerVars, retiring, writer, bags, ready, drainVars, pc, root, free>>

\* local_retire_guard, for one of the ways to retire a node; the node that
\* replaces it has been allocated before.
BeginRetire(c) ==
    /\ c \in Writers /\ pc[c] \in {"Idle", "Reading", "Callback"} /\ NotWriting(c)
    /\ member[c] = "Online" \/ (member[c] = "Draining" /\ pc[c] = "Callback")
    /\ \E n \in free, path \in Paths[root] :
          /\ path = "Reserved" => credit[c] > 0
          /\ writer' = [writer EXCEPT ![c] =
                [at |-> "Begun", path |-> path, prep |-> 0, epoch |-> 0, nodes |-> {}, fresh |-> {n}]]
          /\ free' = free \ {n}
    /\ retiring' = [retiring EXCEPT ![c] = TRUE]
    /\ UNCHANGED <<epoch, memberVars, readerVars, bags, credit, ready, drainVars, pc, root>>

Fits(bag, e) == bag.nodes = {} \/ bag.tag = e

\* try_commit and commit: the bags of this epoch and the next are prepared
\* before the swap; an occupied one ends the attempt, for a retry after a drain.
Preflight(c) ==
    LET candidates == {epoch, epoch + 1} IN
    /\ writer[c].at = "Begun" /\ writer[c].path = "Prepared"
    /\ IF \A e \in candidates : Fits(bags[c][Slot(e)], e)
       THEN /\ bags' = [bags EXCEPT ![c] = [k \in 0..2 |->
                  [tag |-> IF k = Slot(epoch) THEN epoch
                           ELSE IF k = Slot(epoch + 1) THEN epoch + 1 ELSE bags[c][k].tag,
                   nodes |-> bags[c][k].nodes]]]
            /\ writer' = [writer EXCEPT ![c] =
                  [at |-> "Prepared", path |-> @.path, prep |-> epoch, epoch |-> 0, nodes |-> {}, fresh |-> @.fresh]]
            /\ UNCHANGED <<retiring, free>>
       ELSE /\ writer' = [writer EXCEPT ![c] = NoWriter]
            /\ retiring' = [retiring EXCEPT ![c] = FALSE]
            /\ free' = free \cup writer[c].fresh
            /\ UNCHANGED bags
    /\ UNCHANGED <<epoch, memberVars, readerVars, credit, ready, drainVars, pc, root>>

\* The no-new-reader barrier: the root is swapped for a fresh node.
Unlink(c) ==
    /\ writer[c].at = IF writer[c].path = "Prepared" THEN "Prepared" ELSE "Begun"
    /\ root' \in writer[c].fresh
    /\ writer' = [writer EXCEPT ![c] =
          [at |-> "Unlinked", path |-> @.path, prep |-> @.prep, epoch |-> 0, nodes |-> {root}, fresh |-> {}]]
    /\ UNCHANGED <<epoch, memberVars, readerVars, retiring, bags, credit, ready, drainVars, pc, free>>

\* sample_epoch_after_barrier
Sample(c) ==
    /\ writer[c].at = "Unlinked"
    /\ writer' = [writer EXCEPT ![c] =
          [at |-> "Sampled", path |-> @.path, prep |-> @.prep, epoch |-> epoch, nodes |-> @.nodes, fresh |-> {}]]
    /\ UNCHANGED <<epoch, memberVars, readerVars, retiring, bags, credit, ready, drainVars, pc, root, free>>

\* enqueue_head_after_barrier tags an empty bag; the prepared variant relies
\* on the tags of the preflight; a reserved record carries its own epoch.
Enqueue(c) ==
    LET w == writer[c]
        bag == bags[c][Slot(w.epoch)]
    IN
    /\ w.at = "Sampled"
    /\ IF w.path = "Reserved"
       THEN /\ ready' = [ready EXCEPT ![c] = @ \cup {[node |-> n, epoch |-> w.epoch] : n \in w.nodes}]
            /\ credit' = [credit EXCEPT ![c] = @ - 1]
            /\ UNCHANGED bags
       ELSE /\ bags' = [bags EXCEPT ![c][Slot(w.epoch)] =
                  [tag |-> IF w.path = "Head" THEN w.epoch ELSE bag.tag, nodes |-> bag.nodes \cup w.nodes]]
            /\ UNCHANGED <<credit, ready>>
    /\ writer' = [writer EXCEPT ![c] = NoWriter]
    /\ retiring' = [retiring EXCEPT ![c] = FALSE]
    /\ UNCHANGED <<epoch, memberVars, readerVars, drainVars, pc, root, free>>

-----------------------------------------------------------------------------
(* Draining.                                                               *)

\* The work a poll boundary looks for.
Pending(c) == (\E k \in 0..2 : bags[c][k].nodes # {}) \/ ready[c] # {} \/ deferred[c] # {}

\* service_local_drain_request takes the request; a poll boundary drains
\* pending work without one, and so do writers that met an occupied bag.  The
\* boot hart drains whenever it is idle.
StartDrain(c) ==
    /\ pc[c] \in {"Idle", "Reading"} /\ NotWriting(c) /\ member[c] # "Offline"
    /\ request[c] \/ Pending(c) \/ c = 0
    /\ scan' = [scan EXCEPT ![c] =
          [version |-> 0, current |-> 0, cpu |-> 0, blocked |-> FALSE, serviced |-> request[c]]]
    /\ request' = [request EXCEPT ![c] = FALSE]
    /\ Go(c, "Deferred")
    /\ UNCHANGED <<epoch, memberVars, readerVars, retireVars, deferred, list, root, free>>

\* The loads a scan begins with.
Rescan(s) == [version |-> version, current |-> epoch, cpu |-> 0, blocked |-> FALSE, serviced |-> s.serviced]

\* drain_deferred_drops, then the first load of the scan.
DropDeferred(c) ==
    /\ pc[c] = "Deferred"
    /\ \E gone \in SUBSET deferred[c] :
          /\ Cardinality(gone) = IF member[c] = "Online" THEN Min({Budget, Cardinality(deferred[c])}) ELSE 0
          /\ deferred' = [deferred EXCEPT ![c] = @ \ gone]
          /\ free' = free \cup gone
    /\ scan' = [scan EXCEPT ![c] = Rescan(@)]
    /\ Go(c, "ScanLocal")
    /\ UNCHANGED <<epoch, memberVars, readerVars, retireVars, request, list, root>>

\* The scan after it looked at a CPU and found a reason to hold the epoch, or none.
Scanned(s, found, next) ==
    [version |-> s.version, current |-> s.current, cpu |-> next, blocked |-> s.blocked \/ found, serviced |-> s.serviced]

\* Mutant: a CPU in a retire section does not hold the epoch back.
ScanIgnoresRetire(c) ==
    LET s == scan[c]
        k == s.cpu
        skip == member[k] \notin {"Online", "Draining"}
        late == local[k] # 0 /\ local[k] < s.current
    IN
    /\ pc[c] = "ScanLocal" /\ k \in CPUs
    /\ scan' = [scan EXCEPT ![c] = Scanned(s, ~skip /\ late, IF skip THEN k + 1 ELSE k)]
    /\ Go(c, IF skip THEN "ScanLocal" ELSE "ScanBags")
    /\ UNCHANGED <<epoch, memberVars, readerVars, retireVars, request, deferred, list, root, free>>

\* One CPU of the scan: its reader and its retire section ...
ScanLocal(c) ==
    LET s == scan[c]
        k == s.cpu
        skip == member[k] \notin {"Online", "Draining"}
        late == retiring[k] \/ (local[k] # 0 /\ local[k] < s.current)
    IN
    /\ pc[c] = "ScanLocal" /\ k \in CPUs
    /\ scan' = [scan EXCEPT ![c] = Scanned(s, ~skip /\ late, IF skip THEN k + 1 ELSE k)]
    /\ Go(c, IF skip THEN "ScanLocal" ELSE "ScanBags")
    /\ UNCHANGED <<epoch, memberVars, readerVars, retireVars, request, deferred, list, root, free>>

\* Mutant: nothing asks whether the bag of the next epoch is still in use.
ScanNoBags(c) ==
    /\ pc[c] = "ScanBags"
    /\ scan' = [scan EXCEPT ![c].cpu = @ + 1]
    /\ Go(c, "ScanLocal")
    /\ UNCHANGED <<epoch, memberVars, readerVars, retireVars, request, deferred, list, root, free>>

\* ... then whether its bag for the next epoch can be used; if not, another
\* CPU is asked to drain.
ScanBags(c) ==
    LET s == scan[c]
        stuck == ~Fits(bags[s.cpu][Slot(s.current + 1)], s.current + 1)
    IN
    /\ pc[c] = "ScanBags"
    /\ scan' = [scan EXCEPT ![c] = Scanned(s, stuck, s.cpu + 1)]
    /\ request' = [request EXCEPT ![s.cpu] = @ \/ (stuck /\ s.cpu # c)]
    /\ Go(c, "ScanLocal")
    /\ UNCHANGED <<epoch, memberVars, readerVars, retireVars, deferred, list, root, free>>

\* Under the lock: a changed membership repeats the scan, otherwise the epoch
\* is advanced by a compare-and-swap.
CommitAdvance(c) ==
    /\ pc[c] = "ScanLocal" /\ scan[c].cpu = N
    /\ IF scan[c].version # version
       THEN /\ scan' = [scan EXCEPT ![c] = Rescan(@)]
            /\ UNCHANGED <<epoch, pc>>
       ELSE /\ epoch' = IF ~scan[c].blocked /\ epoch = scan[c].current /\ epoch < MaxEpoch
                        THEN epoch + 1 ELSE epoch
            /\ scan' = [scan EXCEPT ![c] =
                  [version |-> 0, current |-> 0, cpu |-> 0, blocked |-> FALSE, serviced |-> @.serviced]]
            /\ Go(c, "Detach")
    /\ UNCHANGED <<memberVars, readerVars, retireVars, request, deferred, list, root, free>>

\* Mutant: a node is reclaimed one epoch after it was retired.
OldEnoughEarly(e) == epoch >= e + 1

\* Nodes retired in epoch E are reclaimable once the epoch reaches E + 2.
OldEnough(e) == epoch >= e + 2

\* reclaim_reclaimable_bags, then reclaim_reclaimable_reserved with what is
\* left of the budget.  A CPU that is going offline drains nothing.
Detach(c) ==
    LET old == UNION {bags[c][k].nodes : k \in {k \in 0..2 : OldEnough(bags[c][k].tag)}}
        records == {r \in ready[c] : OldEnough(r.epoch)}
    IN
    /\ pc[c] = "Detach"
    /\ IF member[c] # "Online"
       THEN /\ Go(c, Home(c))
            /\ scan' = [scan EXCEPT ![c] = NoScan]
            /\ UNCHANGED <<bags, ready, list>>
       ELSE \E gone \in SUBSET old, used \in SUBSET records :
            /\ Cardinality(gone) = Min({Budget, Cardinality(old)})
            /\ Cardinality(used) = Min({Budget - Cardinality(gone), Cardinality(records)})
            /\ bags' = [bags EXCEPT ![c] = [k \in 0..2 |->
                  IF bags[c][k].nodes # {} /\ bags[c][k].nodes \subseteq gone THEN EmptyBag
                  ELSE [tag |-> bags[c][k].tag, nodes |-> bags[c][k].nodes \ gone]]]
            /\ ready' = [ready EXCEPT ![c] = @ \ used]
            /\ list' = [list EXCEPT ![c] = gone \cup {r.node : r \in used}]
            /\ Go(c, "Callback")
            /\ UNCHANGED scan
    /\ UNCHANGED <<epoch, memberVars, readerVars, retiring, writer, credit, request, deferred, root, free>>

\* One reclaim callback, with local execution open: defer_node, or the drop.
Callback(c) ==
    /\ pc[c] = "Callback" /\ NotWriting(c)
    /\ \E n \in list[c] :
          /\ list' = [list EXCEPT ![c] = @ \ {n}]
          /\ deferred' = [deferred EXCEPT ![c] = IF n \in Deferring THEN @ \cup {n} ELSE @]
          /\ free' = IF n \in Deferring THEN free ELSE free \cup {n}
    /\ UNCHANGED <<epoch, memberVars, readerVars, retireVars, request, scan, pc, root>>

\* A serviced request is armed again while work is left.
EndDrain(c) ==
    /\ pc[c] = "Callback" /\ NotWriting(c) /\ list[c] = {}
    /\ request' = [request EXCEPT ![c] = @ \/ (scan[c].serviced /\ Pending(c))]
    /\ scan' = [scan EXCEPT ![c] = NoScan]
    /\ Go(c, Home(c))
    /\ UNCHANGED <<epoch, memberVars, readerVars, retireVars, deferred, list, root, free>>

-----------------------------------------------------------------------------
(* Membership.                                                             *)

\* offline_cpu, run on CPU c: the target stops being pinned anew ...
OfflineBegin(c) ==
    /\ pc[c] = "Idle" /\ NotWriting(c) /\ member[c] = "Online"
    /\ version + 1 < MaxVersion /\ epoch >= OfflineFrom
    /\ \E t \in Leavers \ {c} :
          /\ member[t] = "Online"
          /\ member' = [member EXCEPT ![t] = "Draining"]
          /\ scan' = [scan EXCEPT ![c] = [version |-> 0, current |-> 0, cpu |-> t, blocked |-> FALSE, serviced |-> FALSE]]
    /\ version' = version + 1
    /\ Go(c, "Offlining")
    /\ UNCHANGED <<epoch, readerVars, retireVars, request, deferred, list, root, free>>

\* can_merge_from and merge_from
Merges(c, t) ==
    \A k \in 0..2 : bags[t][k].nodes = {} \/ Fits(bags[c][k], bags[t][k].tag)

MergedBag(mine, theirs) ==
    IF theirs.nodes = {} THEN mine ELSE [tag |-> theirs.tag, nodes |-> mine.nodes \cup theirs.nodes]

\* Mutant: the filled records are not handed over.
OfflineDropsRecords(c) ==
    LET t == scan[c].cpu IN
    /\ pc[c] = "Offlining" /\ ~Pinned(t)
    /\ bags' = [bags EXCEPT ![c] = [k \in 0..2 |-> MergedBag(bags[c][k], bags[t][k])],
                            ![t] = [k \in 0..2 |-> EmptyBag]]
    /\ ready' = [ready EXCEPT ![t] = {}]
    /\ deferred' = [deferred EXCEPT ![c] = @ \cup deferred[t], ![t] = {}]
    /\ member' = [member EXCEPT ![t] = "Offline"]
    /\ version' = version + 1
    /\ scan' = [scan EXCEPT ![c] = NoScan]
    /\ Go(c, "Idle")
    /\ UNCHANGED <<epoch, readerVars, retiring, writer, credit, request, list, root, free>>

\* ... and once it is quiescent its retired nodes move to the coordinator.
\* Unfilled reservations, no room for the filled ones, or bags of different
\* epochs put the target back online.
OfflineTransfer(c) ==
    LET t == scan[c].cpu
        possible == /\ credit[t] = 0
                    /\ credit[c] + Cardinality(ready[c]) + Cardinality(ready[t]) <= Capacity
                    /\ Merges(c, t)
    IN
    /\ pc[c] = "Offlining" /\ ~Pinned(t)
    /\ IF possible
       THEN /\ bags' = [bags EXCEPT ![c] = [k \in 0..2 |-> MergedBag(bags[c][k], bags[t][k])],
                                    ![t] = [k \in 0..2 |-> EmptyBag]]
            /\ ready' = [ready EXCEPT ![c] = @ \cup ready[t], ![t] = {}]
            /\ deferred' = [deferred EXCEPT ![c] = @ \cup deferred[t], ![t] = {}]
            /\ request' = [request EXCEPT ![c] = @ \/ ready[t] # {} \/ deferred[c] \cup deferred[t] # {}]
            /\ member' = [member EXCEPT ![t] = "Offline"]
       ELSE /\ member' = [member EXCEPT ![t] = "Online"]
            /\ UNCHANGED <<bags, ready, deferred, request>>
    /\ version' = version + 1
    /\ scan' = [scan EXCEPT ![c] = NoScan]
    /\ Go(c, "Idle")
    /\ UNCHANGED <<epoch, readerVars, retiring, writer, credit, list, root, free>>

\* init_on_ap
Admit(c) ==
    /\ member[c] = "Offline" /\ pc[c] = "Idle" /\ version < MaxVersion
    /\ member' = [member EXCEPT ![c] = "Online"]
    /\ version' = version + 1
    /\ request' = [request EXCEPT ![c] = FALSE]
    /\ bags' = [bags EXCEPT ![c] = [k \in 0..2 |-> EmptyBag]]
    /\ ready' = [ready EXCEPT ![c] = {}]
    /\ credit' = [credit EXCEPT ![c] = 0]
    /\ UNCHANGED <<epoch, readerVars, retiring, writer, deferred, list, scan, pc, root, free>>

-----------------------------------------------------------------------------
Reader(c) ==
    GuardLoad(c) \/ GuardEnter(c) \/ GuardValidate(c) \/ GuardRepublish(c) \/ Read(c) \/ GuardDrop(c)

Writer(c) == Preflight(c) \/ Unlink(c) \/ Sample(c) \/ Enqueue(c)

Drain(c) ==
    \/ StartDrain(c) \/ DropDeferred(c) \/ ScanLocal(c) \/ ScanBags(c) \/ CommitAdvance(c)
    \/ Detach(c) \/ Callback(c) \/ EndDrain(c)

Next ==
    \E c \in CPUs :
        \/ Reader(c) \/ Reserve(c) \/ CancelReservation(c) \/ BeginRetire(c) \/ Writer(c) \/ Drain(c)
        \/ OfflineBegin(c) \/ OfflineTransfer(c) \/ Admit(c)

Spec == Init /\ [][Next]_vars

-----------------------------------------------------------------------------
(* Properties.                                                             *)

\* The promise of the guard: a node a guarded reader reached is not destroyed
\* before the guard is dropped, whatever writers and drains do meanwhile.
NoUseAfterFree == \A c \in CPUs : held[c] \cap free = {}

\* Where a node that left the root is kept until it is destroyed.
Kept(c) ==
    <<writer[c].fresh, writer[c].nodes, bags[c][0].nodes, bags[c][1].nodes, bags[c][2].nodes,
      {r.node : r \in ready[c]}, list[c], deferred[c]>>

\* No node is lost or destroyed twice: each is the root, free, or in exactly one
\* of the places that lead to its destruction, also when a CPU goes offline.
OnePlace ==
    \A n \in Nodes :
        (IF n = root THEN 1 ELSE 0) + (IF n \in free THEN 1 ELSE 0)
        + Cardinality({p \in CPUs \X (1..8) : n \in Kept(p[1])[p[2]]}) = 1

\* The bag a node goes into has room for its epoch: the enqueue after the
\* barrier "must be infallible", and the prepared one does not look.
BagFits ==
    \A c \in CPUs :
        writer[c].at = "Sampled" /\ writer[c].path # "Reserved"
            => Fits(bags[c][Slot(writer[c].epoch)], writer[c].epoch)
               /\ (writer[c].path = "Prepared" => bags[c][Slot(writer[c].epoch)].tag = writer[c].epoch)

\* "A continuously active LocalRetireGuard permits at most the one epoch
\* advance already covered by the two preflighted bags."
OneAdvanceWhileRetiring ==
    \A c \in CPUs : writer[c].prep # 0 => epoch <= writer[c].prep + 1

\* A reader that was admitted lets the epoch advance at most once.
ReaderHoldsEpoch ==
    \A c \in CPUs : held[c] # {} => epoch <= local[c] + 1
=============================================================================
