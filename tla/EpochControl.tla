---------------------------- MODULE EpochControl ----------------------------
(***************************************************************************)
(* Types and control of Epoch, for any number of CPUs and nodes: what each *)
(* location of a CPU says about its guard, its retire section, its scan    *)
(* and its membership.  EpochProofs and EpochReclaimProofs build on it.    *)
(***************************************************************************)
EXTENDS Epoch, TLAPS

\* The types of the state.
Bag == [tag : Nat, nodes : SUBSET Nodes]
Record == [node : Nodes, epoch : Nat]
Scan == [version : Nat, current : Nat, cpu : 0..N, blocked : BOOLEAN, serviced : BOOLEAN]
Section == [at : {"None", "Begun", "Prepared", "Unlinked", "Sampled"},
            path : {"None", "Head", "Prepared", "Reserved"},
            prep : Nat, epoch : Nat, nodes : SUBSET Nodes, fresh : SUBSET Nodes]
Location == {"Idle", "Enter", "Validate", "Republish", "Reading", "Deferred", "ScanLocal",
             "ScanBags", "Detach", "Callback", "Offlining"}

TypeOK ==
    /\ epoch \in Nat \ {0}
    /\ version \in Nat
    /\ member \in [CPUs -> {"Online", "Draining", "Offline"}]
    /\ local \in [CPUs -> Nat]
    /\ retiring \in [CPUs -> BOOLEAN]
    /\ bags \in [CPUs -> [0..2 -> Bag]]
    /\ ready \in [CPUs -> SUBSET Record]
    /\ request \in [CPUs -> BOOLEAN]
    /\ deferred \in [CPUs -> SUBSET Nodes]
    /\ list \in [CPUs -> SUBSET Nodes]
    /\ pc \in [CPUs -> Location]
    /\ reg \in [CPUs -> Nat]
    /\ scan \in [CPUs -> Scan]
    /\ writer \in [CPUs -> Section]
    /\ root \in Nodes
    /\ held \in [CPUs -> SUBSET Nodes]
    /\ free \in SUBSET Nodes

\* A reader whose guard is validated: its published epoch protects what it
\* reads.  Before that the epoch in local may be an old one.
Admitted(c) == local[c] # 0 /\ pc[c] \notin {"Validate", "Republish"}
Scanning(c) == pc[c] \in {"ScanLocal", "ScanBags"}

\* The guard of a CPU: where its local epoch is published, and that only an
\* admitted reader holds nodes.
GuardOK(c) ==
    /\ pc[c] \in {"Idle", "Enter", "Offlining"} => local[c] = 0
    /\ pc[c] \in {"Validate", "Republish", "Reading"} => local[c] # 0
    /\ pc[c] \in {"Enter", "Validate"} => reg[c] # 0 /\ reg[c] <= epoch
    /\ pc[c] = "Validate" => local[c] = reg[c]
    /\ local[c] <= epoch
    /\ held[c] # {} => Admitted(c)

\* Membership and drain: an offline CPU is unpinned and keeps no retired node,
\* a scan works from an epoch and a membership version that were read before.
PinOK(c) ==
    /\ member[c] = "Offline" => ~Pinned(c) /\ ready[c] = {} /\ \A k \in 0..2 : bags[c][k].nodes = {}
    /\ pc[c] = "Offlining" => scan[c].cpu \in CPUs /\ scan[c].cpu # c
    /\ Scanning(c) => scan[c].current <= epoch /\ scan[c].version <= version
    /\ pc[c] = "ScanBags" => scan[c].cpu \in CPUs
    /\ list[c] # {} => pc[c] = "Callback"

\* A retire section: the retiring flag covers it, and what its preflight and
\* its sample recorded are epochs of the past.
SectionOK(c) ==
    /\ (retiring[c] = TRUE) <=> ~NotWriting(c)
    /\ ~NotWriting(c) => pc[c] \in {"Idle", "Reading", "Callback"} /\ writer[c].path # "None"
    /\ writer[c].at \in {"None", "Begun"} => writer[c].prep = 0
    /\ writer[c].prep # 0 => writer[c].prep <= epoch
    /\ writer[c].at \in {"Prepared", "Unlinked", "Sampled"} => (writer[c].prep # 0 <=> writer[c].path = "Prepared")
    /\ writer[c].at = "Sampled" => writer[c].epoch # 0 /\ writer[c].prep <= writer[c].epoch /\ writer[c].epoch <= epoch

Control == \A c \in CPUs : GuardOK(c) /\ PinOK(c) /\ SectionOK(c)

-----------------------------------------------------------------------------
(* Type correctness.                                                       *)

\* Three consecutive epochs use three different bags (bag_index).
LEMMA SlotIs ==
    \A e \in Nat : Slot(e) \in 0..2 /\ Slot(e) # Slot(e + 1) /\ Slot(e) # Slot(e + 2) /\ Slot(e + 1) # Slot(e + 2)
  BY DEF Slot

\* A step that updates a function of the CPUs at CPU c only leaves the others.
LEMMA Frame ==
    ASSUME TypeOK, NEW c \in CPUs
    PROVE  /\ (\E x : member' = [member EXCEPT ![c] = x]) => \A d \in CPUs : d # c => member'[d] = member[d]
           /\ (\E x : local' = [local EXCEPT ![c] = x]) => \A d \in CPUs : d # c => local'[d] = local[d]
           /\ (\E x : retiring' = [retiring EXCEPT ![c] = x]) => \A d \in CPUs : d # c => retiring'[d] = retiring[d]
           /\ (\E x : bags' = [bags EXCEPT ![c] = x]) => \A d \in CPUs : d # c => bags'[d] = bags[d]
           /\ (\E x : ready' = [ready EXCEPT ![c] = x]) => \A d \in CPUs : d # c => ready'[d] = ready[d]
           /\ (\E x : list' = [list EXCEPT ![c] = x]) => \A d \in CPUs : d # c => list'[d] = list[d]
           /\ (\E x : pc' = [pc EXCEPT ![c] = x]) => \A d \in CPUs : d # c => pc'[d] = pc[d]
           /\ (\E x : reg' = [reg EXCEPT ![c] = x]) => \A d \in CPUs : d # c => reg'[d] = reg[d]
           /\ (\E x : scan' = [scan EXCEPT ![c] = x]) => \A d \in CPUs : d # c => scan'[d] = scan[d]
           /\ (\E x : writer' = [writer EXCEPT ![c] = x]) => \A d \in CPUs : d # c => writer'[d] = writer[d]
           /\ (\E x : held' = [held EXCEPT ![c] = x]) => \A d \in CPUs : d # c => held'[d] = held[d]
<1>1. (\E x : member' = [member EXCEPT ![c] = x]) => \A d \in CPUs : d # c => member'[d] = member[d]
  <2>1. DOMAIN member = CPUs
    BY Zenon DEF TypeOK
  <2> QED
    BY <2>1
<1>2. (\E x : local' = [local EXCEPT ![c] = x]) => \A d \in CPUs : d # c => local'[d] = local[d]
  <2>1. DOMAIN local = CPUs
    BY Zenon DEF TypeOK
  <2> QED
    BY <2>1
<1>3. (\E x : retiring' = [retiring EXCEPT ![c] = x]) => \A d \in CPUs : d # c => retiring'[d] = retiring[d]
  <2>1. DOMAIN retiring = CPUs
    BY Zenon DEF TypeOK
  <2> QED
    BY <2>1
<1>4. (\E x : bags' = [bags EXCEPT ![c] = x]) => \A d \in CPUs : d # c => bags'[d] = bags[d]
  <2>1. DOMAIN bags = CPUs
    BY Zenon DEF TypeOK
  <2> QED
    BY <2>1
<1>5. (\E x : ready' = [ready EXCEPT ![c] = x]) => \A d \in CPUs : d # c => ready'[d] = ready[d]
  <2>1. DOMAIN ready = CPUs
    BY Zenon DEF TypeOK
  <2> QED
    BY <2>1
<1>6. (\E x : list' = [list EXCEPT ![c] = x]) => \A d \in CPUs : d # c => list'[d] = list[d]
  <2>1. DOMAIN list = CPUs
    BY Zenon DEF TypeOK
  <2> QED
    BY <2>1
<1>7. (\E x : pc' = [pc EXCEPT ![c] = x]) => \A d \in CPUs : d # c => pc'[d] = pc[d]
  <2>1. DOMAIN pc = CPUs
    BY Zenon DEF TypeOK
  <2> QED
    BY <2>1
<1>8. (\E x : reg' = [reg EXCEPT ![c] = x]) => \A d \in CPUs : d # c => reg'[d] = reg[d]
  <2>1. DOMAIN reg = CPUs
    BY Zenon DEF TypeOK
  <2> QED
    BY <2>1
<1>9. (\E x : scan' = [scan EXCEPT ![c] = x]) => \A d \in CPUs : d # c => scan'[d] = scan[d]
  <2>1. DOMAIN scan = CPUs
    BY Zenon DEF TypeOK
  <2> QED
    BY <2>1
<1>10. (\E x : writer' = [writer EXCEPT ![c] = x]) => \A d \in CPUs : d # c => writer'[d] = writer[d]
  <2>1. DOMAIN writer = CPUs
    BY Zenon DEF TypeOK
  <2> QED
    BY <2>1
<1>11. (\E x : held' = [held EXCEPT ![c] = x]) => \A d \in CPUs : d # c => held'[d] = held[d]
  <2>1. DOMAIN held = CPUs
    BY Zenon DEF TypeOK
  <2> QED
    BY <2>1
<1> QED
  BY <1>1, <1>2, <1>3, <1>4, <1>5, <1>6, <1>7, <1>8, <1>9, <1>10, <1>11, Zenon

\* The guards and the reservations keep the types.
LEMMA TypeReader ==
    ASSUME TypeOK, NEW c \in CPUs, Reader(c) \/ Reserve(c) \/ CancelReservation(c)
    PROVE  TypeOK'
<1> USE DEF TypeOK, Location, Go, readerVars, retireVars, drainVars, memberVars
<1>1. CASE GuardLoad(c)
  BY <1>1, Zenon DEF GuardLoad
<1>2. CASE GuardEnter(c)
  BY <1>2, Zenon DEF GuardEnter
<1>3. CASE GuardValidate(c)
  BY <1>3, Zenon DEF GuardValidate
<1>4. CASE GuardRepublish(c)
  BY <1>4, Zenon DEF GuardRepublish
<1>5. CASE Read(c)
  BY <1>5 DEF Read
<1>6. CASE GuardDrop(c)
  BY <1>6, Zenon DEF GuardDrop
<1>7. CASE Reserve(c)
  BY <1>7, Zenon DEF Reserve
<1>8. CASE CancelReservation(c)
  BY <1>8, Zenon DEF CancelReservation
<1> QED
  BY <1>1, <1>2, <1>3, <1>4, <1>5, <1>6, <1>7, <1>8, Zenon DEF Reader

\* The retire sections keep the types.
LEMMA TypeWriter ==
    ASSUME TypeOK, NEW c \in CPUs, BeginRetire(c) \/ Writer(c)
    PROVE  TypeOK'
<1> USE DEF Go, readerVars, retireVars, drainVars, memberVars
<1>1. CASE BeginRetire(c)
  <2>1. PICK n \in free, path \in Paths[root] :
            /\ writer' = [writer EXCEPT ![c] =
                  [at |-> "Begun", path |-> path, prep |-> 0, epoch |-> 0, nodes |-> {}, fresh |-> {n}]]
            /\ free' = free \ {n}
    BY <1>1, Zenon DEF BeginRetire
  <2>2. path \in {"Head", "Prepared", "Reserved"} /\ n \in Nodes
    BY EpochAssumption, Zenon DEF TypeOK
  <2>3. [at |-> "Begun", path |-> path, prep |-> 0, epoch |-> 0, nodes |-> {}, fresh |-> {n}] \in Section
    BY <2>2 DEF Section
  <2>4. writer' \in [CPUs -> Section] /\ free' \in SUBSET Nodes
    BY <2>1, <2>3, Zenon DEF TypeOK
  <2>5. retiring' \in [CPUs -> BOOLEAN]
    BY <1>1, Zenon DEF TypeOK, BeginRetire
  <2> QED
    BY <1>1, <2>4, <2>5, Zenon DEF TypeOK, BeginRetire
<1>2. CASE Preflight(c)
  <2>1. writer' \in [CPUs -> Section]
    <3>1. CASE writer' = [writer EXCEPT ![c] = [at |-> "Prepared", path |-> writer[c].path, prep |-> epoch,
                                                epoch |-> 0, nodes |-> {}, fresh |-> writer[c].fresh]]
      BY <3>1, Zenon DEF TypeOK, Section
    <3>2. CASE writer' = [writer EXCEPT ![c] = NoWriter]
      BY <3>2, Zenon DEF TypeOK, Section, NoWriter
    <3> QED
      BY <3>1, <3>2, <1>2, Zenon DEF Preflight
  <2>2. bags' \in [CPUs -> [0..2 -> Bag]]
    <3> DEFINE tagged == [k \in 0..2 |-> [tag |-> IF k = Slot(epoch) THEN epoch
                             ELSE IF k = Slot(epoch + 1) THEN epoch + 1 ELSE bags[c][k].tag,
                             nodes |-> bags[c][k].nodes]]
    <3>1. tagged \in [0..2 -> Bag]
      BY DEF TypeOK, Bag
    <3>2. bags' = [bags EXCEPT ![c] = tagged] \/ bags' = bags
      BY <1>2, Zenon DEF Preflight
    <3> QED
      BY <3>1, <3>2, ZenonT(30) DEF TypeOK
  <2>3. retiring' \in [CPUs -> BOOLEAN]
    BY <1>2, Zenon DEF TypeOK, Preflight
  <2>4. free' \in SUBSET Nodes
    BY <1>2, Zenon DEF TypeOK, Preflight, Section
  <2> QED
    BY <1>2, <2>1, <2>2, <2>3, <2>4, Zenon DEF TypeOK, Preflight
<1>3. CASE Unlink(c)
  <2>1. writer' \in [CPUs -> Section]
    BY <1>3, ZenonT(30) DEF Unlink, TypeOK, Section
  <2>2. root' \in Nodes
    BY <1>3, Zenon DEF Unlink, TypeOK, Section
  <2> QED
    BY <1>3, <2>1, <2>2, Zenon DEF TypeOK, Unlink
<1>4. CASE Sample(c)
  <2>1. writer' \in [CPUs -> Section]
    BY <1>4, ZenonT(30) DEF Sample, TypeOK, Section
  <2> QED
    BY <1>4, <2>1, Zenon DEF TypeOK, Sample
<1>5. CASE Enqueue(c)
  <2>1. writer' \in [CPUs -> Section]
    BY <1>5, Zenon DEF Enqueue, TypeOK, Section, NoWriter
  <2>2. bags' \in [CPUs -> [0..2 -> Bag]]
    <3> DEFINE w == writer[c]
               bag == bags[c][Slot(w.epoch)]
               filled == [tag |-> IF w.path = "Head" THEN w.epoch ELSE bag.tag, nodes |-> bag.nodes \cup w.nodes]
    <3>1. Slot(w.epoch) \in 0..2 /\ w \in Section
      BY SlotIs, Zenon DEF TypeOK, Section
    <3>2. filled \in Bag
      BY <3>1 DEF TypeOK, Section, Bag
    <3>3. bags' = [bags EXCEPT ![c][Slot(w.epoch)] = filled] \/ bags' = bags
      BY <1>5, Zenon DEF Enqueue
    <3> HIDE DEF filled
    <3> QED
      BY <3>1, <3>2, <3>3, SMTT(30) DEF TypeOK
  <2>3. retiring' \in [CPUs -> BOOLEAN]
    BY <1>5, Zenon DEF TypeOK, Enqueue
  <2>4. ready' \in [CPUs -> SUBSET Record]
    <3> DEFINE records == {[node |-> n, epoch |-> writer[c].epoch] : n \in writer[c].nodes}
    <3>1. records \in SUBSET Record
      BY DEF TypeOK, Section, Record
    <3>2. ready' = [ready EXCEPT ![c] = @ \cup records] \/ ready' = ready
      BY <1>5, Zenon DEF Enqueue
    <3> HIDE DEF records
    <3> QED
      BY <3>1, <3>2, ZenonT(30) DEF TypeOK
  <2> QED
    BY <1>5, <2>1, <2>2, <2>3, <2>4, Zenon DEF TypeOK, Enqueue
<1> QED
  BY <1>1, <1>2, <1>3, <1>4, <1>5, Zenon DEF Writer

\* A scan that looked at a CPU is still a scan (try_advance_epoch_with).
LEMMA ScannedIs ==
    \A s \in Scan : s.cpu \in CPUs =>
        \A found : Scanned(s, found, s.cpu) \in Scan /\ Scanned(s, found, s.cpu + 1) \in Scan
  BY EpochAssumption DEF Scan, Scanned, CPUs

\* The cleared registers of a scan have its type.
LEMMA NoScanIs == NoScan \in Scan
  BY EpochAssumption DEF Scan, NoScan

\* The second look of a scan is at the CPU of the first.
LEMMA ScanBagsAt ==
    ASSUME Control, NEW c \in CPUs, pc[c] = "ScanBags"
    PROVE  scan[c].cpu \in CPUs
  BY Zenon DEF Control, PinOK

\* Drains keep the types.
LEMMA TypeDrain ==
    ASSUME TypeOK, Control, NEW c \in CPUs, Drain(c)
    PROVE  TypeOK'
<1> USE DEF Go, readerVars, retireVars, drainVars, memberVars
<1>1. CASE StartDrain(c)
  <2>1. scan' \in [CPUs -> Scan]
    BY <1>1, EpochAssumption DEF StartDrain, TypeOK, Scan
  <2>2. request' \in [CPUs -> BOOLEAN]
    BY <1>1, Zenon DEF StartDrain, TypeOK
  <2>3. pc' \in [CPUs -> Location]
    BY <1>1, Zenon DEF StartDrain, TypeOK, Location
  <2> QED
    BY <1>1, <2>1, <2>2, <2>3, Zenon DEF TypeOK, StartDrain
<1>2. CASE DropDeferred(c)
  <2>1. scan' \in [CPUs -> Scan]
    BY <1>2, EpochAssumption DEF DropDeferred, TypeOK, Scan, Rescan
  <2>2. deferred' \in [CPUs -> SUBSET Nodes] /\ free' \in SUBSET Nodes
    BY <1>2 DEF DropDeferred, TypeOK
  <2>3. pc' \in [CPUs -> Location]
    BY <1>2, Zenon DEF DropDeferred, TypeOK, Location
  <2> QED
    BY <1>2, <2>1, <2>2, <2>3, Zenon DEF TypeOK, DropDeferred
<1>3. CASE ScanLocal(c)
  <2>1. scan' \in [CPUs -> Scan]
    BY <1>3, ScannedIs, Zenon DEF ScanLocal, TypeOK
  <2>2. pc' \in [CPUs -> Location]
    BY <1>3, Zenon DEF ScanLocal, TypeOK, Location
  <2> QED
    BY <1>3, <2>1, <2>2, Zenon DEF TypeOK, ScanLocal
<1>4. CASE ScanBags(c)
  <2>1. scan' \in [CPUs -> Scan]
    BY <1>4, ScannedIs, ScanBagsAt, Zenon DEF ScanBags, TypeOK
  <2>2. request' \in [CPUs -> BOOLEAN]
    BY <1>4, Zenon DEF ScanBags, TypeOK
  <2>3. pc' \in [CPUs -> Location]
    BY <1>4, Zenon DEF ScanBags, TypeOK, Location
  <2> QED
    BY <1>4, <2>1, <2>2, <2>3, Zenon DEF TypeOK, ScanBags
<1>5. CASE CommitAdvance(c)
  <2>1. scan' \in [CPUs -> Scan]
    <3>1. \A s \in Scan : /\ Rescan(s) \in Scan
                           /\ [version |-> 0, current |-> 0, cpu |-> 0, blocked |-> FALSE, serviced |-> s.serviced] \in Scan
      BY EpochAssumption DEF Scan, Rescan, TypeOK
    <3>2. \/ scan' = [scan EXCEPT ![c] = Rescan(scan[c])]
          \/ scan' = [scan EXCEPT ![c] =
                [version |-> 0, current |-> 0, cpu |-> 0, blocked |-> FALSE, serviced |-> scan[c].serviced]]
      BY <1>5, Zenon DEF CommitAdvance
    <3>3. scan \in [CPUs -> Scan] /\ scan[c] \in Scan
      BY Zenon DEF TypeOK
    <3>4. PICK new \in Scan : scan' = [scan EXCEPT ![c] = new]
      BY <3>1, <3>2, <3>3, Zenon
    <3> QED
      BY <3>3, <3>4, Zenon
  <2>2. pc' \in [CPUs -> Location]
    <3>1. pc' = pc \/ pc' = [pc EXCEPT ![c] = "Detach"]
      BY <1>5, Zenon DEF CommitAdvance
    <3> QED
      BY <3>1, Zenon DEF TypeOK, Location
  <2>3. epoch' \in Nat \ {0}
    BY <1>5 DEF CommitAdvance, TypeOK
  <2> QED
    BY <1>5, <2>1, <2>2, <2>3, Zenon DEF TypeOK, CommitAdvance
<1>6. CASE Detach(c)
  <2>1. pc' \in [CPUs -> Location]
    <3>1. Home(c) \in Location /\ "Callback" \in Location
      BY DEF Home, Location
    <3>2. \E x \in Location : pc' = [pc EXCEPT ![c] = x]
      BY <1>6, <3>1, Zenon DEF Detach
    <3> QED
      BY <3>2 DEF TypeOK
  <2>2. CASE member[c] # "Online"
    <3>1. scan' \in [CPUs -> Scan]
      <4>1. scan' = [scan EXCEPT ![c] = NoScan]
        BY <1>6, <2>2, Zenon DEF Detach
      <4> QED
        BY <4>1, NoScanIs, Zenon DEF TypeOK
    <3> QED
      BY <1>6, <2>1, <2>2, <3>1, Zenon DEF Detach, TypeOK
  <2>3. CASE member[c] = "Online"
    <3>1. PICK gone \in SUBSET UNION {bags[c][k].nodes : k \in {k \in 0..2 : OldEnough(bags[c][k].tag)}},
               used \in SUBSET {r \in ready[c] : OldEnough(r.epoch)} :
            /\ bags' = [bags EXCEPT ![c] = [k \in 0..2 |->
                  IF bags[c][k].nodes # {} /\ bags[c][k].nodes \subseteq gone THEN EmptyBag
                  ELSE [tag |-> bags[c][k].tag, nodes |-> bags[c][k].nodes \ gone]]]
            /\ ready' = [ready EXCEPT ![c] = @ \ used]
            /\ list' = [list EXCEPT ![c] = gone \cup {r.node : r \in used}]
      BY <1>6, <2>3, Zenon DEF Detach
    <3>2. \A k \in 0..2 : (IF bags[c][k].nodes # {} /\ bags[c][k].nodes \subseteq gone THEN EmptyBag
                  ELSE [tag |-> bags[c][k].tag, nodes |-> bags[c][k].nodes \ gone]) \in Bag
      BY DEF TypeOK, Bag, EmptyBag
    <3>3. bags' \in [CPUs -> [0..2 -> Bag]]
      BY <3>1, <3>2, Zenon DEF TypeOK
    <3>4. gone \cup {r.node : r \in used} \in SUBSET Nodes
      <4>1. \A k \in 0..2 : bags[c][k].nodes \subseteq Nodes
        BY DEF TypeOK, Bag
      <4>2. \A r \in used : r.node \in Nodes
        BY DEF TypeOK, Record
      <4> QED
        BY <4>1, <4>2
    <3>5. list' \in [CPUs -> SUBSET Nodes] /\ ready' \in [CPUs -> SUBSET Record]
      BY <3>1, <3>4, Zenon DEF TypeOK
    <3> QED
      BY <1>6, <2>1, <2>3, <3>3, <3>5, Zenon DEF Detach, TypeOK
  <2> QED
    BY <2>2, <2>3, Zenon
<1>7. CASE Callback(c)
  <2>1. PICK n \in list[c] :
          /\ list' = [list EXCEPT ![c] = @ \ {n}]
          /\ deferred' = [deferred EXCEPT ![c] = IF n \in Deferring THEN @ \cup {n} ELSE @]
          /\ free' = IF n \in Deferring THEN free ELSE free \cup {n}
    BY <1>7, Zenon DEF Callback
  <2>2. n \in Nodes
    BY Zenon DEF TypeOK
  <2>3. list' \in [CPUs -> SUBSET Nodes] /\ deferred' \in [CPUs -> SUBSET Nodes] /\ free' \in SUBSET Nodes
    BY <2>1, <2>2 DEF TypeOK
  <2> QED
    BY <1>7, <2>3, Zenon DEF Callback, TypeOK
<1>8. CASE EndDrain(c)
  <2>1. scan' \in [CPUs -> Scan]
    BY <1>8, NoScanIs, Zenon DEF EndDrain, TypeOK
  <2>2. request' \in [CPUs -> BOOLEAN]
    BY <1>8, Zenon DEF EndDrain, TypeOK
  <2>3. pc' \in [CPUs -> Location]
    BY <1>8, Zenon DEF EndDrain, TypeOK, Location, Home
  <2> QED
    BY <1>8, <2>1, <2>2, <2>3, Zenon DEF TypeOK, EndDrain
<1> QED
  BY <1>1, <1>2, <1>3, <1>4, <1>5, <1>6, <1>7, <1>8, Zenon DEF Drain

\* Going offline and coming online keep the types.
LEMMA TypeMember ==
    ASSUME TypeOK, Control, NEW c \in CPUs, OfflineBegin(c) \/ OfflineTransfer(c) \/ Admit(c)
    PROVE  TypeOK'
<1> USE DEF Go, readerVars, retireVars, drainVars, memberVars
<1>1. CASE OfflineBegin(c)
  <2>1. PICK t \in CPUs :
          /\ member' = [member EXCEPT ![t] = "Draining"]
          /\ scan' = [scan EXCEPT ![c] = [version |-> 0, current |-> 0, cpu |-> t, blocked |-> FALSE, serviced |-> FALSE]]
    BY <1>1, EpochAssumption, Zenon DEF OfflineBegin
  <2>2. [version |-> 0, current |-> 0, cpu |-> t, blocked |-> FALSE, serviced |-> FALSE] \in Scan
    BY EpochAssumption DEF Scan, CPUs
  <2>3. scan' \in [CPUs -> Scan] /\ member' \in [CPUs -> {"Online", "Draining", "Offline"}]
    BY <2>1, <2>2, Zenon DEF TypeOK
  <2>4. pc' \in [CPUs -> Location]
    BY <1>1, Zenon DEF OfflineBegin, TypeOK, Location
  <2> QED
    BY <1>1, <2>3, <2>4 DEF OfflineBegin, TypeOK
<1>2. CASE OfflineTransfer(c)
  <2> DEFINE t == scan[c].cpu
  <2>1. t \in CPUs
    BY <1>2, Zenon DEF OfflineTransfer, Control, PinOK
  <2>2. scan' \in [CPUs -> Scan]
    BY <1>2, NoScanIs, Zenon DEF OfflineTransfer, TypeOK
  <2>3. pc' \in [CPUs -> Location]
    BY <1>2, Zenon DEF OfflineTransfer, TypeOK, Location
  <2>4. member' \in [CPUs -> {"Online", "Draining", "Offline"}]
    BY <1>2, <2>1, ZenonT(30) DEF OfflineTransfer, TypeOK
  <2>5. bags' \in [CPUs -> [0..2 -> Bag]]
    <3>1. [k \in 0..2 |-> MergedBag(bags[c][k], bags[t][k])] \in [0..2 -> Bag]
      BY <2>1 DEF TypeOK, Bag, MergedBag
    <3>2. [k \in 0..2 |-> EmptyBag] \in [0..2 -> Bag]
      BY Zenon DEF Bag, EmptyBag
    <3>3. \/ bags' = bags
          \/ bags' = [bags EXCEPT ![c] = [k \in 0..2 |-> MergedBag(bags[c][k], bags[t][k])],
                                  ![t] = [k \in 0..2 |-> EmptyBag]]
      BY <1>2, Zenon DEF OfflineTransfer
    <3> QED
      BY <2>1, <3>1, <3>2, <3>3, ZenonT(30) DEF TypeOK
  <2>6. ready' \in [CPUs -> SUBSET Record] /\ deferred' \in [CPUs -> SUBSET Nodes]
    <3>1. \/ ready' = ready /\ deferred' = deferred
          \/ /\ ready' = [ready EXCEPT ![c] = @ \cup ready[t], ![t] = {}]
             /\ deferred' = [deferred EXCEPT ![c] = @ \cup deferred[t], ![t] = {}]
      BY <1>2, Zenon DEF OfflineTransfer
    <3>2. ready \in [CPUs -> SUBSET Record] /\ deferred \in [CPUs -> SUBSET Nodes]
      BY Zenon DEF TypeOK
    <3> HIDE DEF t
    <3>3. ready' \in [CPUs -> SUBSET Record]
      BY <2>1, <3>1, <3>2
    <3>4. deferred' \in [CPUs -> SUBSET Nodes]
      BY <2>1, <3>1, <3>2, ZenonT(30)
    <3> QED
      BY <3>3, <3>4, Zenon
  <2>7. request' \in [CPUs -> BOOLEAN]
    BY <1>2, ZenonT(30) DEF OfflineTransfer, TypeOK
  <2>8. UNCHANGED <<epoch, local, retiring, list, reg, writer, root, held, free>> /\ version' = version + 1
    BY <1>2, Zenon DEF OfflineTransfer
  <2>9. version' \in Nat
    BY <2>8 DEF TypeOK
  <2> QED
    BY <2>2, <2>3, <2>4, <2>5, <2>6, <2>7, <2>8, <2>9, Zenon DEF TypeOK
<1>3. CASE Admit(c)
  <2>1. [k \in 0..2 |-> EmptyBag] \in [0..2 -> Bag]
    BY Zenon DEF Bag, EmptyBag
  <2>2. bags' \in [CPUs -> [0..2 -> Bag]] /\ ready' \in [CPUs -> SUBSET Record]
    BY <1>3, <2>1, Zenon DEF Admit, TypeOK
  <2>3. request' \in [CPUs -> BOOLEAN] /\ member' \in [CPUs -> {"Online", "Draining", "Offline"}]
    BY <1>3, Zenon DEF Admit, TypeOK
  <2> QED
    BY <1>3, <2>2, <2>3 DEF Admit, TypeOK
<1> QED
  BY <1>1, <1>2, <1>3, Zenon

-----------------------------------------------------------------------------
(* Control.                                                                *)

\* A step leaves CPU d alone.
SameCPU(d) ==
    /\ member'[d] = member[d] /\ local'[d] = local[d] /\ retiring'[d] = retiring[d]
    /\ bags'[d] = bags[d] /\ ready'[d] = ready[d] /\ list'[d] = list[d] /\ pc'[d] = pc[d]
    /\ reg'[d] = reg[d] /\ scan'[d] = scan[d] /\ writer'[d] = writer[d] /\ held'[d] = held[d]

ControlOf(c) == GuardOK(c) /\ PinOK(c) /\ SectionOK(c)

\* A CPU that a step leaves alone keeps its control invariant, although the
\* epoch and the membership version may have advanced meanwhile.
LEMMA SameControl ==
    ASSUME TypeOK, TypeOK', epoch <= epoch', version <= version', NEW d \in CPUs, SameCPU(d), ControlOf(d)
    PROVE  ControlOf(d)'
<1>1. epoch \in Nat /\ epoch' \in Nat /\ version \in Nat /\ version' \in Nat /\ local[d] \in Nat /\ reg[d] \in Nat
  BY Zenon DEF TypeOK
<1>2. writer[d].prep \in Nat /\ writer[d].epoch \in Nat /\ scan[d].current \in Nat /\ scan[d].version \in Nat
  BY Zenon DEF TypeOK, Section, Scan
<1>3. GuardOK(d)'
  BY <1>1 DEF ControlOf, GuardOK, Admitted, SameCPU
<1>4. PinOK(d)'
  BY <1>1, <1>2 DEF ControlOf, PinOK, Pinned, NotWriting, Scanning, SameCPU
<1>5. SectionOK(d)'
  BY <1>1, <1>2 DEF ControlOf, SectionOK, NotWriting, SameCPU
<1> QED
  BY <1>3, <1>4, <1>5, Zenon DEF ControlOf

\* It is enough to look at the CPU that takes the step.
LEMMA ControlStep ==
    ASSUME TypeOK, TypeOK', Control, epoch <= epoch', version <= version', NEW c \in CPUs,
           \A d \in CPUs : d # c => SameCPU(d), ControlOf(c)'
    PROVE  Control'
<1>1. \A d \in CPUs : d # c => ControlOf(d)'
  BY SameControl DEF Control, ControlOf
<1> QED
  BY <1>1, Zenon DEF Control, ControlOf

\* enter_reader, its validation and its repair, and the drop of the guard keep
\* the control invariant.
LEMMA ControlReader ==
    ASSUME TypeOK, TypeOK', Control, NEW c \in CPUs, Reader(c) \/ Reserve(c) \/ CancelReservation(c)
    PROVE  Control'
<1> USE DEF Go, readerVars, retireVars, drainVars, memberVars
<1>a. epoch' = epoch /\ version' = version /\ epoch \in Nat \ {0} /\ version \in Nat
  BY Zenon DEF TypeOK, Reader, GuardLoad, GuardEnter, GuardValidate, GuardRepublish, Read, GuardDrop, Reserve, CancelReservation
<1>b. \A d \in CPUs : d # c => SameCPU(d)
  <2>1. UNCHANGED <<member, retiring, bags, ready, list, scan>>
    BY Zenon DEF Reader, GuardLoad, GuardEnter, GuardValidate, GuardRepublish, Read, GuardDrop, Reserve, CancelReservation
  <2>2. local' = local \/ \E x : local' = [local EXCEPT ![c] = x]
    BY Zenon DEF Reader, GuardLoad, GuardEnter, GuardValidate, GuardRepublish, Read, GuardDrop, Reserve, CancelReservation
  <2>3. pc' = pc \/ \E x : pc' = [pc EXCEPT ![c] = x]
    BY Zenon DEF Reader, GuardLoad, GuardEnter, GuardValidate, GuardRepublish, Read, GuardDrop, Reserve, CancelReservation
  <2>4. /\ reg' = reg \/ \E x : reg' = [reg EXCEPT ![c] = x]
        /\ held' = held \/ \E x : held' = [held EXCEPT ![c] = x]
    BY Zenon DEF Reader, GuardLoad, GuardEnter, GuardValidate, GuardRepublish, Read, GuardDrop, Reserve, CancelReservation
  <2>5. writer' = writer \/ \E x : writer' = [writer EXCEPT ![c] = x]
    BY Zenon DEF Reader, GuardLoad, GuardEnter, GuardValidate, GuardRepublish, Read, GuardDrop, Reserve, CancelReservation
  <2> QED
    <3>1. \A d \in CPUs : d # c => local'[d] = local[d]
      BY <2>2, Frame, Zenon
    <3>2. \A d \in CPUs : d # c => pc'[d] = pc[d]
      BY <2>3, Frame, Zenon
    <3>3. \A d \in CPUs : d # c => reg'[d] = reg[d]
      BY <2>4, Frame, Zenon
    <3>4. \A d \in CPUs : d # c => held'[d] = held[d]
      BY <2>4, Frame, Zenon
    <3>5. \A d \in CPUs : d # c => writer'[d] = writer[d]
      BY <2>5, Frame, Zenon
    <3> QED
      BY <2>1, <3>1, <3>2, <3>3, <3>4, <3>5, Zenon DEF SameCPU
<1>c. GuardOK(c) /\ PinOK(c) /\ SectionOK(c)
  BY Zenon DEF Control
<1>d. /\ retiring' = retiring /\ writer' = writer /\ member' = member /\ bags' = bags /\ ready' = ready
      /\ list' = list /\ scan' = scan
  BY Zenon DEF Reader, GuardLoad, GuardEnter, GuardValidate, GuardRepublish, Read, GuardDrop, Reserve, CancelReservation
<1>e. local[c] \in Nat /\ reg[c] \in Nat
  BY Zenon DEF TypeOK
<1>1. CASE GuardLoad(c)
  <2>1. pc[c] = "Idle" /\ NotWriting(c) /\ member[c] = "Online" /\ pc'[c] = "Enter" /\ reg'[c] = epoch
    BY <1>1, ZenonT(30) DEF GuardLoad, TypeOK
  <2>2. local' = local /\ held' = held
    BY <1>1, Zenon DEF GuardLoad
  <2>3. GuardOK(c)'
    BY <1>a, <1>c, <2>1, <2>2 DEF GuardOK, Admitted
  <2>4. PinOK(c)'
    BY <1>c, <1>d, <2>1, <2>2, Zenon DEF PinOK, Scanning
  <2>5. SectionOK(c)'
    BY <1>a, <1>c, <1>d, <2>1, Zenon DEF SectionOK, NotWriting
  <2> QED
    BY <1>a, <1>b, <2>3, <2>4, <2>5, ControlStep DEF ControlOf
<1>2. CASE GuardEnter(c)
  <2>1. pc[c] = "Enter" /\ pc'[c] = "Validate" /\ local'[c] = reg[c] /\ reg' = reg /\ held' = held
    BY <1>2, ZenonT(30) DEF GuardEnter, TypeOK
  <2>2. GuardOK(c)'
    BY <1>a, <1>c, <1>e, <2>1, Zenon DEF GuardOK, Admitted
  <2>3. PinOK(c)'
    BY <1>c, <1>d, <2>1, Zenon DEF PinOK, Scanning, Pinned
  <2>4. SectionOK(c)'
    BY <1>a, <1>c, <1>d, <2>1, Zenon DEF SectionOK, NotWriting
  <2> QED
    BY <1>a, <1>b, <2>2, <2>3, <2>4, ControlStep DEF ControlOf
<1>3. CASE GuardValidate(c)
  <2>1. /\ pc[c] = "Validate" /\ local' = local /\ held' = held
        /\ pc'[c] \in {"Reading", "Republish"}
    BY <1>3, ZenonT(30) DEF GuardValidate, TypeOK
  <2>2. GuardOK(c)'
    BY <1>a, <1>c, <1>e, <2>1, Zenon DEF GuardOK, Admitted
  <2>3. PinOK(c)'
    BY <1>c, <1>d, <2>1, Zenon DEF PinOK, Scanning, Pinned
  <2>4. SectionOK(c)'
    BY <1>a, <1>c, <1>d, <2>1, Zenon DEF SectionOK, NotWriting
  <2> QED
    BY <1>a, <1>b, <2>2, <2>3, <2>4, ControlStep DEF ControlOf
<1>4. CASE GuardRepublish(c)
  <2>1. pc[c] = "Republish" /\ pc'[c] = "Reading" /\ local'[c] = epoch /\ held' = held
    BY <1>4, ZenonT(30) DEF GuardRepublish, TypeOK
  <2>2. GuardOK(c)'
    BY <1>a, <1>c, <1>e, <2>1 DEF GuardOK, Admitted
  <2>3. PinOK(c)'
    BY <1>c, <1>d, <2>1, Zenon DEF PinOK, Scanning, Pinned
  <2>4. SectionOK(c)'
    BY <1>a, <1>c, <1>d, <2>1, Zenon DEF SectionOK, NotWriting
  <2> QED
    BY <1>a, <1>b, <2>2, <2>3, <2>4, ControlStep DEF ControlOf
<1>5. CASE Read(c)
  <2>1. pc[c] = "Reading" /\ pc' = pc /\ local' = local /\ reg' = reg
    BY <1>5, Zenon DEF Read, TypeOK
  <2>2. GuardOK(c)'
    BY <1>a, <1>c, <1>e, <2>1, Zenon DEF GuardOK, Admitted
  <2>3. PinOK(c)'
    BY <1>a, <1>c, <1>d, <2>1, Zenon DEF PinOK, Scanning, Pinned, NotWriting
  <2>4. SectionOK(c)'
    BY <1>a, <1>c, <1>d, <2>1, Zenon DEF SectionOK, NotWriting
  <2> QED
    BY <1>a, <1>b, <2>2, <2>3, <2>4, ControlStep DEF ControlOf
<1>6. CASE GuardDrop(c)
  <2>1. pc[c] = "Reading" /\ NotWriting(c) /\ pc'[c] = "Idle" /\ local'[c] = 0 /\ held'[c] = {}
    BY <1>6, ZenonT(30) DEF GuardDrop, TypeOK
  <2>2. GuardOK(c)'
    BY <1>a, <1>c, <1>e, <2>1 DEF GuardOK, Admitted
  <2>3. PinOK(c)'
    BY <1>a, <1>c, <1>d, <2>1, Zenon DEF PinOK, GuardOK, Scanning, Pinned, NotWriting
  <2>4. SectionOK(c)'
    BY <1>a, <1>c, <1>d, <2>1, Zenon DEF SectionOK, NotWriting
  <2> QED
    BY <1>a, <1>b, <2>2, <2>3, <2>4, ControlStep DEF ControlOf
<1>7. CASE Reserve(c) \/ CancelReservation(c)
  <2>1. SameCPU(c)
    BY <1>7, Zenon DEF SameCPU, Reserve, CancelReservation
  <2> QED
    BY <1>a, <1>b, <1>c, <2>1, SameControl, ControlStep DEF ControlOf
<1> QED
  BY <1>1, <1>2, <1>3, <1>4, <1>5, <1>6, <1>7, Zenon DEF Reader

\* The steps of a retire section leave the other CPUs alone.
LEMMA WriterElsewhere ==
    ASSUME TypeOK, NEW c \in CPUs, BeginRetire(c) \/ Writer(c)
    PROVE  \A d \in CPUs : d # c => SameCPU(d)
<1> USE DEF Go, readerVars, retireVars, drainVars, memberVars
<1>1. UNCHANGED <<member, local, list, pc, reg, scan, held>>
  BY Zenon DEF Writer, BeginRetire, Preflight, Unlink, Sample, Enqueue
<1>2. \E x : writer' = [writer EXCEPT ![c] = x]
  BY Zenon DEF Writer, BeginRetire, Preflight, Unlink, Sample, Enqueue
<1>3. retiring' = retiring \/ \E x : retiring' = [retiring EXCEPT ![c] = x]
  BY Zenon DEF Writer, BeginRetire, Preflight, Unlink, Sample, Enqueue
<1>4. bags' = bags \/ \E x : bags' = [bags EXCEPT ![c] = x]
  BY Zenon DEF Writer, BeginRetire, Preflight, Unlink, Sample, Enqueue
<1>5. ready' = ready \/ \E x : ready' = [ready EXCEPT ![c] = x]
  BY Zenon DEF Writer, BeginRetire, Preflight, Unlink, Sample, Enqueue
<1> QED
  <2>1. \A d \in CPUs : d # c => writer'[d] = writer[d]
    BY <1>2, Frame, Zenon
  <2>2. \A d \in CPUs : d # c => retiring'[d] = retiring[d]
    BY <1>3, Frame, Zenon
  <2>3. \A d \in CPUs : d # c => bags'[d] = bags[d]
    BY <1>4, Frame, Zenon
  <2>4. \A d \in CPUs : d # c => ready'[d] = ready[d]
    BY <1>5, Frame, Zenon
  <2> QED
    BY <1>1, <2>1, <2>2, <2>3, <2>4, Zenon DEF SameCPU

\* The steps of a retire section keep the control invariant.
LEMMA ControlWriter ==
    ASSUME TypeOK, TypeOK', Control, NEW c \in CPUs, BeginRetire(c) \/ Writer(c)
    PROVE  Control'
<1> USE DEF Go, readerVars, retireVars, drainVars, memberVars
<1>a. epoch' = epoch /\ version' = version /\ epoch \in Nat \ {0} /\ version \in Nat
  BY Zenon DEF TypeOK, Writer, BeginRetire, Preflight, Unlink, Sample, Enqueue
<1>b. \A d \in CPUs : d # c => SameCPU(d)
  BY WriterElsewhere, Zenon
<1>c. GuardOK(c) /\ PinOK(c) /\ SectionOK(c)
  BY Zenon DEF Control
<1>d. local' = local /\ reg' = reg /\ held' = held /\ pc' = pc /\ member' = member /\ list' = list /\ scan' = scan
  BY Zenon DEF Writer, BeginRetire, Preflight, Unlink, Sample, Enqueue
<1>e. writer[c].prep \in Nat /\ writer[c].epoch \in Nat /\ writer[c].at \in {"None", "Begun", "Prepared", "Unlinked", "Sampled"}
  BY Zenon DEF TypeOK, Section
<1>f. member[c] # "Offline"
  BY <1>c, Zenon DEF PinOK, Pinned, NotWriting, Writer, BeginRetire, Preflight, Unlink, Sample, Enqueue
<1>g. GuardOK(c)'
  BY <1>a, <1>c, <1>d, Zenon DEF GuardOK, Admitted
<1>h. PinOK(c)'
  BY <1>a, <1>c, <1>d, <1>f, Zenon DEF PinOK, Scanning
<1>1. CASE BeginRetire(c)
  <2>1. /\ pc[c] \in {"Idle", "Reading", "Callback"} /\ retiring'[c] = TRUE
        /\ writer'[c].at = "Begun" /\ writer'[c].prep = 0 /\ writer'[c].path # "None"
    <3>1. \A path \in Paths[root] : path # "None"
      <4>1. root \in Nodes
        BY Zenon DEF TypeOK
      <4>2. Paths[root] \in SUBSET {"Head", "Prepared", "Reserved"}
        BY <4>1, EpochAssumption
      <4> QED
        BY <4>2
    <3>2. PICK n \in free, path \in Paths[root] : writer' = [writer EXCEPT ![c] =
              [at |-> "Begun", path |-> path, prep |-> 0, epoch |-> 0, nodes |-> {}, fresh |-> {n}]]
      BY <1>1, Zenon DEF BeginRetire
    <3>3. pc[c] \in {"Idle", "Reading", "Callback"} /\ retiring' = [retiring EXCEPT ![c] = TRUE]
      BY <1>1, Zenon DEF BeginRetire
    <3>4. DOMAIN writer = CPUs /\ DOMAIN retiring = CPUs
      BY Zenon DEF TypeOK
    <3> QED
      BY <3>1, <3>2, <3>3, <3>4, Zenon
  <2>2. SectionOK(c)'
    BY <1>d, <2>1, Zenon DEF SectionOK, NotWriting
  <2> QED
    BY <1>a, <1>b, <1>g, <1>h, <2>2, ControlStep DEF ControlOf
<1>2. CASE Preflight(c)
  <2>1. writer[c].at = "Begun" /\ writer[c].path = "Prepared"
    BY <1>2, Zenon DEF Preflight
  <2>2. CASE \A e \in {epoch, epoch + 1} : Fits(bags[c][Slot(e)], e)
    <3>1. /\ retiring' = retiring /\ writer'[c].at = "Prepared" /\ writer'[c].prep = epoch
          /\ writer'[c].path = "Prepared"
      BY <1>2, <2>1, <2>2 DEF Preflight, TypeOK
    <3>2. SectionOK(c)'
      BY <1>a, <1>c, <1>d, <2>1, <3>1 DEF SectionOK, NotWriting
    <3> QED
      BY <1>a, <1>b, <1>g, <1>h, <3>2, ControlStep DEF ControlOf
  <2>3. CASE ~ \A e \in {epoch, epoch + 1} : Fits(bags[c][Slot(e)], e)
    <3>1. retiring'[c] = FALSE /\ writer'[c] = NoWriter
      BY <1>2, <2>3 DEF Preflight, TypeOK
    <3>2. SectionOK(c)'
      BY <3>1 DEF SectionOK, NotWriting, NoWriter
    <3> QED
      BY <1>a, <1>b, <1>g, <1>h, <3>2, ControlStep DEF ControlOf
  <2> QED
    BY <2>2, <2>3, Zenon
<1>3. CASE Unlink(c)
  <2>1. /\ writer[c].at = IF writer[c].path = "Prepared" THEN "Prepared" ELSE "Begun"
        /\ retiring' = retiring /\ writer'[c].at = "Unlinked" /\ writer'[c].prep = writer[c].prep
        /\ writer'[c].path = writer[c].path
    BY <1>3, ZenonT(30) DEF Unlink, TypeOK
  <2>2. SectionOK(c)'
    BY <1>a, <1>c, <1>d, <1>e, <2>1, Zenon DEF SectionOK, NotWriting
  <2> QED
    BY <1>a, <1>b, <1>g, <1>h, <2>2, ControlStep DEF ControlOf
<1>4. CASE Sample(c)
  <2>1. /\ writer[c].at = "Unlinked" /\ retiring' = retiring /\ writer'[c].at = "Sampled"
        /\ writer'[c].prep = writer[c].prep /\ writer'[c].path = writer[c].path /\ writer'[c].epoch = epoch
    BY <1>4, ZenonT(30) DEF Sample, TypeOK
  <2>2. SectionOK(c)'
    BY <1>a, <1>c, <1>d, <1>e, <2>1 DEF SectionOK, NotWriting
  <2> QED
    BY <1>a, <1>b, <1>g, <1>h, <2>2, ControlStep DEF ControlOf
<1>5. CASE Enqueue(c)
  <2>1. retiring'[c] = FALSE /\ writer'[c] = NoWriter
    BY <1>5, ZenonT(30) DEF Enqueue, TypeOK
  <2>2. SectionOK(c)'
    BY <2>1 DEF SectionOK, NotWriting, NoWriter
  <2> QED
    BY <1>a, <1>b, <1>g, <1>h, <2>2, ControlStep, SMTT(30) DEF ControlOf
<1> QED
  BY <1>1, <1>2, <1>3, <1>4, <1>5, Zenon DEF Writer

\* Drains, scans and the epoch advance keep the control invariant.
LEMMA ControlDrain ==
    ASSUME TypeOK, TypeOK', Control, NEW c \in CPUs, Drain(c)
    PROVE  Control'
<1> USE DEF Go, readerVars, retireVars, drainVars, memberVars
<1>a. /\ epoch <= epoch' /\ version' = version /\ epoch \in Nat \ {0} /\ version \in Nat
      /\ epoch' \in Nat
  <2>1. epoch' = epoch \/ epoch' = epoch + 1
    BY Zenon DEF Drain, StartDrain, DropDeferred, ScanLocal, ScanBags, CommitAdvance, Detach, Callback, EndDrain
  <2>2. version' = version
    BY Zenon DEF Drain, StartDrain, DropDeferred, ScanLocal, ScanBags, CommitAdvance, Detach, Callback, EndDrain
  <2> QED
    BY <2>1, <2>2 DEF TypeOK
<1>b. \A d \in CPUs : d # c => SameCPU(d)
  <2>1. UNCHANGED <<member, local, retiring, reg, writer, held>>
    BY Zenon DEF Drain, StartDrain, DropDeferred, ScanLocal, ScanBags, CommitAdvance, Detach, Callback, EndDrain
  <2>2. pc' = pc \/ \E x : pc' = [pc EXCEPT ![c] = x]
    BY Zenon DEF Drain, StartDrain, DropDeferred, ScanLocal, ScanBags, CommitAdvance, Detach, Callback, EndDrain
  <2>3. scan' = scan \/ \E x : scan' = [scan EXCEPT ![c] = x]
    BY Zenon DEF Drain, StartDrain, DropDeferred, ScanLocal, ScanBags, CommitAdvance, Detach, Callback, EndDrain
  <2>4. bags' = bags \/ \E x : bags' = [bags EXCEPT ![c] = x]
    BY Zenon DEF Drain, StartDrain, DropDeferred, ScanLocal, ScanBags, CommitAdvance, Detach, Callback, EndDrain
  <2>5. ready' = ready \/ \E x : ready' = [ready EXCEPT ![c] = x]
    BY Zenon DEF Drain, StartDrain, DropDeferred, ScanLocal, ScanBags, CommitAdvance, Detach, Callback, EndDrain
  <2>6. list' = list \/ \E x : list' = [list EXCEPT ![c] = x]
    BY Zenon DEF Drain, StartDrain, DropDeferred, ScanLocal, ScanBags, CommitAdvance, Detach, Callback, EndDrain
  <2> QED
    <3>1. \A d \in CPUs : d # c => pc'[d] = pc[d]
      BY <2>2, Frame, Zenon
    <3>2. \A d \in CPUs : d # c => scan'[d] = scan[d]
      BY <2>3, Frame, Zenon
    <3>3. \A d \in CPUs : d # c => bags'[d] = bags[d]
      BY <2>4, Frame, Zenon
    <3>4. \A d \in CPUs : d # c => ready'[d] = ready[d]
      BY <2>5, Frame, Zenon
    <3>5. \A d \in CPUs : d # c => list'[d] = list[d]
      BY <2>6, Frame, Zenon
    <3> QED
      BY <2>1, <3>1, <3>2, <3>3, <3>4, <3>5, Zenon DEF SameCPU
<1>c. GuardOK(c) /\ PinOK(c) /\ SectionOK(c)
  BY Zenon DEF Control
<1>d. local' = local /\ reg' = reg /\ held' = held /\ member' = member /\ writer' = writer /\ retiring' = retiring
  BY Zenon DEF Drain, StartDrain, DropDeferred, ScanLocal, ScanBags, CommitAdvance, Detach, Callback, EndDrain
<1>e. local[c] \in Nat /\ writer[c].prep \in Nat /\ writer[c].epoch \in Nat
  BY Zenon DEF TypeOK, Section
<1>f. SUFFICES /\ pc[c] \in {"Idle", "Reading", "Deferred", "ScanLocal", "ScanBags", "Detach", "Callback"}
               /\ pc'[c] \in {"Deferred", "ScanLocal", "ScanBags", "Detach", "Callback", Home(c)}
               /\ NotWriting(c)
               /\ PinOK(c)'
  <2>1. ASSUME pc[c] \in {"Idle", "Reading", "Deferred", "ScanLocal", "ScanBags", "Detach", "Callback"},
               pc'[c] \in {"Deferred", "ScanLocal", "ScanBags", "Detach", "Callback", Home(c)}
        PROVE  GuardOK(c)'
    BY <1>a, <1>c, <1>d, <1>e, <2>1 DEF GuardOK, Admitted, Home
  <2>2. ASSUME NotWriting(c)
        PROVE  SectionOK(c)'
    BY <1>a, <1>c, <1>d, <1>e, <2>2, Zenon DEF SectionOK, NotWriting
  <2> QED
    BY <1>a, <1>b, <2>1, <2>2, ControlStep, SMTT(30) DEF ControlOf
<1>1. CASE StartDrain(c)
  <2>1. /\ pc[c] \in {"Idle", "Reading"} /\ NotWriting(c) /\ member[c] # "Offline" /\ pc'[c] = "Deferred"
        /\ list' = list
    BY <1>1, ZenonT(30) DEF StartDrain, TypeOK
  <2> QED
    BY <1>c, <1>d, <2>1, Zenon DEF PinOK, Scanning
<1>g. CASE pc[c] \in {"Deferred", "ScanLocal", "ScanBags", "Detach"}
  <2>1. NotWriting(c) /\ list[c] = {}
    BY <1>c, <1>g, Zenon DEF SectionOK, PinOK
  <2>2. ASSUME bags'[c] = bags[c], ready'[c] = ready[c], list'[c] = {},
               pc'[c] \in {"ScanLocal", "ScanBags", "Detach", Home(c)}
        PROVE  /\ member'[c] = "Offline" => ~Pinned(c)' /\ ready'[c] = {} /\ \A k \in 0..2 : bags'[c][k].nodes = {}
               /\ pc'[c] # "Offlining" /\ list'[c] = {}
    BY <1>c, <1>d, <1>g, <2>1, <2>2, Zenon DEF PinOK, Pinned, NotWriting, Home
  <2>3. CASE DropDeferred(c)
    <3>1. /\ bags' = bags /\ ready' = ready /\ list' = list /\ pc'[c] = "ScanLocal"
          /\ scan'[c].current = epoch /\ scan'[c].version = version
      BY <2>3 DEF DropDeferred, Rescan, TypeOK
    <3>2. epoch' = epoch
      BY <2>3, Zenon DEF DropDeferred
    <3>3. version' = version /\ epoch <= epoch /\ version <= version
      <4>1. version' = version
        BY <2>3, Zenon DEF DropDeferred, memberVars
      <4>2. epoch \in Nat /\ version \in Nat
        BY Zenon DEF TypeOK
      <4> QED
        BY <4>1, <4>2
    <3>4. scan'[c].current <= epoch' /\ scan'[c].version <= version'
      BY <3>1, <3>2, <3>3, Zenon
    <3> QED
      BY <1>g, <2>1, <2>2, <3>1, <3>4, Zenon DEF PinOK, Scanning
  <2>4. CASE ScanLocal(c)
    <3>1. /\ bags' = bags /\ ready' = ready /\ list' = list /\ pc'[c] \in {"ScanLocal", "ScanBags"} /\ epoch' = epoch
          /\ pc'[c] = "ScanBags" => scan'[c].cpu \in CPUs
          /\ scan'[c].current = scan[c].current /\ scan'[c].version = scan[c].version
      BY <2>4, ZenonT(30) DEF ScanLocal, Scanned, TypeOK
    <3> QED
      BY <1>a, <1>c, <1>g, <2>1, <2>2, <2>4, <3>1, Zenon DEF PinOK, Scanning, ScanLocal
  <2>5. CASE ScanBags(c)
    <3>1. /\ bags' = bags /\ ready' = ready /\ list' = list /\ pc'[c] = "ScanLocal" /\ epoch' = epoch
          /\ scan'[c].current = scan[c].current /\ scan'[c].version = scan[c].version
      BY <2>5, ZenonT(30) DEF ScanBags, Scanned, TypeOK
    <3> QED
      BY <1>a, <1>c, <1>g, <2>1, <2>2, <2>5, <3>1, Zenon DEF PinOK, Scanning, ScanBags
  <2>6. CASE CommitAdvance(c)
    <3>1. bags' = bags /\ ready' = ready /\ list' = list
      BY <2>6, Zenon DEF CommitAdvance
    <3>2. CASE scan[c].version # version
      <4>1. pc' = pc /\ epoch' = epoch /\ scan'[c].current = epoch /\ scan'[c].version = version
        BY <2>6, <3>2 DEF CommitAdvance, TypeOK, Rescan
      <4> QED
        <5>1. version' = version /\ pc[c] = "ScanLocal"
          BY <2>6, Zenon DEF CommitAdvance, memberVars
        <5>2. epoch \in Nat /\ version \in Nat
          BY Zenon DEF TypeOK
        <5>3. epoch <= epoch /\ version <= version
          BY <5>2
        <5>4. scan'[c].current <= epoch' /\ scan'[c].version <= version'
          BY <4>1, <5>1, <5>3, Zenon
        <5> QED
          BY <1>g, <2>1, <2>2, <3>1, <4>1, <5>1, <5>4, Zenon DEF PinOK, Scanning
    <3>3. CASE scan[c].version = version
      <4>1. pc'[c] = "Detach"
        BY <2>6, <3>3, ZenonT(30) DEF CommitAdvance, TypeOK
      <4> QED
        BY <1>g, <2>1, <2>2, <3>1, <4>1, Zenon DEF PinOK, Scanning
    <3> QED
      BY <3>2, <3>3, Zenon
  <2>7. CASE Detach(c)
    <3>1. CASE member[c] # "Online"
      <4>1. bags' = bags /\ ready' = ready /\ list' = list /\ pc'[c] = Home(c)
        <5>1. bags' = bags /\ ready' = ready /\ list' = list /\ pc' = [pc EXCEPT ![c] = Home(c)]
          BY <2>7, <3>1, Zenon DEF Detach, Go
        <5>2. DOMAIN pc = CPUs
          BY Zenon DEF TypeOK
        <5> QED
          BY <5>1, <5>2, Zenon
      <4> QED
        BY <1>g, <2>1, <2>2, <4>1, Zenon DEF PinOK, Scanning, Home
    <3>2. CASE member[c] = "Online"
      <4>1. pc'[c] = "Callback"
        <5>1. pc' = [pc EXCEPT ![c] = "Callback"]
          BY <2>7, <3>2, Zenon DEF Detach
        <5>2. DOMAIN pc = CPUs
          BY Zenon DEF TypeOK
        <5> QED
          BY <5>1, <5>2, Zenon
      <4> QED
        BY <1>d, <1>g, <2>1, <3>2, <4>1, Zenon DEF PinOK, Scanning
    <3> QED
      BY <3>1, <3>2, Zenon
  <2> QED
    BY <1>g, <2>3, <2>4, <2>5, <2>6, <2>7, Zenon DEF Drain, StartDrain, Callback, EndDrain
<1>8. CASE Callback(c)
  <2>1. bags' = bags /\ ready' = ready /\ pc' = pc /\ pc[c] = "Callback" /\ NotWriting(c)
    BY <1>8, Zenon DEF Callback
  <2> QED
    BY <1>c, <1>d, <2>1, Zenon DEF PinOK, Scanning, Pinned, NotWriting
<1>9. CASE EndDrain(c)
  <2>1. /\ bags' = bags /\ ready' = ready /\ pc'[c] = Home(c) /\ pc[c] = "Callback" /\ NotWriting(c)
        /\ list' = list /\ list[c] = {}
    BY <1>9, ZenonT(30) DEF EndDrain, TypeOK
  <2> QED
    BY <1>c, <1>d, <2>1, Zenon DEF PinOK, Scanning, Pinned, NotWriting, Home
<1> QED
  BY <1>1, <1>g, <1>8, <1>9, Zenon DEF Drain, DropDeferred, ScanLocal, ScanBags, CommitAdvance, Detach

\* offline_cpu and init_on_ap keep the control invariant: a CPU that goes
\* offline is not pinned and has handed its nodes over.
LEMMA ControlMember ==
    ASSUME TypeOK, TypeOK', Control, NEW c \in CPUs, OfflineBegin(c) \/ OfflineTransfer(c) \/ Admit(c)
    PROVE  Control'
<1> USE DEF Go, readerVars, retireVars, drainVars, memberVars
<1>a. epoch' = epoch /\ version' = version + 1 /\ epoch \in Nat \ {0} /\ version \in Nat
  BY Zenon DEF TypeOK, OfflineBegin, OfflineTransfer, Admit
<1>b. local' = local /\ reg' = reg /\ held' = held /\ writer' = writer /\ retiring' = retiring /\ list' = list
  BY Zenon DEF OfflineBegin, OfflineTransfer, Admit
<1>c. \A d \in CPUs : d # c => pc'[d] = pc[d] /\ scan'[d] = scan[d]
  <2>1. pc' = pc \/ \E x : pc' = [pc EXCEPT ![c] = x]
    BY Zenon DEF OfflineBegin, OfflineTransfer, Admit
  <2>2. scan' = scan \/ \E x : scan' = [scan EXCEPT ![c] = x]
    BY Zenon DEF OfflineBegin, OfflineTransfer, Admit
  <2> QED
    BY <2>1, <2>2, Frame, ZenonT(30)
<1>d. \A d \in CPUs : ControlOf(d)
  BY Zenon DEF Control, ControlOf
<1>e. \A d \in CPUs : scan[d].version \in Nat /\ scan[d].current \in Nat
  BY Zenon DEF TypeOK, Scan
<1>1. CASE OfflineBegin(c)
  <2>1. PICK t \in CPUs \ {c} :
          /\ member[t] = "Online"
          /\ member' = [member EXCEPT ![t] = "Draining"]
          /\ scan' = [scan EXCEPT ![c] = [version |-> 0, current |-> 0, cpu |-> t, blocked |-> FALSE, serviced |-> FALSE]]
    BY <1>1, EpochAssumption, Zenon DEF OfflineBegin
  <2>2. /\ pc[c] = "Idle" /\ NotWriting(c) /\ member[c] = "Online" /\ pc'[c] = "Offlining"
        /\ member'[t] = "Draining" /\ \A d \in CPUs : d # t => member'[d] = member[d]
        /\ scan'[c].cpu = t
    <3>1. DOMAIN pc = CPUs /\ DOMAIN member = CPUs /\ DOMAIN scan = CPUs
      BY Zenon DEF TypeOK
    <3>2. pc[c] = "Idle" /\ NotWriting(c) /\ member[c] = "Online" /\ pc' = [pc EXCEPT ![c] = "Offlining"]
      BY <1>1, Zenon DEF OfflineBegin
    <3> QED
      BY <2>1, <3>1, <3>2, Zenon
  <2>3. bags' = bags /\ ready' = ready
    BY <1>1, Zenon DEF OfflineBegin
  <2>4. ASSUME NEW d \in CPUs
        PROVE  GuardOK(d)'
    BY <1>a, <1>b, <1>c, <1>d, <2>2, ZenonT(30) DEF ControlOf, GuardOK, Admitted
  <2>5. ASSUME NEW d \in CPUs
        PROVE  SectionOK(d)'
    BY <1>a, <1>b, <1>c, <1>d, <2>2, ZenonT(30) DEF ControlOf, SectionOK, NotWriting
  <2>6. ASSUME NEW d \in CPUs
        PROVE  PinOK(d)'
    <3>1. CASE d = c
      <4>1. PinOK(c) /\ member'[c] = "Online" /\ list'[c] = list[c] /\ scan'[c].cpu \in CPUs \ {c}
        BY <1>b, <1>d, <2>1, <2>2, Zenon DEF ControlOf
      <4> QED
        BY <2>2, <3>1, <4>1, Zenon DEF PinOK, Scanning
    <3>2. CASE d # c
      <4>1. PinOK(d) /\ pc'[d] = pc[d] /\ scan'[d] = scan[d] /\ (member'[d] = "Offline" => member[d] = "Offline")
        BY <1>c, <1>d, <2>1, <2>2, <3>2, Zenon DEF ControlOf
      <4>2. Pinned(d)' <=> Pinned(d)
        BY <1>b, <4>1, Zenon DEF Pinned, NotWriting
      <4>3. scan[d].version <= version => scan[d].version <= version'
        BY <1>a, <1>e
      <4> QED
        BY <1>a, <1>b, <2>3, <4>1, <4>2, <4>3, Zenon DEF PinOK, Scanning
    <3> QED
      BY <3>1, <3>2, SMTT(30)
  <2> QED
    BY <2>4, <2>5, <2>6, Zenon DEF Control
<1>2. CASE OfflineTransfer(c)
  <2>0. pc[c] = "Offlining" /\ pc'[c] = "Idle"
    BY <1>2, ZenonT(30) DEF OfflineTransfer, TypeOK
  <2>a. PICK t \in CPUs : t = scan[c].cpu /\ t # c
    BY <2>0, <1>d, Zenon DEF ControlOf, PinOK
  <2>b. ~Pinned(t)
    BY <1>2, <2>a, Zenon DEF OfflineTransfer
  <2>c. NotWriting(c) /\ list[c] = {}
    BY <1>d, <2>0, Zenon DEF ControlOf, PinOK, SectionOK
  <2>1. t # c /\ pc[c] = "Offlining" /\ ~Pinned(t) /\ pc'[c] = "Idle" /\ NotWriting(c) /\ list[c] = {}
    BY <2>0, <2>a, <2>b, <2>c, Zenon
  <2>2. ASSUME NEW d \in CPUs
        PROVE  GuardOK(d)'
    BY <1>a, <1>b, <1>c, <1>d, <2>1, Zenon DEF ControlOf, GuardOK, Admitted
  <2>3. ASSUME NEW d \in CPUs
        PROVE  SectionOK(d)'
    BY <1>a, <1>b, <1>c, <1>d, <2>1, ZenonT(30) DEF ControlOf, SectionOK, NotWriting
  <2>4. ~Pinned(t)'
    BY <1>b, <1>c, <2>1, Zenon DEF Pinned, NotWriting
  <2>5. member[c] # "Offline"
    BY <1>d, <2>1, Zenon DEF ControlOf, PinOK, Pinned
  <2>6. \A d \in CPUs : d # t => member'[d] = member[d]
    <3>1. \E x : member' = [member EXCEPT ![t] = x]
      BY <1>2, <2>a, Zenon DEF OfflineTransfer
    <3> QED
      BY <3>1, Frame, ZenonT(30)
  <2>7. ASSUME NEW d \in CPUs, d # t, d # c
        PROVE  bags'[d] = bags[d] /\ ready'[d] = ready[d]
    <3>1. bags' = bags \/ \E x, y : bags' = [bags EXCEPT ![c] = x, ![t] = y]
      BY <1>2, <2>a, ZenonT(30) DEF OfflineTransfer
    <3>2. ready' = ready \/ \E x, y : ready' = [ready EXCEPT ![c] = x, ![t] = y]
      BY <1>2, <2>a, ZenonT(30) DEF OfflineTransfer
    <3>3. DOMAIN bags = CPUs /\ DOMAIN ready = CPUs
      BY Zenon DEF TypeOK
    <3> QED
      BY <2>7, <3>1, <3>2, <3>3
  <2>8. member'[t] = "Offline" => ready'[t] = {} /\ \A k \in 0..2 : bags'[t][k].nodes = {}
    <3> DEFINE possible == /\ credit[t] = 0
                           /\ credit[c] + Cardinality(ready[c]) + Cardinality(ready[t]) <= Capacity
                           /\ Merges(c, t)
    <3>1. CASE possible
      <4>1. ready'[t] = {} /\ bags'[t] = [k \in 0..2 |-> EmptyBag]
        <5>1. \E x : bags' = [bags EXCEPT ![c] = x, ![t] = [k \in 0..2 |-> EmptyBag]]
          BY <1>2, <2>a, <3>1, Zenon DEF OfflineTransfer
        <5>2. \E x : ready' = [ready EXCEPT ![c] = x, ![t] = {}]
          BY <1>2, <2>a, <3>1, Zenon DEF OfflineTransfer
        <5>3. DOMAIN bags = CPUs /\ DOMAIN ready = CPUs
          BY Zenon DEF TypeOK
        <5> QED
          BY <2>a, <5>1, <5>2, <5>3, Zenon
      <4> QED
        BY <4>1 DEF EmptyBag
    <3>2. CASE ~possible
      BY <1>2, <2>a, <3>2, ZenonT(30) DEF OfflineTransfer, TypeOK
    <3> QED
      BY <3>1, <3>2, Zenon
  <2>9. ASSUME NEW d \in CPUs
        PROVE  PinOK(d)'
    <3>1. CASE d = c
      BY <1>b, <2>1, <2>5, <2>6, <3>1, Zenon DEF PinOK, Scanning
    <3>2. CASE d = t
      <4>1. PinOK(t) /\ pc'[t] = pc[t] /\ scan'[t] = scan[t] /\ pc[t] # "Offlining"
        BY <1>c, <1>d, <2>1, Zenon DEF ControlOf, Pinned
      <4>2. scan[t].version <= version => scan[t].version <= version'
        BY <1>a, <1>e
      <4> QED
        BY <1>a, <1>b, <2>4, <2>8, <3>2, <4>1, <4>2, Zenon DEF PinOK, Scanning
    <3>3. CASE d # c /\ d # t
      <4>1. PinOK(d) /\ pc'[d] = pc[d] /\ scan'[d] = scan[d] /\ member'[d] = member[d]
        BY <1>c, <1>d, <2>6, <3>3, Zenon DEF ControlOf
      <4>2. Pinned(d)' <=> Pinned(d)
        BY <1>b, <4>1, Zenon DEF Pinned, NotWriting
      <4>3. scan[d].version <= version => scan[d].version <= version'
        BY <1>a, <1>e
      <4>4. bags'[d] = bags[d] /\ ready'[d] = ready[d]
        BY <2>7, <3>3, Zenon
      <4>5. Scanning(d)' => scan'[d].current <= epoch' /\ scan'[d].version <= version'
        BY <1>a, <4>1, <4>3, Zenon DEF PinOK, Scanning
      <4>6. member'[d] = "Offline" => ~Pinned(d)' /\ ready'[d] = {} /\ \A k \in 0..2 : bags'[d][k].nodes = {}
        BY <4>1, <4>2, <4>4, Zenon DEF PinOK
      <4>7. /\ pc'[d] = "Offlining" => scan'[d].cpu \in CPUs /\ scan'[d].cpu # d
            /\ pc'[d] = "ScanBags" => scan'[d].cpu \in CPUs
            /\ list'[d] # {} => pc'[d] = "Callback"
        BY <1>b, <4>1, Zenon DEF PinOK
      <4> QED
        BY <4>5, <4>6, <4>7, Zenon DEF PinOK
    <3> QED
      BY <3>1, <3>2, <3>3, Zenon
  <2> QED
    BY <2>2, <2>3, <2>9, Zenon DEF Control
<1>3. CASE Admit(c)
  <2>1. pc' = pc /\ scan' = scan /\ member'[c] = "Online" /\ pc[c] = "Idle"
    BY <1>3, Zenon DEF Admit, TypeOK
  <2>2. \A d \in CPUs : d # c => SameCPU(d)
    BY <1>3, ZenonT(30) DEF Admit, SameCPU, TypeOK
  <2>3. GuardOK(c)' /\ SectionOK(c)'
    BY <1>a, <1>b, <1>d, <2>1, Zenon DEF ControlOf, GuardOK, SectionOK, Admitted, NotWriting
  <2>4. PinOK(c)'
    BY <1>b, <1>d, <2>1, Zenon DEF ControlOf, PinOK, Scanning
  <2> QED
    BY <1>a, <2>2, <2>3, <2>4, ControlStep DEF ControlOf
<1> QED
  BY <1>1, <1>2, <1>3, Zenon

-----------------------------------------------------------------------------
(* Types and control together are inductive.                               *)

ControlInv == TypeOK /\ Control

\* The control invariant holds when the boot CPU has initialized the domain.
LEMMA InitControl == Init => ControlInv
<1> SUFFICES ASSUME Init PROVE ControlInv
  OBVIOUS
<1>1. TypeOK
  <2>1. [k \in 0..2 |-> EmptyBag] \in [0..2 -> Bag] /\ NoWriter \in Section
    BY Zenon DEF Bag, EmptyBag, Section, NoWriter
  <2>2. bags \in [CPUs -> [0..2 -> Bag]] /\ scan \in [CPUs -> Scan] /\ writer \in [CPUs -> Section]
    BY <2>1, NoScanIs, Zenon DEF Init
  <2>3. retiring \in [CPUs -> BOOLEAN] /\ request \in [CPUs -> BOOLEAN]
    BY Zenon DEF Init
  <2> QED
    BY <2>2, <2>3, EpochAssumption DEF Init, TypeOK, Location
<1>2. \A c \in CPUs : /\ local[c] = 0 /\ pc[c] = "Idle" /\ held[c] = {} /\ ready[c] = {} /\ list[c] = {}
                      /\ writer[c] = NoWriter /\ retiring[c] = FALSE /\ bags[c] = [k \in 0..2 |-> EmptyBag]
  BY Zenon DEF Init
<1>3. epoch = 1
  BY Zenon DEF Init
<1>4. Control
  <2>1. \A c \in CPUs : GuardOK(c)
    <3>1. 0 <= 1
      OBVIOUS
    <3> QED
      BY <1>2, <1>3, <3>1, Zenon DEF GuardOK, Admitted
  <2>2. \A c \in CPUs : PinOK(c)
    BY <1>2 DEF PinOK, Pinned, NotWriting, NoWriter, EmptyBag, Scanning
  <2>3. \A c \in CPUs : SectionOK(c)
    BY <1>2 DEF SectionOK, NotWriting, NoWriter
  <2> QED
    BY <2>1, <2>2, <2>3, Zenon DEF Control
<1> QED
  BY <1>1, <1>4 DEF ControlInv

\* Every step keeps types and control.
LEMMA NextControl == ControlInv /\ [Next]_vars => ControlInv'
<1> SUFFICES ASSUME ControlInv, [Next]_vars PROVE ControlInv'
  OBVIOUS
<1>a. TypeOK /\ Control
  BY Zenon DEF ControlInv
<1>1. CASE Next
  <2>1. PICK c \in CPUs :
            \/ Reader(c) \/ Reserve(c) \/ CancelReservation(c) \/ BeginRetire(c) \/ Writer(c) \/ Drain(c)
            \/ OfflineBegin(c) \/ OfflineTransfer(c) \/ Admit(c)
    BY <1>1, Zenon DEF Next
  <2>2. CASE Reader(c) \/ Reserve(c) \/ CancelReservation(c)
    BY <1>a, <2>2, TypeReader, ControlReader, Zenon DEF ControlInv
  <2>3. CASE BeginRetire(c) \/ Writer(c)
    BY <1>a, <2>3, TypeWriter, ControlWriter, Zenon DEF ControlInv
  <2>4. CASE Drain(c)
    BY <1>a, <2>4, TypeDrain, ControlDrain, Zenon DEF ControlInv
  <2>5. CASE OfflineBegin(c) \/ OfflineTransfer(c) \/ Admit(c)
    BY <1>a, <2>5, TypeMember, ControlMember, Zenon DEF ControlInv
  <2> QED
    BY <2>1, <2>2, <2>3, <2>4, <2>5, Zenon
<1>2. CASE UNCHANGED vars
  <2> USE <1>2 DEF vars, memberVars, readerVars, retireVars, drainVars
  <2>1. TypeOK'
    BY <1>a, Zenon DEF TypeOK
  <2>2. \A c \in CPUs : SameCPU(c)
    BY Zenon DEF SameCPU
  <2>3. epoch <= epoch' /\ version <= version'
    BY <1>a DEF TypeOK
  <2>4. Control'
    BY <1>a, <2>1, <2>2, <2>3, SameControl, Zenon DEF Control, ControlOf
  <2> QED
    BY <2>1, <2>4, Zenon DEF ControlInv
<1> QED
  BY <1>1, <1>2

\* Types and control of the epoch domain hold in every behaviour, for any number
\* of CPUs and nodes: a CPU that went offline is unpinned and has no retired node
\* left (offline_cpu), only an admitted guard holds nodes, and every retire section
\* runs under its flag.
THEOREM ControlHolds == Spec => []ControlInv
  BY InitControl, NextControl, PTL DEF Spec
=============================================================================
