------------------------- MODULE EpochReclaimProofs -------------------------
(***************************************************************************)
(* Proof of the promise of the guards of Epoch, for any number of CPUs and *)
(* nodes: what a reader holds was, if it is retired at all, not retired    *)
(* before the epoch the reader published (HeldSafe).  With Grace of        *)
(* EpochProofs and Places of EpochPlaces a node that is old enough to be   *)
(* detached is held by nobody.                                             *)
(***************************************************************************)
EXTENDS EpochPlaces

\* What a reader that published epoch e and holds n relies on at CPU d: n is
\* neither detached nor deferred, and if it is retired, then not before e.
Safe(n, d, e) ==
    /\ n \notin writer[d].fresh /\ n \notin list[d] /\ n \notin deferred[d]
    /\ writer[d].at = "Sampled" /\ n \in writer[d].nodes => e <= writer[d].epoch
    /\ \A k \in 0..2 : n \in bags[d][k].nodes => e <= bags[d][k].tag
    /\ \A r \in ready[d] : r.node = n => e <= r.epoch

\* It holds for everything that is held.
HeldSafe ==
    \A c \in CPUs : \A n \in held[c] : n \notin free /\ \A d \in CPUs : Safe(n, d, local[c])

\* What a reader relies on at a CPU the step leaves alone.
LEMMA SafeSame ==
    ASSUME NEW n, NEW e, NEW d, Safe(n, d, e),
           writer'[d] = writer[d], ready'[d] = ready[d], bags'[d] = bags[d],
           list'[d] = list[d], deferred'[d] = deferred[d]
    PROVE  Safe(n, d, e)'
  BY ZenonT(30) DEF Safe

\* A reader gets hold of the root only, which is nowhere else.
LEMMA HeldRead ==
    ASSUME Inv, Places, HeldSafe, NEW c \in CPUs, Reader(c) \/ Reserve(c) \/ CancelReservation(c)
    PROVE  HeldSafe'
<1> USE DEF Go, readerVars, retireVars, drainVars, memberVars
<1>a. TypeOK /\ GuardOK(c)
  BY Zenon DEF Inv, Control
<1>b. UNCHANGED <<writer, root, free, bags, ready, list, deferred>>
  BY Zenon DEF Reader, GuardLoad, GuardEnter, GuardValidate, GuardRepublish, Read, GuardDrop, Reserve, CancelReservation
<1>c. \A n, e : \A d \in CPUs : Safe(n, d, e) => Safe(n, d, e)'
  BY <1>b, SafeSame, ZenonT(30)
<1>d. \A d \in CPUs : d # c => local'[d] = local[d] /\ held'[d] = held[d]
  BY <1>a, ZenonT(30) DEF TypeOK, Reader, GuardLoad, GuardEnter, GuardValidate, GuardRepublish, Read, GuardDrop, Reserve, CancelReservation
<1>1. CASE held'[c] = {} \/ (held'[c] = held[c] /\ local'[c] = local[c])
  BY <1>b, <1>c, <1>d, <1>1, Zenon DEF HeldSafe
<1>2. CASE Read(c)
  <2>1. held'[c] = held[c] \cup {root} /\ local' = local
    BY <1>2, <1>a DEF Read, TypeOK
  <2>2. PICK n \in Nodes : n = root
    BY <1>a DEF TypeOK
  <2>3. Apart(n, 0, 0)
    <3>1. In(0, 0, n)
      BY <2>2, Zenon DEF In
    <3> QED
      BY <3>1, ApartIs, ZeroIs
  <2>4. n \notin free /\ \A d \in CPUs : Safe(n, d, local[c])
    <3>1. n \notin free
      BY <2>3, SMTT(30) DEF Apart
    <3>2. ASSUME NEW d \in CPUs
          PROVE  Safe(n, d, local[c])
      <4>1. /\ n \notin writer[d].fresh /\ n \notin writer[d].nodes
            /\ n \notin list[d] /\ n \notin deferred[d] /\ ~HasRecord(d, n)
        BY <2>3, SMTT(30) DEF Apart
      <4>2. \A k \in 0..2 : n \notin bags[d][k].nodes
        <5>1. n \notin bags[d][0].nodes /\ n \notin bags[d][1].nodes /\ n \notin bags[d][2].nodes
          BY <2>3 DEF Apart
        <5>2. \A k \in 0..2 : k = 0 \/ k = 1 \/ k = 2
          OBVIOUS
        <5> QED
          BY <5>1, <5>2, Zenon
      <4> QED
        BY <4>1, <4>2, ZenonT(30) DEF Safe, HasRecord
    <3> QED
      BY <3>1, <3>2, ZenonT(30)
  <2> QED
    BY <1>b, <1>c, <1>d, <2>1, <2>2, <2>4, Zenon DEF HeldSafe
<1>3. CASE GuardEnter(c) \/ GuardRepublish(c)
  <2>1. held' = held /\ pc[c] \in {"Enter", "Republish"}
    BY <1>3, Zenon DEF GuardEnter, GuardRepublish
  <2>2. held[c] = {}
    BY <1>a, <2>1, Zenon DEF GuardOK, Admitted
  <2> QED
    BY <1>1, <2>1, <2>2
<1>4. CASE GuardDrop(c)
  BY <1>1, <1>4, <1>a DEF GuardDrop, TypeOK
<1>5. CASE GuardLoad(c) \/ GuardValidate(c) \/ Reserve(c) \/ CancelReservation(c)
  BY <1>1, <1>5, Zenon DEF GuardLoad, GuardValidate, Reserve, CancelReservation
<1> QED
  BY <1>2, <1>3, <1>4, <1>5, Zenon DEF Reader

\* A step that leaves the readers alone has to keep a node safe for every epoch
\* the reader can have: the current one or the one before.
LEMMA HeldStep ==
    ASSUME TypeOK, Control, Grace, HeldSafe, held' = held, local' = local,
           \A n : \A e \in Nat :
                  e <= epoch /\ epoch <= e + 1 /\ n \notin free /\ (\A d \in CPUs : Safe(n, d, e))
                  => n \notin free' /\ \A d \in CPUs : Safe(n, d, e)'
    PROVE  HeldSafe'
<1> SUFFICES ASSUME NEW b \in CPUs, NEW n \in held[b]
             PROVE  n \notin free' /\ \A d \in CPUs : Safe(n, d, local[b])'
  BY Zenon DEF HeldSafe
<1>1. PICK e \in Nat : e = local[b]
  BY Zenon DEF TypeOK
<1>2. e <= epoch /\ epoch <= e + 1
  BY <1>1 DEF Control, GuardOK, Grace, Behind
<1>3. n \notin free /\ \A d \in CPUs : Safe(n, d, e)
  BY <1>1, Zenon DEF HeldSafe
<1>4. n \notin free' /\ \A d \in CPUs : Safe(n, d, e)'
  BY <1>2, <1>3
<1> QED
  BY <1>1, <1>4, Zenon DEF Safe

\* A retire section tags a node with an epoch that no reader is ahead of.
LEMMA HeldWriter ==
    ASSUME Inv, Places, HeldSafe, NEW c \in CPUs, BeginRetire(c) \/ Writer(c)
    PROVE  HeldSafe'
<1> USE DEF Go, readerVars, retireVars, drainVars, memberVars
<1>a. TypeOK /\ Control /\ Grace /\ Room /\ SectionOK(c)
  BY Zenon DEF Inv, Control
<1>b. UNCHANGED <<held, local, list, deferred>>
  BY ZenonT(30) DEF Writer, BeginRetire, Preflight, Unlink, Sample, Enqueue
<1>c. \A d \in CPUs : d # c => writer'[d] = writer[d] /\ ready'[d] = ready[d] /\ bags'[d] = bags[d]
  BY <1>a, WriterElsewhere, Zenon DEF SameCPU
<1> SUFFICES ASSUME NEW n, NEW e \in Nat, e <= epoch, n \notin free, \A d \in CPUs : Safe(n, d, e)
             PROVE  n \notin free' /\ Safe(n, c, e)'
  <2>1. \A n, e : \A d \in CPUs : d # c /\ Safe(n, d, e) => Safe(n, d, e)'
    BY <1>b, <1>c, SafeSame, Zenon
  <2> QED
    BY <1>a, <1>b, <2>1, HeldStep, Zenon
<1>d. Safe(n, c, e)
  OBVIOUS
<1>1. CASE BeginRetire(c)
  <2>1. PICK m \in free, path \in Paths[root] :
             /\ writer' = [writer EXCEPT ![c] = [at |-> "Begun", path |-> path, prep |-> 0,
                                                  epoch |-> 0, nodes |-> {}, fresh |-> {m}]]
             /\ free' = free \ {m}
    BY <1>1, Zenon DEF BeginRetire
  <2>2. writer'[c].fresh = {m} /\ writer'[c].nodes = {} /\ n # m /\ n \notin free'
    BY <1>a, <2>1, Zenon DEF TypeOK
  <2>3. bags' = bags /\ ready' = ready
    BY <1>1, Zenon DEF BeginRetire
  <2> QED
    BY <1>b, <1>d, <2>2, <2>3, Zenon DEF Safe
<1>2. CASE Preflight(c)
  <2>1. ready' = ready
    BY <1>2, Zenon DEF Preflight
  <2>2. CASE \A f \in {epoch, epoch + 1} : Fits(bags[c][Slot(f)], f)
    <3>1. /\ writer'[c].nodes = {} /\ writer'[c].fresh = writer[c].fresh
          /\ free' = free
          /\ bags'[c] = [k \in 0..2 |->
                  [tag |-> IF k = Slot(epoch) THEN epoch
                           ELSE IF k = Slot(epoch + 1) THEN epoch + 1 ELSE bags[c][k].tag,
                   nodes |-> bags[c][k].nodes]]
      BY <1>2, <1>a, <2>2 DEF Preflight, TypeOK
    <3>2. ASSUME NEW k \in 0..2, n \in bags'[c][k].nodes
          PROVE  e <= bags'[c][k].tag
      <4>1. n \in bags[c][k].nodes
        BY <3>1, <3>2
      <4>2. e <= bags[c][k].tag
        BY <1>d, <4>1, Zenon DEF Safe
      <4>3. CASE k = Slot(epoch)
        BY <3>1, <4>3
      <4>4. CASE k = Slot(epoch + 1) /\ k # Slot(epoch)
        <5>1. bags'[c][k].tag = epoch + 1 /\ epoch \in Nat
          BY <1>a, <3>1, <4>4, SMTT(30) DEF TypeOK
        <5> QED
          BY <5>1, SMTT(30)
      <4>5. CASE k # Slot(epoch + 1) /\ k # Slot(epoch)
        BY <3>1, <4>2, <4>5
      <4> QED
        BY <4>3, <4>4, <4>5, Zenon
    <3> QED
      BY <1>b, <1>d, <2>1, <3>1, <3>2, ZenonT(30) DEF Safe
  <2>3. CASE ~ \A f \in {epoch, epoch + 1} : Fits(bags[c][Slot(f)], f)
    <3>1. bags' = bags /\ writer'[c] = NoWriter /\ free' = free \cup writer[c].fresh
      BY <1>2, <1>a, <2>3, ZenonT(30) DEF Preflight, TypeOK
    <3>2. writer'[c].nodes = {} /\ writer'[c].fresh = {}
      BY <3>1 DEF NoWriter
    <3>3. n \notin free'
      BY <1>d, <3>1, Zenon DEF Safe
    <3> QED
      BY <1>b, <1>d, <2>1, <3>1, <3>2, <3>3, Zenon DEF Safe
  <2> QED
    BY <2>2, <2>3
<1>3. CASE Unlink(c)
  <2>1. bags' = bags /\ ready' = ready /\ free' = free
    BY <1>3, Zenon DEF Unlink
  <2>2. writer'[c].at = "Unlinked" /\ writer'[c].fresh = {}
    BY <1>3, <1>a, Zenon DEF Unlink, TypeOK
  <2> QED
    BY <1>b, <1>d, <2>1, <2>2, Zenon DEF Safe
<1>4. CASE Sample(c)
  <2>1. /\ bags' = bags /\ ready' = ready /\ free' = free
        /\ writer'[c].epoch = epoch /\ writer'[c].fresh = {}
    BY <1>4, <1>a, ZenonT(30) DEF Sample, TypeOK
  <2> QED
    BY <1>b, <1>d, <2>1, Zenon DEF Safe
<1>5. CASE Enqueue(c)
  <2>1. writer[c].at = "Sampled" /\ writer'[c] = NoWriter /\ free' = free
    BY <1>5, <1>a, Zenon DEF Enqueue, TypeOK
  <2>2. writer'[c].nodes = {} /\ writer'[c].fresh = {}
    BY <2>1 DEF NoWriter
  <2>3. PICK f \in Nat : f = writer[c].epoch
    BY <1>a, Zenon DEF TypeOK, Section
  <2>4. n \in writer[c].nodes => e <= f
    BY <1>d, <2>1, <2>3, Zenon DEF Safe
  <2>5. CASE writer[c].path = "Reserved"
    <3>1. bags' = bags /\ ready'[c] = ready[c] \cup {[node |-> m, epoch |-> f] : m \in writer[c].nodes}
      <4>1. bags' = bags
        BY <1>5, <2>5, Zenon DEF Enqueue
      <4>2. ready' = [ready EXCEPT ![c] = @ \cup {[node |-> m, epoch |-> writer[c].epoch] : m \in writer[c].nodes}]
        BY <1>5, <2>5, Zenon DEF Enqueue
      <4>3. DOMAIN ready = CPUs
        BY <1>a, Zenon DEF TypeOK
      <4> QED
        BY <2>3, <4>1, <4>2, <4>3
    <3>2. ASSUME NEW r \in ready'[c], r.node = n
          PROVE  e <= r.epoch
      <4>1. CASE r \in ready[c]
        BY <1>d, <3>2, <4>1, Zenon DEF Safe
      <4>2. CASE \E m \in writer[c].nodes : r = [node |-> m, epoch |-> f]
        BY <2>4, <3>2, <4>2
      <4> QED
        BY <3>1, <4>1, <4>2, Zenon
    <3> QED
      BY <1>b, <1>d, <2>1, <2>2, <3>1, <3>2, Zenon DEF Safe
  <2>6. CASE writer[c].path # "Reserved"
    <3>0. ready' = ready
      BY <1>5, <2>6, Zenon DEF Enqueue
    <3>1. PICK k \in 0..2 : k = Slot(f)
      BY SlotIs, Zenon
    <3>2. PICK tag : /\ bags' = [bags EXCEPT ![c][k] = [tag |-> tag, nodes |-> bags[c][k].nodes \cup writer[c].nodes]]
                     /\ tag = IF writer[c].path = "Head" THEN f ELSE bags[c][k].tag
      BY <1>5, <2>3, <2>6, <3>1, Zenon DEF Enqueue
    <3>3. /\ Fits(bags[c][k], f)
          /\ writer[c].path = "Prepared" => bags[c][k].tag = f
      BY <1>a, <2>1, <2>3, <3>1, SampledBag, Zenon
    <3>4. writer[c].path \in {"Head", "Prepared"}
      <4>1. writer[c].path \in {"None", "Head", "Prepared", "Reserved"}
        BY <1>a, Zenon DEF TypeOK, Section
      <4>2. writer[c].path # "None"
        BY <1>a, <2>1, Zenon DEF SectionOK, NotWriting
      <4> QED
        BY <2>6, <4>1, <4>2, Zenon
    <3>5. /\ bags'[c][k].tag = tag /\ bags'[c][k].nodes = bags[c][k].nodes \cup writer[c].nodes
          /\ \A j \in 0..2 : j # k => bags'[c][j] = bags[c][j]
      BY <1>a, <3>2, ZenonT(30) DEF TypeOK
    <3>6. tag = f
      BY <3>2, <3>3, <3>4, Zenon
    <3>7. n \in bags[c][k].nodes => e <= tag
      BY <1>d, <3>3, <3>6, Zenon DEF Safe, Fits
    <3>8. \A j \in 0..2 : n \in bags'[c][j].nodes => e <= bags'[c][j].tag
      BY <1>d, <2>4, <3>5, <3>6, <3>7, ZenonT(30) DEF Safe
    <3> QED
      BY <1>b, <1>d, <2>1, <2>2, <3>0, <3>8, Zenon DEF Safe
  <2> QED
    BY <2>5, <2>6, Zenon
<1> QED
  BY <1>1, <1>2, <1>3, <1>4, <1>5 DEF Writer

\* Only nodes retired two epochs ago are detached, and no reader is that old.
LEMMA HeldDrain ==
    ASSUME Inv, Places, HeldSafe, NEW c \in CPUs, Drain(c)
    PROVE  HeldSafe'
<1> USE DEF Go, readerVars, retireVars, drainVars, memberVars
<1>a. TypeOK /\ Control /\ Grace
  BY Zenon DEF Inv
<1>b. UNCHANGED <<held, local, writer>>
  BY ZenonT(30) DEF Drain, StartDrain, DropDeferred, ScanLocal, ScanBags, CommitAdvance, Detach, Callback, EndDrain
<1>c. \A d \in CPUs : d # c =>
        /\ ready'[d] = ready[d] /\ bags'[d] = bags[d]
        /\ list'[d] = list[d] /\ deferred'[d] = deferred[d]
  <2>1. CASE DropDeferred(c)
    BY <1>a, <2>1, Zenon DEF TypeOK, DropDeferred
  <2>2. CASE Detach(c)
    BY <1>a, <2>2, ZenonT(30) DEF TypeOK, Detach
  <2>3. CASE Callback(c)
    BY <1>a, <2>3, ZenonT(30) DEF TypeOK, Callback
  <2>4. CASE StartDrain(c) \/ ScanLocal(c) \/ ScanBags(c) \/ CommitAdvance(c) \/ EndDrain(c)
    BY <2>4, Zenon DEF StartDrain, ScanLocal, ScanBags, CommitAdvance, EndDrain
  <2> QED
    BY <2>1, <2>2, <2>3, <2>4, Zenon DEF Drain
<1> SUFFICES ASSUME NEW n, NEW e \in Nat, e <= epoch, epoch <= e + 1, n \notin free, \A d \in CPUs : Safe(n, d, e)
             PROVE  n \notin free' /\ Safe(n, c, e)'
  <2>1. \A n, e : \A d \in CPUs : d # c /\ Safe(n, d, e) => Safe(n, d, e)'
    BY <1>b, <1>c, SafeSame, Zenon
  <2> QED
    BY <1>a, <1>b, <2>1, HeldStep, Zenon
<1>d. Safe(n, c, e)
  OBVIOUS
<1>1. CASE StartDrain(c) \/ ScanLocal(c) \/ ScanBags(c) \/ CommitAdvance(c) \/ EndDrain(c)
  <2>1. UNCHANGED <<free, bags, ready, list, deferred>>
    BY <1>1, Zenon DEF StartDrain, ScanLocal, ScanBags, CommitAdvance, EndDrain
  <2> QED
    BY <1>b, <1>d, <2>1, SafeSame, Zenon
<1>2. CASE DropDeferred(c)
  <2>1. PICK gone \in SUBSET deferred[c] :
            deferred' = [deferred EXCEPT ![c] = @ \ gone] /\ free' = free \cup gone
    BY <1>2, Zenon DEF DropDeferred
  <2>2. bags' = bags /\ ready' = ready /\ list' = list
    BY <1>2, Zenon DEF DropDeferred
  <2>3. deferred'[c] = deferred[c] \ gone
    BY <1>a, <2>1, Zenon DEF TypeOK
  <2>4. n \notin free' /\ n \notin deferred'[c]
    BY <1>d, <2>1, <2>3, Zenon DEF Safe
  <2> QED
    BY <1>b, <1>d, <2>2, <2>4, Zenon DEF Safe
<1>3. CASE Detach(c)
  <2>0. free' = free /\ deferred' = deferred
    BY <1>3, Zenon DEF Detach
  <2>1. CASE member[c] # "Online"
    <3>1. UNCHANGED <<bags, ready, list>>
      BY <1>3, <2>1, Zenon DEF Detach
    <3> QED
      BY <1>b, <1>d, <2>0, <3>1, SafeSame, Zenon
  <2>2. CASE member[c] = "Online"
    <3>1. PICK gone, used :
              /\ gone \subseteq UNION {bags[c][k].nodes : k \in {k \in 0..2 : OldEnough(bags[c][k].tag)}}
              /\ used \subseteq {r \in ready[c] : OldEnough(r.epoch)}
              /\ bags' = [bags EXCEPT ![c] = [k \in 0..2 |->
                    IF bags[c][k].nodes # {} /\ bags[c][k].nodes \subseteq gone THEN EmptyBag
                    ELSE [tag |-> bags[c][k].tag, nodes |-> bags[c][k].nodes \ gone]]]
              /\ ready' = [ready EXCEPT ![c] = @ \ used]
              /\ list' = [list EXCEPT ![c] = gone \cup {r.node : r \in used}]
      BY <1>3, <2>2, Zenon DEF Detach
    <3>2. ready'[c] = ready[c] \ used /\ list'[c] = gone \cup {r.node : r \in used}
      BY <1>a, <3>1, Zenon DEF TypeOK
    <3>3. \A k \in 0..2 : n \in bags'[c][k].nodes => n \in bags[c][k].nodes /\ bags'[c][k].tag = bags[c][k].tag
      BY <1>a, <3>1, Zenon DEF TypeOK, EmptyBag
    <3>4. n \notin gone
      <4> SUFFICES ASSUME n \in gone PROVE FALSE
        OBVIOUS
      <4>1. PICK k \in 0..2 : OldEnough(bags[c][k].tag) /\ n \in bags[c][k].nodes
        BY <3>1, Zenon
      <4>2. e <= bags[c][k].tag /\ epoch >= bags[c][k].tag + 2
        BY <1>d, <4>1, Zenon DEF Safe, OldEnough
      <4>3. bags[c][k].tag \in Nat /\ epoch \in Nat
        BY <1>a DEF TypeOK, Bag
      <4> QED
        BY <4>2, <4>3
    <3>5. ASSUME NEW r \in used, r.node = n
          PROVE  FALSE
      <4>1. r \in ready[c] /\ OldEnough(r.epoch)
        BY <3>1, Zenon
      <4>2. e <= r.epoch /\ epoch >= r.epoch + 2
        BY <1>d, <3>5, <4>1, Zenon DEF Safe, OldEnough
      <4>3. r.epoch \in Nat /\ epoch \in Nat
        BY <1>a, <4>1 DEF TypeOK, Record
      <4> QED
        BY <4>2, <4>3
    <3>6. n \notin list'[c]
      BY <3>2, <3>4, <3>5, Zenon
    <3> QED
      BY <1>b, <1>d, <2>0, <3>2, <3>3, <3>6, Zenon DEF Safe
  <2> QED
    BY <2>1, <2>2
<1>4. CASE Callback(c)
  <2>1. PICK m \in list[c] :
            /\ list' = [list EXCEPT ![c] = @ \ {m}]
            /\ deferred' = [deferred EXCEPT ![c] = IF m \in Deferring THEN @ \cup {m} ELSE @]
            /\ free' = IF m \in Deferring THEN free ELSE free \cup {m}
    BY <1>4, Zenon DEF Callback
  <2>2. bags' = bags /\ ready' = ready
    BY <1>4, Zenon DEF Callback
  <2>3. /\ list'[c] = list[c] \ {m}
        /\ deferred'[c] = IF m \in Deferring THEN deferred[c] \cup {m} ELSE deferred[c]
    BY <1>a, <2>1, Zenon DEF TypeOK
  <2>4. n # m
    BY <1>d, <2>1, Zenon DEF Safe
  <2>5. n \notin free' /\ n \notin list'[c] /\ n \notin deferred'[c]
    BY <1>d, <2>1, <2>3, <2>4 DEF Safe
  <2> QED
    BY <1>b, <1>d, <2>2, <2>5, Zenon DEF Safe
<1> QED
  BY <1>1, <1>2, <1>3, <1>4, Zenon DEF Drain

\* Merging bags of different epochs is refused, so no node gets an older tag.
LEMMA HeldMember ==
    ASSUME Inv, Places, HeldSafe, NEW c \in CPUs, OfflineBegin(c) \/ OfflineTransfer(c) \/ Admit(c)
    PROVE  HeldSafe'
<1> USE DEF Go, readerVars, retireVars, drainVars, memberVars
<1>a. TypeOK /\ Control /\ Grace /\ PinOK(c)
  BY Zenon DEF Inv, Control
<1>b. UNCHANGED <<held, local, writer, free, list>>
  BY Zenon DEF OfflineBegin, OfflineTransfer, Admit
<1> SUFFICES ASSUME NEW n, NEW e \in Nat, n \notin free, \A d \in CPUs : Safe(n, d, e)
             PROVE  \A d \in CPUs : Safe(n, d, e)'
  BY <1>a, <1>b, HeldStep, Zenon
<1>1. CASE OfflineBegin(c)
  <2>1. UNCHANGED <<bags, ready, deferred>>
    BY <1>1, Zenon DEF OfflineBegin
  <2> QED
    BY <1>b, <2>1, SafeSame, Zenon
<1>2. CASE Admit(c)
  <2>1. deferred' = deferred
    BY <1>2, Zenon DEF Admit
  <2>2. \A d \in CPUs : d # c => ready'[d] = ready[d] /\ bags'[d] = bags[d]
    BY <1>2, <1>a, Zenon DEF Admit, TypeOK
  <2>3. ready'[c] = {} /\ \A k \in 0..2 : bags'[c][k].nodes = {}
    BY <1>2, <1>a, Zenon DEF Admit, TypeOK, EmptyBag
  <2>4. Safe(n, c, e)'
    BY <1>b, <2>1, <2>3, Zenon DEF Safe
  <2> QED
    BY <1>b, <2>1, <2>2, <2>4, SafeSame, Zenon
<1>3. CASE OfflineTransfer(c)
  <2>1. PICK t \in CPUs : t = scan[c].cpu /\ t # c
    BY <1>3, <1>a, Zenon DEF OfflineTransfer, PinOK
  <2>2. CASE UNCHANGED <<bags, ready, deferred>>
    BY <1>b, <2>2, SafeSame, Zenon
  <2>3. CASE ~ UNCHANGED <<bags, ready, deferred>>
    <3>1. /\ bags' = [bags EXCEPT ![c] = [k \in 0..2 |-> MergedBag(bags[c][k], bags[t][k])],
                                  ![t] = [k \in 0..2 |-> EmptyBag]]
          /\ ready' = [ready EXCEPT ![c] = @ \cup ready[t], ![t] = {}]
          /\ deferred' = [deferred EXCEPT ![c] = @ \cup deferred[t], ![t] = {}]
          /\ Merges(c, t)
      BY <1>3, <2>1, <2>3, ZenonT(30) DEF OfflineTransfer
    <3>2. ready'[c] = ready[c] \cup ready[t] /\ ready'[t] = {}
      BY <1>a, <2>1, <3>1, Zenon DEF TypeOK
    <3>3. deferred'[c] = deferred[c] \cup deferred[t] /\ deferred'[t] = {}
      BY <1>a, <2>1, <3>1, Zenon DEF TypeOK
    <3>4. \A k \in 0..2 : bags'[c][k] = MergedBag(bags[c][k], bags[t][k]) /\ bags'[t][k] = EmptyBag
      BY <1>a, <2>1, <3>1, Zenon DEF TypeOK
    <3>5. \A d \in CPUs : d # c /\ d # t => ready'[d] = ready[d] /\ deferred'[d] = deferred[d] /\ bags'[d] = bags[d]
      BY <1>a, <3>1, ZenonT(30) DEF TypeOK
    <3>6. Safe(n, c, e) /\ Safe(n, t, e)
      BY SMTT(30)
    <3>7. Safe(n, t, e)'
      BY <1>b, <3>2, <3>3, <3>4, <3>6 DEF Safe, EmptyBag
    <3>8. Safe(n, c, e)'
      <4>1. ASSUME NEW k \in 0..2, n \in bags'[c][k].nodes
            PROVE  e <= bags'[c][k].tag
        <5>1. CASE bags[t][k].nodes = {}
          BY <3>4, <3>6, <4>1, <5>1, ZenonT(30) DEF Safe, MergedBag
        <5>2. CASE bags[t][k].nodes # {}
          <6>1. bags'[c][k].tag = bags[t][k].tag /\ bags'[c][k].nodes = bags[c][k].nodes \cup bags[t][k].nodes
            BY <3>4, <5>2 DEF MergedBag
          <6>2. bags[c][k].nodes = {} \/ bags[c][k].tag = bags[t][k].tag
            BY <3>1, <5>2, Zenon DEF Merges, Fits
          <6> QED
            BY <3>6, <4>1, <6>1, <6>2, Zenon DEF Safe
        <5> QED
          BY <5>1, <5>2, ZenonT(30)
      <4>2. \A r \in ready'[c] : r.node = n => e <= r.epoch
        BY <3>2, <3>6, Zenon DEF Safe
      <4>3. n \notin deferred'[c]
        BY <3>3, <3>6, Zenon DEF Safe
      <4> QED
        BY <1>b, <3>6, <4>1, <4>2, <4>3, Zenon DEF Safe
    <3> QED
      BY <1>b, <3>5, <3>7, <3>8, SafeSame, Zenon
  <2> QED
    BY <2>2, <2>3, SMTT(30)
<1> QED
  BY <1>1, <1>2, <1>3, Zenon

\* At first nothing is held.
LEMMA InitHeld == Init => HeldSafe
  BY DEF Init, HeldSafe

\* Every step keeps what readers rely on.
LEMMA NextHeld == Inv /\ Places /\ HeldSafe /\ [Next]_vars => HeldSafe'
<1> SUFFICES ASSUME Inv, Places, HeldSafe, [Next]_vars PROVE HeldSafe'
  OBVIOUS
<1>1. CASE Next
  <2>1. PICK c \in CPUs :
            \/ Reader(c) \/ Reserve(c) \/ CancelReservation(c) \/ BeginRetire(c) \/ Writer(c) \/ Drain(c)
            \/ OfflineBegin(c) \/ OfflineTransfer(c) \/ Admit(c)
    BY <1>1, Zenon DEF Next
  <2>2. CASE Reader(c) \/ Reserve(c) \/ CancelReservation(c)
    BY <2>2, HeldRead, Zenon
  <2>3. CASE BeginRetire(c) \/ Writer(c)
    BY <2>3, HeldWriter, Zenon
  <2>4. CASE Drain(c)
    BY <2>4, HeldDrain, Zenon
  <2>5. CASE OfflineBegin(c) \/ OfflineTransfer(c) \/ Admit(c)
    BY <2>5, HeldMember, Zenon
  <2> QED
    BY <2>1, <2>2, <2>3, <2>4, <2>5, Zenon
<1>2. CASE UNCHANGED vars
  <2>1. UNCHANGED <<writer, free, bags, ready, list, deferred, held, local>>
    BY <1>2, Zenon DEF vars, readerVars, retireVars, drainVars, memberVars
  <2> QED
    BY <2>1, SafeSame, Zenon DEF HeldSafe
<1> QED
  BY <1>1, <1>2, Zenon

\* What readers rely on holds in every behaviour.
LEMMA HeldHolds == Spec => []HeldSafe
  BY InitHeld, NextHeld, InvHolds, PlacesHolds, PTL DEF Spec

\* The promise of the guard, for any number of CPUs, nodes and epochs: what a
\* guarded reader reached is not destroyed before the guard is dropped
\* (EpochGuard, try_advance_epoch_with, reclaim_reclaimable_bags and _reserved).
THEOREM ReadersNeverSeeFreed == Spec => []NoUseAfterFree
<1>1. HeldSafe => NoUseAfterFree
  BY Zenon DEF HeldSafe, NoUseAfterFree
<1> QED
  BY <1>1, HeldHolds, PTL
=============================================================================
