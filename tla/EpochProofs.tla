---------------------------- MODULE EpochProofs -----------------------------
(***************************************************************************)
(* Proofs about Epoch, for any number of CPUs and nodes: how far the epoch *)
(* may run ahead of a reader or a retire section, and that the bag of an   *)
(* epoch has room for it.  The inductive invariant Inv adds to types and   *)
(* control what an unfinished scan knows about the CPUs it passed (Grace)  *)
(* and about their bags (Room).                                            *)
(***************************************************************************)
EXTENDS EpochControl

\* The scan of CPU s has found nothing at CPU k, as far as it looked.
Passed(s, k) == k < scan[s].cpu \/ (k = scan[s].cpu /\ pc[s] = "ScanBags")

\* The scan of CPU s may still end in an advance.
Trusts(s) == Scanning(s) /\ scan[s].blocked = FALSE /\ scan[s].current = epoch

\* CPU k does not lag behind the epoch ...
AtEpoch(k) ==
    /\ Admitted(k) => local[k] = epoch
    /\ writer[k].prep # 0 => writer[k].prep = epoch
    /\ writer[k].at = "Sampled" => writer[k].epoch = epoch

\* ... and lags at most one behind it.
Behind(k) ==
    /\ Admitted(k) => epoch <= local[k] + 1
    /\ writer[k].prep # 0 => epoch <= writer[k].prep + 1
    /\ writer[k].at = "Sampled" => epoch <= writer[k].epoch + 1

\* What the scan is for: the epoch advances only when every CPU the scan passed
\* is at the epoch, so nobody ever lags two epochs behind.
Grace ==
    /\ \A k \in CPUs : Behind(k)
    /\ \A s, k \in CPUs : Trusts(s) /\ Passed(s, k) => AtEpoch(k)

\* The bag of epoch e can take nodes of epoch e.
Roomy(k, e) == Fits(bags[k][Slot(e)], e)

\* A CPU can retire into the bag of the epoch, of the epoch it sampled, and of
\* the two epochs it preflighted.
RoomOf(k) ==
    /\ Roomy(k, epoch)
    /\ writer[k].at = "Sampled" => Roomy(k, writer[k].epoch)
    /\ writer[k].prep # 0 => /\ bags[k][Slot(writer[k].prep)].tag = writer[k].prep
                             /\ bags[k][Slot(writer[k].prep + 1)].tag = writer[k].prep + 1

\* The scan of CPU s found the bag of CPU k for the next epoch usable.
Cleared(s, k) == Trusts(s) /\ scan[s].version = version /\ k < scan[s].cpu

\* The bags the scan has cleared stay usable until the epoch advances: a node
\* put into one meanwhile is of the epoch it is for.
Room ==
    /\ \A k \in CPUs : RoomOf(k)
    /\ \A s, k \in CPUs : Cleared(s, k) => Roomy(k, epoch + 1)

-----------------------------------------------------------------------------
(* The epoch advances at most once past a reader and past a retire section. *)

\* A step of a CPU that is not scanning is looked at for that CPU only.
LEMMA GraceOwn ==
    ASSUME Grace, NEW c \in CPUs, epoch' = epoch, scan' = scan,
           \A d \in CPUs : d # c => pc'[d] = pc[d] /\ local'[d] = local[d] /\ writer'[d] = writer[d],
           ~Scanning(c)', Behind(c)', AtEpoch(c) => AtEpoch(c)'
    PROVE  Grace'
<1>1. \A k \in CPUs : k # c => (Behind(k)' <=> Behind(k)) /\ (AtEpoch(k)' <=> AtEpoch(k))
  BY DEF Behind, AtEpoch, Admitted
<1>2. \A s, k \in CPUs : (Trusts(s) /\ Passed(s, k))' => Trusts(s) /\ Passed(s, k)
  BY Zenon DEF Trusts, Passed, Scanning
<1>3. \A k \in CPUs : Behind(k)'
  BY <1>1, Zenon DEF Grace
<1>4. \A s, k \in CPUs : (Trusts(s) /\ Passed(s, k))' => AtEpoch(k)'
  BY <1>1, <1>2, Zenon DEF Grace
<1> QED
  BY <1>3, <1>4, ZenonT(30) DEF Grace

\* A step of a scan changes what that scan has passed.
LEMMA GraceScan ==
    ASSUME Grace, NEW c \in CPUs, epoch' = epoch, local' = local, writer' = writer,
           \A d \in CPUs : d # c => pc'[d] = pc[d] /\ scan'[d] = scan[d],
           pc[c] \notin {"Validate", "Republish"}, pc'[c] \notin {"Validate", "Republish"},
           \A k \in CPUs : (Trusts(c) /\ Passed(c, k))' => AtEpoch(k)
    PROVE  Grace'
<1>1. \A k \in CPUs : (Behind(k)' <=> Behind(k)) /\ (AtEpoch(k)' <=> AtEpoch(k))
  BY DEF Behind, AtEpoch, Admitted
<1>2. \A s, k \in CPUs : s # c => ((Trusts(s) /\ Passed(s, k))' => Trusts(s) /\ Passed(s, k))
  BY Zenon DEF Trusts, Passed, Scanning
<1>3. \A k \in CPUs : Behind(k)'
  BY <1>1, Zenon DEF Grace
<1>4. \A s, k \in CPUs : (Trusts(s) /\ Passed(s, k))' => AtEpoch(k)'
  BY <1>1, <1>2, Zenon DEF Grace
<1> QED
  BY <1>3, <1>4, Zenon DEF Grace

\* A reader that enters between two looks of a scan publishes the epoch before
\* it is admitted (the validation and the repair under the lock).
LEMMA GraceReader ==
    ASSUME TypeOK, Control, Grace, NEW c \in CPUs, Reader(c) \/ Reserve(c) \/ CancelReservation(c)
    PROVE  Grace'
<1> USE DEF Go, readerVars, retireVars, drainVars, memberVars
<1>a. epoch' = epoch /\ scan' = scan /\ writer' = writer /\ epoch \in Nat
  BY Zenon DEF TypeOK, Reader, GuardLoad, GuardEnter, GuardValidate, GuardRepublish, Read, GuardDrop, Reserve, CancelReservation
<1>b. \A d \in CPUs : d # c => pc'[d] = pc[d] /\ local'[d] = local[d] /\ writer'[d] = writer[d]
  BY ZenonT(30) DEF TypeOK, Reader, GuardLoad, GuardEnter, GuardValidate, GuardRepublish, Read, GuardDrop, Reserve, CancelReservation
<1>c. GuardOK(c) /\ Behind(c)
  BY Zenon DEF Control, Grace
<1>d. SUFFICES ~Scanning(c)' /\ (Admitted(c)' => local'[c] = epoch \/ (Admitted(c) /\ local'[c] = local[c]))
  <2>1. ASSUME Admitted(c)' => local'[c] = epoch \/ (Admitted(c) /\ local'[c] = local[c])
        PROVE  Behind(c)' /\ (AtEpoch(c) => AtEpoch(c)')
    BY <1>a, <1>c, <2>1 DEF Behind, AtEpoch
  <2> QED
    BY <1>a, <1>b, <2>1, GraceOwn, Zenon
<1>1. CASE GuardLoad(c)
  BY <1>1, <1>c, Zenon DEF GuardLoad, TypeOK, GuardOK, Admitted, Scanning
<1>2. CASE GuardEnter(c)
  BY <1>2, Zenon DEF GuardEnter, TypeOK, Admitted, Scanning
<1>3. CASE GuardValidate(c)
  BY <1>3, <1>c, Zenon DEF GuardValidate, TypeOK, GuardOK, Admitted, Scanning
<1>4. CASE GuardRepublish(c)
  BY <1>4, Zenon DEF GuardRepublish, TypeOK, Admitted, Scanning
<1>5. CASE Read(c)
  BY <1>5, Zenon DEF Read, Admitted, Scanning
<1>6. CASE GuardDrop(c)
  BY <1>6, Zenon DEF GuardDrop, TypeOK, Admitted, Scanning
<1>7. CASE Reserve(c) \/ CancelReservation(c)
  BY <1>7, Zenon DEF Reserve, CancelReservation, Admitted, Scanning
<1> QED
  BY <1>1, <1>2, <1>3, <1>4, <1>5, <1>6, <1>7, Zenon DEF Reader

\* A retire section preflights and samples the current epoch.
LEMMA GraceWriter ==
    ASSUME TypeOK, Control, Grace, NEW c \in CPUs, BeginRetire(c) \/ Writer(c)
    PROVE  Grace'
<1> USE DEF Go, readerVars, retireVars, drainVars, memberVars
<1>a. epoch' = epoch /\ scan' = scan /\ local' = local /\ pc' = pc /\ epoch \in Nat
  BY Zenon DEF TypeOK, Writer, BeginRetire, Preflight, Unlink, Sample, Enqueue
<1>b. \A d \in CPUs : d # c => pc'[d] = pc[d] /\ local'[d] = local[d] /\ writer'[d] = writer[d]
  BY ZenonT(30) DEF TypeOK, Writer, BeginRetire, Preflight, Unlink, Sample, Enqueue
<1>c. SectionOK(c) /\ Behind(c)
  BY DEF Control, Grace
<1>d. ~Scanning(c)'
  BY <1>a, <1>c, Zenon DEF SectionOK, Scanning, NotWriting, Writer, BeginRetire, Preflight, Unlink, Sample, Enqueue
<1>e. SUFFICES /\ writer'[c].prep # 0 => writer'[c].prep = epoch \/ writer'[c].prep = writer[c].prep
               /\ writer'[c].at = "Sampled" => writer'[c].epoch = epoch
  <2>1. ASSUME writer'[c].prep # 0 => writer'[c].prep = epoch \/ writer'[c].prep = writer[c].prep,
               writer'[c].at = "Sampled" => writer'[c].epoch = epoch
        PROVE  Behind(c)' /\ (AtEpoch(c) => AtEpoch(c)')
    BY <1>a, <1>c, <2>1 DEF Behind, AtEpoch, Admitted
  <2> QED
    BY <1>a, <1>b, <1>d, <2>1, GraceOwn, Zenon
<1>1. CASE BeginRetire(c)
  BY <1>1 DEF BeginRetire, TypeOK
<1>2. CASE Preflight(c)
  BY <1>2 DEF Preflight, NoWriter, TypeOK
<1>3. CASE Unlink(c)
  BY <1>3, Zenon DEF Unlink, TypeOK
<1>4. CASE Sample(c)
  BY <1>4, Zenon DEF Sample, TypeOK
<1>5. CASE Enqueue(c)
  BY <1>5, Zenon DEF Enqueue, NoWriter, TypeOK
<1> QED
  BY <1>1, <1>2, <1>3, <1>4, <1>5, Zenon DEF Writer

\* A CPU the scan skips has no reader and no retire section.
LEMMA Offline ==
    ASSUME Control, NEW k \in CPUs, member[k] = "Offline"
    PROVE  AtEpoch(k)
<1>1. local[k] = 0 /\ NotWriting(k)
  BY Zenon DEF Control, PinOK, Pinned
<1>2. writer[k].prep = 0
  BY <1>1, Zenon DEF Control, SectionOK, NotWriting
<1> QED
  BY <1>1, <1>2, Zenon DEF AtEpoch, Admitted, NotWriting

\* A scan that is not blocked found no reason at any CPU.
LEMMA ScannedClear ==
    ASSUME NEW s \in Scan, NEW found \in BOOLEAN, NEW next, Scanned(s, found, next).blocked = FALSE
    PROVE  s.blocked = FALSE /\ ~found
<1>1. s.blocked \in BOOLEAN
  BY DEF Scan
<1> QED
  BY <1>1, Zenon DEF Scanned

\* The scan and the compare-and-swap of the epoch: the CPUs were passed at the
\* epoch that is advanced.
LEMMA GraceDrain ==
    ASSUME TypeOK, Control, Grace, NEW c \in CPUs, Drain(c)
    PROVE  Grace'
<1> USE DEF Go, readerVars, retireVars, drainVars, memberVars
<1>a. local' = local /\ writer' = writer
  BY Zenon DEF Drain, StartDrain, DropDeferred, ScanLocal, ScanBags, CommitAdvance, Detach, Callback, EndDrain
<1>b. \A d \in CPUs : d # c => pc'[d] = pc[d] /\ scan'[d] = scan[d]
  <2>1. (\E x : pc' = [pc EXCEPT ![c] = x]) \/ pc' = pc
    BY Zenon DEF Drain, StartDrain, DropDeferred, ScanLocal, ScanBags, CommitAdvance, Detach, Callback, EndDrain
  <2>2. (\E x : scan' = [scan EXCEPT ![c] = x]) \/ scan' = scan
    BY Zenon DEF Drain, StartDrain, DropDeferred, ScanLocal, ScanBags, CommitAdvance, Detach, Callback, EndDrain
  <2> QED
    BY <2>1, <2>2 DEF TypeOK
<1>c. pc[c] \notin {"Validate", "Republish"}
  BY Zenon DEF Drain, StartDrain, DropDeferred, ScanLocal, ScanBags, CommitAdvance, Detach, Callback, EndDrain
<1>d. ASSUME epoch' = epoch, pc'[c] \in {"Deferred", "Detach", "Callback", Home(c)}
      PROVE  Grace'
  BY <1>a, <1>b, <1>c, <1>d, GraceScan, Zenon DEF Trusts, Scanning, Home
<1>1. CASE StartDrain(c)
  BY <1>1, <1>d DEF StartDrain, TypeOK
<1>2. CASE DropDeferred(c)
  <2>1. epoch' = epoch /\ pc'[c] = "ScanLocal" /\ scan'[c].cpu = 0
    BY <1>2, ZenonT(30) DEF DropDeferred, Rescan, TypeOK
  <2>2. \A k \in CPUs : ~Passed(c, k)'
    BY <2>1, EpochAssumption DEF Passed, CPUs
  <2> QED
    BY <1>a, <1>b, <1>c, <2>1, <2>2, GraceScan
<1>3. CASE ScanLocal(c)
  <2> DEFINE late(k) == retiring[k] \/ (local[k] # 0 /\ local[k] < scan[c].current)
             skip(k) == member[k] \notin {"Online", "Draining"}
  <2>1. PICK m \in CPUs : m = scan[c].cpu
    BY <1>3, Zenon DEF ScanLocal
  <2>2. /\ epoch' = epoch /\ pc[c] = "ScanLocal" /\ pc'[c] = IF skip(m) THEN "ScanLocal" ELSE "ScanBags"
        /\ scan'[c] = Scanned(scan[c], ~skip(m) /\ late(m), IF skip(m) THEN m + 1 ELSE m)
    BY <1>3, <2>1, Zenon DEF ScanLocal, TypeOK
  <2>3. /\ scan'[c].current = scan[c].current
        /\ scan'[c].cpu = IF skip(m) THEN m + 1 ELSE m
    BY <2>2 DEF Scanned
  <2>5. scan'[c].blocked = FALSE => scan[c].blocked = FALSE /\ ~(~skip(m) /\ late(m))
    <3> DEFINE found == ~skip(m) /\ late(m)
    <3>1. found \in BOOLEAN
      BY Zenon
    <3> HIDE DEF found
    <3>2. scan'[c] = Scanned(scan[c], found, IF skip(m) THEN m + 1 ELSE m) /\ scan[c] \in Scan
      BY <2>2, Zenon DEF found, TypeOK
    <3>3. scan'[c].blocked = FALSE => scan[c].blocked = FALSE /\ ~found
      BY <3>1, <3>2, ScannedClear, ZenonT(30)
    <3> QED
      BY <3>3, Zenon DEF found
  <2>6. Trusts(c)' => AtEpoch(m)
    <3>1. CASE skip(m)
      BY <3>1, Offline DEF TypeOK
    <3>2. CASE ~skip(m) /\ Trusts(c)'
      <4>1. ~late(m) /\ scan[c].current = epoch
        BY <2>2, <2>3, <2>5, <3>2, Zenon DEF Trusts
      <4>2. SectionOK(m) /\ GuardOK(m)
        BY Zenon DEF Control
      <4>3. NotWriting(m) /\ writer[m].prep = 0
        BY <4>1, <4>2, Zenon DEF SectionOK, NotWriting, TypeOK
      <4>4. local[m] = 0 \/ local[m] = epoch
        <5>1. ~(local[m] # 0 /\ local[m] < scan[c].current)
          BY <4>1, Zenon
        <5>2. scan[c].current = epoch
          BY <4>1, Zenon
        <5>3. local[m] \in Nat /\ epoch \in Nat /\ local[m] <= epoch
          BY <4>2, Zenon DEF GuardOK, TypeOK
        <5> HIDE DEF late
        <5> QED
          BY <5>1, <5>2, <5>3
      <4> QED
        BY <4>3, <4>4, Zenon DEF AtEpoch, Admitted, NotWriting
    <3> QED
      BY <3>1, <3>2, Zenon
  <2>7. \A k \in CPUs : (Trusts(c) /\ Passed(c, k))' => AtEpoch(k)
    <3> SUFFICES ASSUME NEW k \in CPUs, (Trusts(c) /\ Passed(c, k))'
                 PROVE  AtEpoch(k)
      OBVIOUS
    <3>1. k <= m /\ k \in Int /\ m \in Int
      BY <2>2, <2>3, EpochAssumption DEF Passed, CPUs
    <3>2. CASE k = m
      BY <2>6, <3>2, Zenon
    <3>3. CASE k < m
      <4>1. Trusts(c) /\ Passed(c, k)
        BY <2>1, <2>2, <2>3, <2>5, <3>3, Zenon DEF Trusts, Passed, Scanning
      <4> QED
        BY <4>1, Zenon DEF Grace
    <3> QED
      BY <3>1, <3>2, <3>3
  <2> QED
    BY <1>a, <1>b, <1>c, <2>2, <2>7, GraceScan, Zenon
<1>4. CASE ScanBags(c)
  <2> DEFINE stuck == ~Fits(bags[scan[c].cpu][Slot(scan[c].current + 1)], scan[c].current + 1)
  <2>1. /\ epoch' = epoch /\ pc[c] = "ScanBags" /\ pc'[c] = "ScanLocal"
        /\ scan'[c] = Scanned(scan[c], stuck, scan[c].cpu + 1)
    BY <1>4, Zenon DEF ScanBags, TypeOK
  <2> HIDE DEF stuck
  <2>2. scan'[c].current = scan[c].current /\ scan'[c].cpu = scan[c].cpu + 1 /\ scan[c].cpu \in Int
    BY <2>1, EpochAssumption DEF Scanned, TypeOK, Scan
  <2>3. scan'[c].blocked = FALSE => scan[c].blocked = FALSE
    <3>1. stuck \in BOOLEAN
      BY Zenon DEF stuck
    <3>2. scan[c] \in Scan
      BY Zenon DEF TypeOK
    <3> QED
      BY <2>1, <3>1, <3>2, ScannedClear, ZenonT(30)
  <2>4. ASSUME NEW k \in CPUs, (Trusts(c) /\ Passed(c, k))'
        PROVE  Trusts(c) /\ Passed(c, k)
    BY <2>1, <2>2, <2>3, <2>4, EpochAssumption DEF Trusts, Passed, Scanning, CPUs
  <2> QED
    BY <1>a, <1>b, <1>c, <2>1, <2>4, GraceScan, Zenon DEF Grace
<1>5. CASE CommitAdvance(c)
  <2>1. CASE scan[c].version # version
    <3>1. epoch' = epoch /\ pc' = pc /\ scan'[c].cpu = 0 /\ pc[c] = "ScanLocal"
      BY <1>5, <2>1 DEF CommitAdvance, Rescan, TypeOK
    <3>2. \A k \in CPUs : ~Passed(c, k)'
      BY <3>1, EpochAssumption DEF Passed, CPUs
    <3> QED
      BY <1>a, <1>b, <1>c, <3>1, <3>2, GraceScan, Zenon
  <2>2. CASE scan[c].version = version /\ epoch' = epoch
    BY <1>5, <1>d, <2>2, Zenon DEF CommitAdvance, TypeOK
  <2>3. CASE scan[c].version = version /\ epoch' # epoch
    <3>1. /\ epoch' = epoch + 1 /\ ~scan[c].blocked /\ epoch = scan[c].current /\ pc'[c] = "Detach"
          /\ pc[c] = "ScanLocal" /\ scan[c].cpu = N
      BY <1>5, <2>3, Zenon DEF CommitAdvance, TypeOK
    <3>2. Trusts(c)
      <4>1. scan[c].blocked = FALSE
        BY <3>1, Zenon DEF TypeOK, Scan
      <4> QED
        BY <3>1, <4>1, Zenon DEF Trusts, Scanning
    <3>3. \A k \in CPUs : AtEpoch(k)
      <4>1. \A k \in CPUs : Passed(c, k)
        BY <3>1, EpochAssumption DEF Passed, CPUs
      <4> QED
        BY <3>2, <4>1, Zenon DEF Grace
    <3>4. \A k \in CPUs : Admitted(k)' => Admitted(k)
      BY <1>a, <1>b, <1>c, Zenon DEF Admitted
    <3>5. \A k \in CPUs : Behind(k)'
      BY <1>a, <3>1, <3>3, <3>4 DEF Behind, AtEpoch, TypeOK
    <3>6. \A s \in CPUs : ~Trusts(s)'
      <4>1. \A s \in CPUs : s # c /\ Scanning(s)' => scan'[s].current <= epoch /\ scan'[s].current \in Nat
        BY <1>b, ZenonT(30) DEF Scanning, Control, PinOK, TypeOK, Scan
      <4>2. epoch \in Nat
        BY Zenon DEF TypeOK
      <4> QED
        BY <3>1, <4>1, <4>2 DEF Trusts, Scanning
    <3> QED
      BY <3>5, <3>6, Zenon DEF Grace
  <2> QED
    BY <2>1, <2>2, <2>3, Zenon
<1>6. CASE Detach(c)
  BY <1>6, <1>d, ZenonT(30) DEF Detach, TypeOK
<1>7. CASE Callback(c)
  BY <1>7, <1>d, Zenon DEF Callback
<1>8. CASE EndDrain(c)
  BY <1>8, <1>d, Zenon DEF EndDrain, TypeOK
<1> QED
  BY <1>1, <1>2, <1>3, <1>4, <1>5, <1>6, <1>7, <1>8, Zenon DEF Drain

\* Membership changes happen outside scans of the CPU that makes them.
LEMMA GraceMember ==
    ASSUME TypeOK, Control, Grace, NEW c \in CPUs, OfflineBegin(c) \/ OfflineTransfer(c) \/ Admit(c)
    PROVE  Grace'
<1> USE DEF Go, readerVars, retireVars, drainVars, memberVars
<1>1. epoch' = epoch /\ local' = local /\ writer' = writer
  BY Zenon DEF OfflineBegin, OfflineTransfer, Admit
<1>2. \A d \in CPUs : d # c => pc'[d] = pc[d] /\ scan'[d] = scan[d]
  <2>1. pc' = pc \/ \E x : pc' = [pc EXCEPT ![c] = x]
    BY Zenon DEF OfflineBegin, OfflineTransfer, Admit
  <2>2. scan' = scan \/ \E x : scan' = [scan EXCEPT ![c] = x]
    BY Zenon DEF OfflineBegin, OfflineTransfer, Admit
  <2> QED
    BY <2>1, <2>2, Frame, ZenonT(30)
<1>3. pc[c] \in {"Idle", "Offlining"} /\ pc'[c] \in {"Idle", "Offlining"}
  BY ZenonT(30) DEF TypeOK, OfflineBegin, OfflineTransfer, Admit
<1> QED
  BY <1>1, <1>2, <1>3, GraceScan, ZenonT(30) DEF Trusts, Scanning

-----------------------------------------------------------------------------
(* The bag of an epoch is free for it.                                     *)

\* A step of a CPU that is not scanning is looked at for that CPU only.
LEMMA RoomOwn ==
    ASSUME Room, NEW c \in CPUs, epoch' = epoch, version' = version,
           \A d \in CPUs : d # c => pc'[d] = pc[d] /\ scan'[d] = scan[d] /\ bags'[d] = bags[d] /\ writer'[d] = writer[d],
           ~Scanning(c)', RoomOf(c)', Roomy(c, epoch + 1) => Roomy(c, epoch + 1)'
    PROVE  Room'
<1>1. \A k \in CPUs : k # c => (RoomOf(k)' <=> RoomOf(k)) /\ (Roomy(k, epoch + 1)' <=> Roomy(k, epoch + 1))
  BY ZenonT(30) DEF RoomOf, Roomy
<1>2. \A s, k \in CPUs : Cleared(s, k)' => Cleared(s, k)
  BY Zenon DEF Cleared, Trusts, Scanning
<1>3. \A k \in CPUs : RoomOf(k)'
  BY <1>1, Zenon DEF Room
<1>4. \A s, k \in CPUs : Cleared(s, k)' => Roomy(k, epoch + 1)'
  BY <1>1, <1>2, Zenon DEF Room
<1> QED
  BY <1>3, <1>4, Zenon DEF Room

\* A step of a scan changes what that scan has cleared.
LEMMA RoomScan ==
    ASSUME Room, NEW c \in CPUs, epoch' = epoch, version' = version, bags' = bags, writer' = writer,
           \A d \in CPUs : d # c => pc'[d] = pc[d] /\ scan'[d] = scan[d],
           \A k \in CPUs : Cleared(c, k)' => Roomy(k, epoch + 1)
    PROVE  Room'
<1>1. \A k \in CPUs : (RoomOf(k)' <=> RoomOf(k)) /\ (Roomy(k, epoch + 1)' <=> Roomy(k, epoch + 1))
  BY Zenon DEF RoomOf, Roomy
<1>2. \A s, k \in CPUs : s # c => (Cleared(s, k)' => Cleared(s, k))
  BY Zenon DEF Cleared, Trusts, Scanning
<1>3. \A k \in CPUs : RoomOf(k)'
  BY <1>1, Zenon DEF Room
<1>4. \A s, k \in CPUs : Cleared(s, k)' => Roomy(k, epoch + 1)'
  BY <1>1, <1>2, Zenon DEF Room
<1> QED
  BY <1>3, <1>4, Zenon DEF Room

\* Readers touch no bag.
LEMMA RoomReader ==
    ASSUME TypeOK, Control, Room, NEW c \in CPUs, Reader(c) \/ Reserve(c) \/ CancelReservation(c)
    PROVE  Room'
<1> USE DEF Go, readerVars, retireVars, drainVars, memberVars
<1>1. epoch' = epoch /\ version' = version /\ scan' = scan /\ bags' = bags /\ writer' = writer
  BY Zenon DEF Reader, GuardLoad, GuardEnter, GuardValidate, GuardRepublish, Read, GuardDrop, Reserve, CancelReservation
<1>2. \A d \in CPUs : d # c => pc'[d] = pc[d]
  <2>1. pc' = pc \/ \E x : pc' = [pc EXCEPT ![c] = x]
    BY Zenon DEF Reader, GuardLoad, GuardEnter, GuardValidate, GuardRepublish, Read, GuardDrop, Reserve, CancelReservation
  <2> QED
    BY <2>1, Frame, Zenon
<1>3. ~Scanning(c)'
  BY ZenonT(30) DEF Scanning, TypeOK, Reader, GuardLoad, GuardEnter, GuardValidate, GuardRepublish, Read, GuardDrop, Reserve, CancelReservation
<1> QED
  BY <1>1, <1>2, <1>3, RoomScan, ZenonT(30) DEF Cleared, Trusts

\* The bag a sampled section enqueues into has room for its epoch, and after a
\* preflight it has the tag of that epoch already: the preflight tagged two bags
\* and the epoch has advanced at most once.
LEMMA SampledBag ==
    ASSUME TypeOK, Control, Grace, Room, NEW c \in CPUs, writer[c].at = "Sampled"
    PROVE  /\ Fits(bags[c][Slot(writer[c].epoch)], writer[c].epoch)
           /\ writer[c].path = "Prepared" => bags[c][Slot(writer[c].epoch)].tag = writer[c].epoch
<1>1. RoomOf(c) /\ SectionOK(c) /\ Behind(c)
  BY Zenon DEF Room, Control, Grace
<1>2. CASE writer[c].path = "Prepared"
  <2>1. writer[c].prep # 0 /\ writer[c].prep <= writer[c].epoch /\ writer[c].epoch <= writer[c].prep + 1
    BY <1>1, <1>2 DEF SectionOK, Behind, TypeOK, Section
  <2>2. writer[c].epoch = writer[c].prep \/ writer[c].epoch = writer[c].prep + 1
    <3>1. PICK e \in Nat : e = writer[c].epoch
      BY Zenon DEF TypeOK, Section
    <3>2. PICK p \in Nat : p = writer[c].prep
      BY Zenon DEF TypeOK, Section
    <3>3. p <= e /\ e <= p + 1
      BY <2>1, <3>1, <3>2, ZenonT(30)
    <3>4. e = p \/ e = p + 1
      BY <3>3
    <3> QED
      BY <3>1, <3>2, <3>4, Zenon
  <2> QED
    BY <1>1, <2>1, <2>2, Zenon DEF RoomOf, Roomy
<1> QED
  BY <1>1, <1>2, Zenon DEF RoomOf, Roomy

\* Retire sections: the preflight and the enqueue tag a bag only with the epoch
\* it is for.
LEMMA RoomWriter ==
    ASSUME TypeOK, Control, Grace, Room, NEW c \in CPUs, BeginRetire(c) \/ Writer(c)
    PROVE  Room'
<1> USE DEF Go, readerVars, retireVars, drainVars, memberVars
<1>a. epoch' = epoch /\ version' = version /\ scan' = scan /\ pc' = pc /\ epoch \in Nat \ {0}
  BY Zenon DEF TypeOK, Writer, BeginRetire, Preflight, Unlink, Sample, Enqueue
<1>b. \A d \in CPUs : d # c => bags'[d] = bags[d] /\ writer'[d] = writer[d]
  <2>1. \E x : writer' = [writer EXCEPT ![c] = x]
    BY Zenon DEF Writer, BeginRetire, Preflight, Unlink, Sample, Enqueue
  <2>2. bags' = bags \/ \E x : bags' = [bags EXCEPT ![c] = x]
    BY Zenon DEF Writer, BeginRetire, Preflight, Unlink, Sample, Enqueue
  <2> QED
    BY <2>1, <2>2, Frame, ZenonT(30)
<1>c. SectionOK(c) /\ RoomOf(c) /\ Behind(c)
  BY Zenon DEF Control, Room, Grace
<1>d. ~Scanning(c)'
  BY <1>a, <1>c, Zenon DEF SectionOK, Scanning, NotWriting, Writer, BeginRetire, Preflight, Unlink, Sample, Enqueue
<1>e. SUFFICES RoomOf(c)' /\ (Roomy(c, epoch + 1) => Roomy(c, epoch + 1)')
  BY <1>a, <1>b, <1>d, RoomOwn, Zenon
<1>1. CASE BeginRetire(c)
  <2>1. bags' = bags /\ writer'[c].at = "Begun" /\ writer'[c].prep = 0
    <3>1. \E n, path : writer' = [writer EXCEPT ![c] =
              [at |-> "Begun", path |-> path, prep |-> 0, epoch |-> 0, nodes |-> {}, fresh |-> {n}]]
      BY <1>1, Zenon DEF BeginRetire
    <3>2. bags' = bags /\ DOMAIN writer = CPUs
      BY <1>1, Zenon DEF BeginRetire, TypeOK
    <3> QED
      BY <3>1, <3>2
  <2> QED
    BY <1>a, <1>c, <2>1, Zenon DEF RoomOf, Roomy
<1>2. CASE Preflight(c)
  <2>1. CASE \A e \in {epoch, epoch + 1} : Fits(bags[c][Slot(e)], e)
    <3>1. /\ writer'[c].at = "Prepared" /\ writer'[c].prep = epoch
          /\ bags'[c] = [k \in 0..2 |->
                  [tag |-> IF k = Slot(epoch) THEN epoch
                           ELSE IF k = Slot(epoch + 1) THEN epoch + 1 ELSE bags[c][k].tag,
                   nodes |-> bags[c][k].nodes]]
      BY <1>2, <2>1 DEF Preflight, TypeOK
    <3>2. Slot(epoch) \in 0..2 /\ Slot(epoch + 1) \in 0..2 /\ Slot(epoch) # Slot(epoch + 1)
      BY <1>a, SlotIs
    <3>3. bags'[c][Slot(epoch)].tag = epoch /\ bags'[c][Slot(epoch + 1)].tag = epoch + 1
      BY <3>1, <3>2
    <3> QED
      BY <1>a, <3>1, <3>3, Zenon DEF RoomOf, Roomy, Fits
  <2>2. CASE ~ \A e \in {epoch, epoch + 1} : Fits(bags[c][Slot(e)], e)
    <3>1. bags' = bags /\ writer'[c] = NoWriter
      BY <1>2, <2>2, ZenonT(30) DEF Preflight, TypeOK
    <3> QED
      BY <1>a, <1>c, <3>1 DEF RoomOf, Roomy, NoWriter
  <2> QED
    BY <2>1, <2>2, Zenon
<1>3. CASE Unlink(c)
  <2>1. bags' = bags /\ writer'[c].at = "Unlinked" /\ writer'[c].prep = writer[c].prep
    BY <1>3, Zenon DEF Unlink, TypeOK
  <2> QED
    BY <1>a, <1>c, <2>1, Zenon DEF RoomOf, Roomy
<1>4. CASE Sample(c)
  <2>1. bags' = bags /\ writer'[c].at = "Sampled" /\ writer'[c].prep = writer[c].prep /\ writer'[c].epoch = epoch
    BY <1>4, Zenon DEF Sample, TypeOK
  <2> QED
    BY <1>a, <1>c, <2>1, Zenon DEF RoomOf, Roomy
<1>5. CASE Enqueue(c)
  <2>1. writer'[c] = NoWriter /\ writer[c].at = "Sampled"
    BY <1>5, Zenon DEF Enqueue, TypeOK
  <2>2. PICK e \in Nat : e = writer[c].epoch
    BY Zenon DEF TypeOK, Section
  <2>3. e <= epoch /\ epoch <= e + 1 /\ e # 0
    BY <1>c, <2>1, <2>2, Zenon DEF SectionOK, Behind
  <2>4. \A k \in 0..2 : bags'[c][k] = bags[c][k] \/ (k = Slot(e) /\ bags'[c][k].tag = e)
    <3>1. Slot(e) \in 0..2
      BY SlotIs, Zenon
    <3>2. CASE writer[c].path = "Reserved"
      BY <1>5, <3>2, Zenon DEF Enqueue
    <3>3. CASE writer[c].path # "Reserved"
      <4> DEFINE filled == [tag |-> IF writer[c].path = "Head" THEN e ELSE bags[c][Slot(e)].tag,
                            nodes |-> bags[c][Slot(e)].nodes \cup writer[c].nodes]
      <4>1. bags' = [bags EXCEPT ![c][Slot(e)] = filled]
        BY <1>5, <2>2, <3>3, Zenon DEF Enqueue
      <4>2. writer[c].path = "Head" \/ writer[c].path = "Prepared"
        BY <1>c, <2>1, <3>3, Zenon DEF SectionOK, NotWriting, TypeOK, Section
      <4>3. filled.tag = e
        BY <2>1, <2>2, <4>2, SampledBag, Zenon
      <4> HIDE DEF filled
      <4> QED
        BY <3>1, <4>1, <4>3, Zenon DEF TypeOK
    <3> QED
      BY <3>2, <3>3, Zenon
  <2>5. Slot(epoch) \in 0..2 /\ Slot(epoch + 1) \in 0..2 /\ Slot(epoch + 1) # Slot(e)
        /\ (Slot(epoch) = Slot(e) => e = epoch)
    BY <1>a, <2>3, SlotIs
  <2>6. Roomy(c, epoch)' /\ (Roomy(c, epoch + 1) => Roomy(c, epoch + 1)')
    BY <1>a, <1>c, <2>4, <2>5, Zenon DEF RoomOf, Roomy, Fits
  <2> QED
    BY <2>1, <2>6 DEF RoomOf, NoWriter
<1> QED
  BY <1>1, <1>2, <1>3, <1>4, <1>5, Zenon DEF Writer

\* Drains: reclaiming only empties bags, and an advance is to an epoch whose
\* bags the scan has cleared.
LEMMA RoomDrain ==
    ASSUME TypeOK, Control, Grace, Room, NEW c \in CPUs, Drain(c)
    PROVE  Room'
<1> USE DEF Go, readerVars, retireVars, drainVars, memberVars
<1>a. version' = version /\ writer' = writer
  BY Zenon DEF Drain, StartDrain, DropDeferred, ScanLocal, ScanBags, CommitAdvance, Detach, Callback, EndDrain
<1>b. \A d \in CPUs : d # c => pc'[d] = pc[d] /\ scan'[d] = scan[d]
  <2>1. (\E x : pc' = [pc EXCEPT ![c] = x]) \/ pc' = pc
    BY ZenonT(30) DEF Drain, StartDrain, DropDeferred, ScanLocal, ScanBags, CommitAdvance, Detach, Callback, EndDrain
  <2>2. (\E x : scan' = [scan EXCEPT ![c] = x]) \/ scan' = scan
    BY Zenon DEF Drain, StartDrain, DropDeferred, ScanLocal, ScanBags, CommitAdvance, Detach, Callback, EndDrain
  <2> QED
    BY <2>1, <2>2, ZenonT(30) DEF TypeOK
<1>c. ASSUME epoch' = epoch, bags' = bags, pc'[c] \in {"Deferred", "Detach", "Callback", Home(c)}
      PROVE  Room'
  BY <1>a, <1>b, <1>c, RoomScan, Zenon DEF Cleared, Trusts, Scanning, Home
<1>1. CASE StartDrain(c)
  BY <1>1, <1>c, Zenon DEF StartDrain, TypeOK
<1>2. CASE DropDeferred(c)
  <2>1. epoch' = epoch /\ bags' = bags /\ scan'[c].cpu = 0
    BY <1>2, Zenon DEF DropDeferred, Rescan, TypeOK
  <2>2. \A k \in CPUs : ~Cleared(c, k)'
    BY <2>1, EpochAssumption DEF Cleared, CPUs
  <2> QED
    BY <1>a, <1>b, <2>1, <2>2, RoomScan, Zenon
<1>3. CASE ScanLocal(c)
  <2> DEFINE late(k) == retiring[k] \/ (local[k] # 0 /\ local[k] < scan[c].current)
             skip(k) == member[k] \notin {"Online", "Draining"}
             found == ~skip(scan[c].cpu) /\ late(scan[c].cpu)
  <2>1. PICK m \in CPUs : m = scan[c].cpu
    BY <1>3, Zenon DEF ScanLocal
  <2>2. /\ epoch' = epoch /\ bags' = bags /\ pc[c] = "ScanLocal"
        /\ scan'[c] = Scanned(scan[c], found, IF skip(m) THEN m + 1 ELSE m)
    BY <1>3, <2>1, Zenon DEF ScanLocal, TypeOK
  <2>3. found \in BOOLEAN /\ scan[c] \in Scan
    <3>1. found \in BOOLEAN
      BY Zenon
    <3> QED
      BY <3>1, Zenon DEF TypeOK
  <2> HIDE DEF found, late
  <2>4. /\ scan'[c].current = scan[c].current /\ scan'[c].version = scan[c].version
        /\ scan'[c].cpu = IF skip(m) THEN m + 1 ELSE m
    BY <2>2 DEF Scanned
  <2>5. scan'[c].blocked = FALSE => scan[c].blocked = FALSE
    BY <2>2, <2>3, ScannedClear, ZenonT(30)
  <2>6. skip(m) => Roomy(m, epoch + 1)
    <3>1. Slot(epoch + 1) \in 0..2
      BY SlotIs DEF TypeOK
    <3>2. skip(m) => \A k \in 0..2 : bags[m][k].nodes = {}
      BY ZenonT(30) DEF TypeOK, Control, PinOK
    <3> QED
      BY <3>1, <3>2, Zenon DEF Roomy, Fits
  <2>7. ASSUME NEW k \in CPUs, Cleared(c, k)'
        PROVE  Roomy(k, epoch + 1)
    <3>1. CASE k < m
      <4>1. Cleared(c, k)
        BY <1>a, <2>1, <2>2, <2>4, <2>5, <2>7, <3>1, Zenon DEF Cleared, Trusts, Scanning
      <4> QED
        BY <4>1, Zenon DEF Room
    <3>2. CASE ~(k < m)
      <4>1. skip(m) /\ k = m
        BY <2>4, <2>7, <3>2, EpochAssumption DEF Cleared, CPUs
      <4> QED
        BY <2>6, <4>1, Zenon
    <3> QED
      BY <3>1, <3>2, Zenon
  <2> QED
    BY <1>a, <1>b, <2>2, <2>7, RoomScan, Zenon
<1>4. CASE ScanBags(c)
  <2> DEFINE stuck == ~Fits(bags[scan[c].cpu][Slot(scan[c].current + 1)], scan[c].current + 1)
  <2>1. PICK m \in CPUs : m = scan[c].cpu
    BY <1>4, Zenon DEF ScanBags, Control, PinOK
  <2>2. /\ epoch' = epoch /\ bags' = bags /\ pc[c] = "ScanBags"
        /\ scan'[c] = Scanned(scan[c], stuck, m + 1)
    BY <1>4, <2>1, Zenon DEF ScanBags, TypeOK
  <2>3. stuck \in BOOLEAN /\ scan[c] \in Scan
    <3>1. stuck \in BOOLEAN
      BY Zenon
    <3> QED
      BY <3>1, Zenon DEF TypeOK
  <2>4. scan'[c].current = scan[c].current /\ scan'[c].version = scan[c].version /\ scan'[c].cpu = m + 1
    BY <2>2 DEF Scanned
  <2> HIDE DEF stuck
  <2>5. scan'[c].blocked = FALSE => scan[c].blocked = FALSE /\ ~stuck
    BY <2>2, <2>3, ScannedClear, ZenonT(30)
  <2>6. ASSUME NEW k \in CPUs, Cleared(c, k)'
        PROVE  Roomy(k, epoch + 1)
    <3>1. CASE k < m
      <4>1. Cleared(c, k)
        BY <1>a, <2>1, <2>2, <2>4, <2>5, <2>6, <3>1, Zenon DEF Cleared, Trusts, Scanning
      <4> QED
        BY <4>1, Zenon DEF Room
    <3>2. CASE ~(k < m)
      <4>1. k = m
        BY <2>4, <2>6, <3>2, EpochAssumption DEF Cleared, CPUs
      <4>2. scan[c].current = epoch /\ ~stuck
        BY <2>2, <2>4, <2>5, <2>6, Zenon DEF Cleared, Trusts
      <4> QED
        BY <2>1, <4>1, <4>2, Zenon DEF stuck, Roomy
    <3> QED
      BY <3>1, <3>2, Zenon
  <2> QED
    BY <1>a, <1>b, <2>2, <2>6, RoomScan, Zenon
<1>5. CASE CommitAdvance(c)
  <2>0. bags' = bags
    BY <1>5, Zenon DEF CommitAdvance
  <2>1. CASE scan[c].version # version
    <3>1. epoch' = epoch /\ scan'[c].cpu = 0
      BY <1>5, <2>1 DEF CommitAdvance, Rescan, TypeOK
    <3>2. \A k \in CPUs : ~Cleared(c, k)'
      BY <3>1, EpochAssumption DEF Cleared, CPUs
    <3> QED
      BY <1>a, <1>b, <2>0, <3>1, <3>2, RoomScan, Zenon
  <2>2. CASE scan[c].version = version /\ epoch' = epoch
    BY <1>5, <1>c, <2>0, <2>2, Zenon DEF CommitAdvance, TypeOK
  <2>3. CASE scan[c].version = version /\ epoch' # epoch
    <3>1. /\ epoch' = epoch + 1 /\ ~scan[c].blocked /\ epoch = scan[c].current /\ pc'[c] = "Detach"
          /\ pc[c] = "ScanLocal" /\ scan[c].cpu = N
      BY <1>5, <2>3, Zenon DEF CommitAdvance, TypeOK
    <3>2. \A k \in CPUs : Cleared(c, k)
      <4>1. scan[c].blocked = FALSE
        BY <3>1, Zenon DEF TypeOK, Scan
      <4> QED
        BY <2>3, <3>1, <4>1, EpochAssumption DEF Cleared, Trusts, Scanning, CPUs
    <3>3. \A k \in CPUs : RoomOf(k) /\ Roomy(k, epoch + 1)
      BY <3>2, Zenon DEF Room
    <3>4. \A k \in CPUs : RoomOf(k)'
      BY <1>a, <2>0, <3>1, <3>3, Zenon DEF RoomOf, Roomy
    <3>5. \A s \in CPUs : ~Trusts(s)'
      <4>1. \A s \in CPUs : s # c /\ Scanning(s)' => scan'[s].current <= epoch /\ scan'[s].current \in Nat
        BY <1>b, ZenonT(30) DEF Scanning, Control, PinOK, TypeOK, Scan
      <4>2. epoch \in Nat
        BY Zenon DEF TypeOK
      <4> QED
        BY <3>1, <4>1, <4>2 DEF Trusts, Scanning
    <3> QED
      BY <3>4, <3>5, Zenon DEF Room, Cleared
  <2> QED
    BY <2>1, <2>2, <2>3, Zenon
<1>6. CASE Detach(c)
  <2>1. epoch' = epoch /\ pc[c] = "Detach"
    BY <1>6, Zenon DEF Detach
  <2>2. CASE member[c] # "Online"
    BY <1>6, <1>c, <2>1, <2>2, ZenonT(30) DEF Detach, TypeOK
  <2>3. CASE member[c] = "Online"
    <3>1. PICK gone : bags' = [bags EXCEPT ![c] = [k \in 0..2 |->
                  IF bags[c][k].nodes # {} /\ bags[c][k].nodes \subseteq gone THEN EmptyBag
                  ELSE [tag |-> bags[c][k].tag, nodes |-> bags[c][k].nodes \ gone]]]
      BY <1>6, <2>3, ZenonT(30) DEF Detach
    <3>2. \A d \in CPUs : d # c => bags'[d] = bags[d]
      BY <3>1, Zenon DEF TypeOK
    <3>3. \A k \in 0..2 : bags'[c][k].nodes = {} \/ (bags[c][k].nodes # {} /\ bags'[c][k].tag = bags[c][k].tag)
      BY <3>1, Zenon DEF TypeOK, Bag, EmptyBag
    <3>4. Slot(epoch) \in 0..2 /\ Slot(epoch + 1) \in 0..2
      BY SlotIs DEF TypeOK
    <3>5. pc'[c] = "Callback"
      BY <1>6, <2>3, ZenonT(30) DEF Detach, TypeOK
    <3>6. NotWriting(c) /\ writer[c].prep = 0
      BY <2>1, Zenon DEF Control, SectionOK, NotWriting
    <3>7. Roomy(c, epoch)' /\ (Roomy(c, epoch + 1) => Roomy(c, epoch + 1)')
      BY <2>1, <3>3, <3>4, Zenon DEF Room, RoomOf, Roomy, Fits
    <3>8. RoomOf(c)'
      BY <1>a, <3>6, <3>7, Zenon DEF RoomOf, NotWriting
    <3> QED
      BY <1>a, <1>b, <2>1, <3>2, <3>5, <3>7, <3>8, RoomOwn, Zenon DEF Scanning
  <2> QED
    BY <2>2, <2>3, Zenon
<1>7. CASE Callback(c)
  BY <1>7, <1>c, Zenon DEF Callback
<1>8. CASE EndDrain(c)
  BY <1>8, <1>c, Zenon DEF EndDrain, TypeOK
<1> QED
  BY <1>1, <1>2, <1>3, <1>4, <1>5, <1>6, <1>7, <1>8, Zenon DEF Drain

\* An empty bag has room for any epoch.
LEMMA EmptyFits == \A e : Fits(EmptyBag, e)
  BY DEF Fits, EmptyBag

\* Bags with room for an epoch keep it when they are merged.
LEMMA MergedFits == \A mine, theirs, e : Fits(mine, e) /\ Fits(theirs, e) => Fits(MergedBag(mine, theirs), e)
  BY Zenon DEF Fits, MergedBag

\* Bags are handed over only to a CPU whose bags agree, and that makes a new
\* membership version, which ends every scan.
LEMMA RoomMember ==
    ASSUME TypeOK, Control, Room, NEW c \in CPUs, OfflineBegin(c) \/ OfflineTransfer(c) \/ Admit(c)
    PROVE  Room'
<1> USE DEF Go, readerVars, retireVars, drainVars, memberVars
<1>a. epoch' = epoch /\ version' = version + 1 /\ writer' = writer
  BY Zenon DEF OfflineBegin, OfflineTransfer, Admit
<1>b. \A d \in CPUs : d # c => pc'[d] = pc[d] /\ scan'[d] = scan[d]
  <2>1. pc' = pc \/ \E x : pc' = [pc EXCEPT ![c] = x]
    BY Zenon DEF OfflineBegin, OfflineTransfer, Admit
  <2>2. scan' = scan \/ \E x : scan' = [scan EXCEPT ![c] = x]
    BY Zenon DEF OfflineBegin, OfflineTransfer, Admit
  <2> QED
    BY <2>1, <2>2, Frame, ZenonT(30)
<1>c. pc'[c] \in {"Idle", "Offlining"} /\ pc[c] \in {"Idle", "Offlining"}
  BY ZenonT(30) DEF TypeOK, OfflineBegin, OfflineTransfer, Admit
<1>d. \A s, k \in CPUs : ~Cleared(s, k)'
  <2>1. \A s \in CPUs : s # c /\ Scanning(s)' => scan'[s].version <= version /\ scan'[s].version \in Nat
    BY <1>b, ZenonT(30) DEF Scanning, Control, PinOK, TypeOK, Scan
  <2>2. version \in Nat
    BY Zenon DEF TypeOK
  <2> QED
    BY <1>a, <1>c, <2>1, <2>2 DEF Cleared, Trusts, Scanning
<1>e. SUFFICES \A k \in CPUs : RoomOf(k)'
  BY <1>d, Zenon DEF Room
<1>f. \A k \in CPUs : RoomOf(k)
  BY Zenon DEF Room
<1>g. Slot(epoch) \in 0..2
  BY SlotIs, Zenon DEF TypeOK
<1>h. \A k \in CPUs : bags'[k] = bags[k] => RoomOf(k)'
  BY <1>a, <1>f, ZenonT(30) DEF RoomOf, Roomy
<1>i. \A k \in CPUs : ~Pinned(k) => NotWriting(k) /\ writer[k].prep = 0
  BY Zenon DEF Control, SectionOK, Pinned, NotWriting
<1>1. CASE OfflineBegin(c)
  BY <1>1, <1>h, Zenon DEF OfflineBegin
<1>2. CASE OfflineTransfer(c)
  <2>1. pc[c] = "Offlining"
    BY <1>2, Zenon DEF OfflineTransfer
  <2>2. PICK t \in CPUs : t = scan[c].cpu /\ t # c
    BY <2>1, Zenon DEF Control, PinOK
  <2>3. ~Pinned(t)
    BY <1>2, <2>2, Zenon DEF OfflineTransfer
  <2>4. NotWriting(c) /\ writer[c].prep = 0
    BY <2>1, Zenon DEF Control, SectionOK, NotWriting
  <2>5. CASE bags' = bags
    BY <1>h, <2>5, Zenon
  <2>6. CASE bags' = [bags EXCEPT ![c] = [k \in 0..2 |-> MergedBag(bags[c][k], bags[t][k])],
                                  ![t] = [k \in 0..2 |-> EmptyBag]]
    <3>1. \A d \in CPUs : d # c /\ d # t => bags'[d] = bags[d]
      BY <2>2, <2>6, Zenon DEF TypeOK
    <3>2. /\ bags'[c] = [k \in 0..2 |-> MergedBag(bags[c][k], bags[t][k])]
          /\ bags'[t] = [k \in 0..2 |-> EmptyBag]
      BY <2>2, <2>6, Zenon DEF TypeOK
    <3>3. Roomy(c, epoch) /\ Roomy(t, epoch)
      BY <1>f, <2>2, Zenon DEF RoomOf
    <3>4. Roomy(c, epoch)'
      <4>1. bags'[c][Slot(epoch)] = MergedBag(bags[c][Slot(epoch)], bags[t][Slot(epoch)])
        BY <1>g, <3>2, Zenon
      <4> QED
        BY <1>a, <3>3, <4>1, MergedFits, Zenon DEF Roomy
    <3>5. Roomy(t, epoch)'
      BY <1>a, <1>g, <3>2, EmptyFits, Zenon DEF Roomy
    <3>6. RoomOf(c)' /\ RoomOf(t)'
      BY <1>a, <1>i, <2>3, <2>4, <3>4, <3>5, Zenon DEF RoomOf, NotWriting
    <3> QED
      BY <1>h, <3>1, <3>6, Zenon
  <2> QED
    BY <1>2, <2>2, <2>5, <2>6, ZenonT(30) DEF OfflineTransfer
<1>3. CASE Admit(c)
  <2>1. bags'[c] = [k \in 0..2 |-> EmptyBag] /\ \A d \in CPUs : d # c => bags'[d] = bags[d]
    BY <1>3, Zenon DEF Admit, TypeOK
  <2>2. Roomy(c, epoch)'
    BY <1>a, <1>g, <2>1, EmptyFits, Zenon DEF Roomy
  <2>3. ~Pinned(c)
    BY <1>3, Zenon DEF Admit, Control, PinOK
  <2>4. RoomOf(c)'
    BY <1>a, <1>i, <2>2, <2>3, Zenon DEF RoomOf, NotWriting
  <2> QED
    BY <1>h, <2>1, <2>4, Zenon
<1> QED
  BY <1>1, <1>2, <1>3, Zenon

-----------------------------------------------------------------------------
(* The invariant, and what follows from it.                                *)

\* The inductive invariant.
Inv == TypeOK /\ Control /\ Grace /\ Room

\* The invariant holds when the boot CPU has initialized the domain.
LEMMA InitInv == Init => Inv
<1> SUFFICES ASSUME Init PROVE Inv
  OBVIOUS
<1>1. TypeOK /\ Control
  BY InitControl, Zenon DEF ControlInv
<1>2. \A c \in CPUs : /\ local[c] = 0 /\ pc[c] = "Idle" /\ held[c] = {} /\ ready[c] = {} /\ list[c] = {}
                      /\ writer[c] = NoWriter /\ retiring[c] = FALSE /\ bags[c] = [k \in 0..2 |-> EmptyBag]
  BY Zenon DEF Init
<1>3. epoch = 1
  BY Zenon DEF Init
<1>5. Grace
  BY <1>2 DEF Grace, Behind, Trusts, Scanning, Admitted, NoWriter
<1>6. Room
  <2>1. Slot(epoch) \in 0..2
    BY <1>3, SlotIs, ZenonT(30)
  <2>2. \A k \in CPUs : RoomOf(k)
    <3>1. NoWriter.at = "None" /\ NoWriter.prep = 0
      BY DEF NoWriter
    <3>2. \A k \in CPUs : bags[k][Slot(epoch)] = EmptyBag /\ writer[k] = NoWriter
      BY <1>2, <2>1, ZenonT(30)
    <3>3. EmptyBag.nodes = {}
      BY DEF EmptyBag
    <3> QED
      BY <3>1, <3>2, <3>3, Zenon DEF RoomOf, Roomy, Fits
  <2> QED
    BY <1>2, <2>2, Zenon DEF Room, Cleared, Trusts, Scanning
<1> QED
  BY <1>1, <1>5, <1>6, Zenon DEF Inv

\* Every step keeps the invariant.
LEMMA NextInv == Inv /\ [Next]_vars => Inv'
<1> SUFFICES ASSUME Inv, [Next]_vars PROVE Inv'
  OBVIOUS
<1>a. TypeOK /\ Control /\ Grace /\ Room
  BY Zenon DEF Inv
<1>b. TypeOK' /\ Control'
  BY <1>a, NextControl, Zenon DEF ControlInv
<1>1. CASE Next
  <2>1. PICK c \in CPUs :
            \/ Reader(c) \/ Reserve(c) \/ CancelReservation(c) \/ BeginRetire(c) \/ Writer(c) \/ Drain(c)
            \/ OfflineBegin(c) \/ OfflineTransfer(c) \/ Admit(c)
    BY <1>1, Zenon DEF Next
  <2>2. CASE Reader(c) \/ Reserve(c) \/ CancelReservation(c)
    BY <1>a, <1>b, <2>2, GraceReader, RoomReader, Zenon DEF Inv
  <2>3. CASE BeginRetire(c) \/ Writer(c)
    BY <1>a, <1>b, <2>3, GraceWriter, RoomWriter, Zenon DEF Inv
  <2>4. CASE Drain(c)
    BY <1>a, <1>b, <2>4, GraceDrain, RoomDrain, Zenon DEF Inv
  <2>5. CASE OfflineBegin(c) \/ OfflineTransfer(c) \/ Admit(c)
    BY <1>a, <1>b, <2>5, GraceMember, RoomMember, Zenon DEF Inv
  <2> QED
    BY <2>1, <2>2, <2>3, <2>4, <2>5, Zenon
<1>2. CASE UNCHANGED vars
  <2> USE <1>2 DEF vars, memberVars, readerVars, retireVars, drainVars
  <2>3. Grace'
    BY <1>a, ZenonT(30) DEF Grace, Behind, AtEpoch, Trusts, Passed, Admitted, Scanning
  <2>4. Room'
    BY <1>a, Zenon DEF Room, RoomOf, Roomy, Cleared, Trusts, Scanning
  <2> QED
    BY <1>b, <2>3, <2>4, Zenon DEF Inv
<1> QED
  BY <1>1, <1>2

\* The invariant holds in every behaviour.
LEMMA InvHolds == Spec => []Inv
  BY InitInv, NextInv, PTL DEF Spec

\* An admitted reader lets the epoch advance at most once while it holds nodes
\* (enter_reader against try_advance_epoch_with, on any number of CPUs).
THEOREM ReadersHoldTheEpoch == Spec => []ReaderHoldsEpoch
<1>1. Inv => ReaderHoldsEpoch
  BY Zenon DEF Inv, Control, GuardOK, Grace, Behind, ReaderHoldsEpoch
<1> QED
  BY <1>1, InvHolds, PTL

\* A retire section lets the epoch advance at most once after its preflight: the
\* two bags it prepared cover every epoch it can sample (local_retire_guard).
THEOREM RetiringHoldsTheEpoch == Spec => []OneAdvanceWhileRetiring
<1>1. Inv => OneAdvanceWhileRetiring
  BY Zenon DEF Inv, Grace, Behind, OneAdvanceWhileRetiring
<1> QED
  BY <1>1, InvHolds, PTL

\* The enqueue after the barrier never fails: the bag of the sampled epoch is
\* empty or of that epoch, and tagged already after a preflight
\* (enqueue_head_after_barrier and its prepared variant).
THEOREM EnqueueFindsRoom == Spec => []BagFits
<1>1. Inv => BagFits
  BY SampledBag, Zenon DEF Inv, BagFits
<1> QED
  BY <1>1, InvHolds, PTL
=============================================================================
