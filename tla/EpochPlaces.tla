---------------------------- MODULE EpochPlaces -----------------------------
(***************************************************************************)
(* Proofs about the places of the nodes in Epoch, for any number of CPUs   *)
(* and nodes: every node is in one place (Places), whatever retires,       *)
(* drains, defers it or hands it over.                                     *)
(***************************************************************************)
EXTENDS EpochProofs

\* What a retire section owns at each of its steps: the fresh node until the
\* swap, the unlinked one from then on.
SectionNodes(c) ==
    /\ writer[c].at = "None" => writer[c].fresh = {}
    /\ writer[c].at \in {"None", "Begun", "Prepared"} => writer[c].nodes = {}
    /\ writer[c].at \in {"Begun", "Prepared"} => \E n \in Nodes : writer[c].fresh = {n}
    /\ writer[c].at \in {"Unlinked", "Sampled"} => writer[c].fresh = {}

\* Node n is in a filled record of CPU c.
HasRecord(c, n) == \E r \in ready[c] : r.node = n

\* The places of a node, numbered: the root, the two of a section, the three
\* bags, the records, the detached list, the deferred drops, the free nodes.
In(c, i, n) ==
    \/ i = 0 /\ c = 0 /\ n = root
    \/ i = 1 /\ n \in writer[c].fresh
    \/ i = 2 /\ n \in writer[c].nodes
    \/ i = 3 /\ n \in bags[c][0].nodes
    \/ i = 4 /\ n \in bags[c][1].nodes
    \/ i = 5 /\ n \in bags[c][2].nodes
    \/ i = 6 /\ HasRecord(c, n)
    \/ i = 7 /\ n \in list[c]
    \/ i = 8 /\ n \in deferred[c]
    \/ i = 9 /\ c = 0 /\ n \in free

\* A node is in exactly one place.
Placed(n) == \E c \in CPUs, i \in 0..9 : \A d \in CPUs, j \in 0..9 : In(d, j, n) <=> d = c /\ j = i

\* No node has two records.
OneRecord(c) == \A r, q \in ready[c] : r.node = q.node => r = q

Places ==
    /\ \A c \in CPUs : SectionNodes(c) /\ OneRecord(c)
    /\ \A n \in Nodes : Placed(n)

-----------------------------------------------------------------------------
(* Places.                                                                 *)

\* A step leaves node n where it is, or moves it to place i of CPU c.
Stays(n) == \A d \in CPUs, j \in 0..9 : In(d, j, n)' <=> In(d, j, n)
Moves(n, c, i) == \A d \in CPUs, j \in 0..9 : In(d, j, n)' <=> d = c /\ j = i

\* A node that is in a place is in no other.
LEMMA Only ==
    ASSUME NEW n, Placed(n), NEW c \in CPUs, NEW i \in 0..9, In(c, i, n)
    PROVE  \A d \in CPUs, j \in 0..9 : In(d, j, n) <=> d = c /\ j = i
  BY ZenonT(30) DEF Placed

\* A node that stays, or moves to one place, is in one place.
LEMMA PlacedStep ==
    ASSUME NEW n, Placed(n), Stays(n) \/ \E c \in CPUs, i \in 0..9 : Moves(n, c, i)
    PROVE  Placed(n)'
<1>1. CASE Stays(n)
  <2>1. PICK c \in CPUs, i \in 0..9 : \A d \in CPUs, j \in 0..9 : In(d, j, n) <=> d = c /\ j = i
    BY Zenon DEF Placed
  <2>2. \A d \in CPUs, j \in 0..9 : In(d, j, n)' <=> d = c /\ j = i
    BY <1>1, <2>1, Zenon DEF Stays
  <2> QED
    BY <2>2, Zenon DEF Placed
<1>2. CASE \E c \in CPUs, i \in 0..9 : Moves(n, c, i)
  BY <1>2, Zenon DEF Placed, Moves
<1> QED
  BY <1>1, <1>2, Zenon

\* What the ten places are, for a node that is in place i of CPU c.
Apart(n, c, i) ==
    /\ i # 0 => n # root
    /\ i # 9 => n \notin free
    /\ \A d \in CPUs :
        /\ d # c \/ i # 1 => n \notin writer[d].fresh
        /\ d # c \/ i # 2 => n \notin writer[d].nodes
        /\ d # c \/ i # 3 => n \notin bags[d][0].nodes
        /\ d # c \/ i # 4 => n \notin bags[d][1].nodes
        /\ d # c \/ i # 5 => n \notin bags[d][2].nodes
        /\ d # c \/ i # 6 => ~HasRecord(d, n)
        /\ d # c \/ i # 7 => n \notin list[d]
        /\ d # c \/ i # 8 => n \notin deferred[d]

\* There is a boot CPU.
LEMMA ZeroIs == 0 \in CPUs
  BY EpochAssumption DEF CPUs

\* A node in place i of CPU c is in none of the others.
LEMMA ApartIs ==
    ASSUME Places, NEW n \in Nodes, NEW c \in CPUs, NEW i \in 0..9, In(c, i, n)
    PROVE  Apart(n, c, i)
<1>1. \A d \in CPUs, j \in 0..9 : In(d, j, n) => d = c /\ j = i
  BY Only DEF Places
<1>2. /\ 0 \in 0..9 /\ 1 \in 0..9 /\ 2 \in 0..9 /\ 3 \in 0..9 /\ 4 \in 0..9 /\ 5 \in 0..9
      /\ 6 \in 0..9 /\ 7 \in 0..9 /\ 8 \in 0..9 /\ 9 \in 0..9
  OBVIOUS
<1>3. \A d \in CPUs :
        /\ n \in writer[d].fresh => In(d, 1, n)
        /\ n \in writer[d].nodes => In(d, 2, n)
        /\ n \in bags[d][0].nodes => In(d, 3, n)
        /\ n \in bags[d][1].nodes => In(d, 4, n)
        /\ n \in bags[d][2].nodes => In(d, 5, n)
        /\ HasRecord(d, n) => In(d, 6, n)
        /\ n \in list[d] => In(d, 7, n)
        /\ n \in deferred[d] => In(d, 8, n)
  BY ZenonT(30) DEF In
<1>4. (n = root => In(0, 0, n)) /\ (n \in free => In(0, 9, n))
  BY Zenon DEF In
<1> QED
  BY <1>1, <1>2, <1>3, <1>4, ZeroIs, ZenonT(30) DEF Apart

\* The places of a node at CPU d after a step are those before it.
SameAt(n, d) ==
    /\ n \in writer'[d].fresh <=> n \in writer[d].fresh
    /\ n \in writer'[d].nodes <=> n \in writer[d].nodes
    /\ n \in bags'[d][0].nodes <=> n \in bags[d][0].nodes
    /\ n \in bags'[d][1].nodes <=> n \in bags[d][1].nodes
    /\ n \in bags'[d][2].nodes <=> n \in bags[d][2].nodes
    /\ HasRecord(d, n)' <=> HasRecord(d, n)
    /\ n \in list'[d] <=> n \in list[d]
    /\ n \in deferred'[d] <=> n \in deferred[d]

\* A node whose places are the same everywhere stays.
LEMMA StaysIs ==
    ASSUME NEW n, n = root' <=> n = root, n \in free' <=> n \in free, \A d \in CPUs : SameAt(n, d)
    PROVE  Stays(n)
<1> SUFFICES ASSUME NEW d \in CPUs, NEW j \in 0..9
             PROVE  In(d, j, n)' <=> In(d, j, n)
  BY Zenon DEF Stays
<1>1. SameAt(n, d)
  OBVIOUS
<1> QED
  BY <1>1 DEF In, SameAt

\* A step that changes none of the places leaves every node where it is.
LEMMA SameStays ==
    ASSUME UNCHANGED <<root, free, bags, ready, list, deferred>>,
           \A d \in CPUs : writer'[d].fresh = writer[d].fresh /\ writer'[d].nodes = writer[d].nodes,
           NEW n
    PROVE  Stays(n)
<1>1. \A d \in CPUs : HasRecord(d, n)' <=> HasRecord(d, n)
  BY Zenon DEF HasRecord
<1>2. \A d \in CPUs : SameAt(n, d)
  BY <1>1, Zenon DEF SameAt
<1> QED
  BY <1>2, StaysIs

\* After the step node n is in place k of CPU b, and nowhere else.
MovedAt(n, b, k) ==
    /\ n = root' <=> k = 0
    /\ n \in free' <=> k = 9
    /\ \A d \in CPUs :
        /\ n \in writer'[d].fresh <=> d = b /\ k = 1
        /\ n \in writer'[d].nodes <=> d = b /\ k = 2
        /\ n \in bags'[d][0].nodes <=> d = b /\ k = 3
        /\ n \in bags'[d][1].nodes <=> d = b /\ k = 4
        /\ n \in bags'[d][2].nodes <=> d = b /\ k = 5
        /\ HasRecord(d, n)' <=> d = b /\ k = 6
        /\ n \in list'[d] <=> d = b /\ k = 7
        /\ n \in deferred'[d] <=> d = b /\ k = 8

\* A node that is there and nowhere else has moved.
LEMMA MovesIs ==
    ASSUME NEW n, NEW b \in CPUs, NEW k \in 0..9, k = 0 \/ k = 9 => b = 0, MovedAt(n, b, k)
    PROVE  Moves(n, b, k)
<1> SUFFICES ASSUME NEW d \in CPUs, NEW j \in 0..9
             PROVE  In(d, j, n)' <=> d = b /\ j = k
  BY Zenon DEF Moves
<1>1. j = 0 \/ j = 1 \/ j = 2 \/ j = 3 \/ j = 4 \/ j = 5 \/ j = 6 \/ j = 7 \/ j = 8 \/ j = 9
  OBVIOUS
<1> QED
  BY <1>1 DEF In, MovedAt

\* A step keeps the places if every node stays or moves.
LEMMA PlacesStep ==
    ASSUME Places, \A c \in CPUs : SectionNodes(c)' /\ OneRecord(c)',
           \A n \in Nodes : Stays(n) \/ \E c \in CPUs, i \in 0..9 : Moves(n, c, i)
    PROVE  Places'
<1>1. \A n \in Nodes : Placed(n)'
  BY PlacedStep DEF Places
<1> QED
  BY <1>1, Zenon DEF Places

\* A step that touches no place keeps them.
LEMMA PlacesSame ==
    ASSUME Places, UNCHANGED <<writer, root, free, bags, ready, list, deferred>>
    PROVE  Places'
<1>1. \A c \in CPUs : SectionNodes(c)' /\ OneRecord(c)'
  BY ZenonT(30) DEF Places, SectionNodes, OneRecord
<1>2. \A n \in Nodes : Stays(n)
  BY SameStays
<1> QED
  BY <1>1, <1>2, PlacesStep, Zenon

\* A step of one CPU has to be looked at for that CPU.
LEMMA PlacesOwn ==
    ASSUME Places, NEW c \in CPUs, SectionNodes(c)', OneRecord(c)',
           \A d \in CPUs : d # c => writer'[d] = writer[d] /\ ready'[d] = ready[d],
           \A n \in Nodes : Stays(n) \/ \E b \in CPUs, i \in 0..9 : Moves(n, b, i)
    PROVE  Places'
<1>1. \A d \in CPUs : d # c => SectionNodes(d)' /\ OneRecord(d)'
  BY ZenonT(30) DEF Places, SectionNodes, OneRecord
<1>2. \A d \in CPUs : SectionNodes(d)' /\ OneRecord(d)'
  BY <1>1, Zenon
<1> QED
  BY <1>2, PlacesStep, Zenon

\* A retire section moves the fresh node to the root, the old root to the
\* section and from there into a bag or a record; a failed preflight gives the
\* fresh node back.
LEMMA PlacesWriter ==
    ASSUME Inv, Places, NEW c \in CPUs, BeginRetire(c) \/ Writer(c)
    PROVE  Places'
<1> USE DEF Go, readerVars, retireVars, drainVars, memberVars
<1>a. TypeOK /\ SectionOK(c) /\ SectionNodes(c) /\ OneRecord(c)
  BY Zenon DEF Inv, Control, Places
<1>b. list' = list /\ deferred' = deferred
  BY ZenonT(30) DEF Writer, BeginRetire, Preflight, Unlink, Sample, Enqueue
<1>c. \A d \in CPUs : d # c => writer'[d] = writer[d] /\ ready'[d] = ready[d] /\ bags'[d] = bags[d]
  BY <1>a, WriterElsewhere, Zenon DEF SameCPU
<1>d. \A n : n \in {0, 1, 2, 3, 4, 5, 6, 7, 8, 9} => n \in 0..9
  OBVIOUS
<1>1. CASE BeginRetire(c)
  <2>1. PICK m \in free, path \in Paths[root] : /\ writer' = [writer EXCEPT ![c] = [at |-> "Begun", path |-> path, prep |-> 0,
                                                  epoch |-> 0, nodes |-> {}, fresh |-> {m}]]
                                /\ free' = free \ {m}
    BY <1>1, Zenon DEF BeginRetire
  <2>2. writer'[c].fresh = {m} /\ writer'[c].nodes = {} /\ writer'[c].at = "Begun" /\ m \in Nodes
    BY <1>a, <2>1, Zenon DEF TypeOK
  <2>3. bags' = bags /\ ready' = ready /\ root' = root
    BY <1>1, Zenon DEF BeginRetire
  <2>4. writer[c].fresh = {} /\ writer[c].nodes = {}
    BY <1>1, <1>a, Zenon DEF BeginRetire, NotWriting, SectionNodes
  <2>5. SectionNodes(c)' /\ OneRecord(c)'
    BY <1>a, <2>2, <2>3, Zenon DEF SectionNodes, OneRecord
  <2>6. \A n, d : HasRecord(d, n)' <=> HasRecord(d, n)
    BY <2>3, Zenon DEF HasRecord
  <2>7. ASSUME NEW n \in Nodes, n # m
        PROVE  Stays(n)
    <3>1. \A d \in CPUs : SameAt(n, d)
      BY <1>b, <1>c, <2>2, <2>3, <2>4, <2>6, <2>7, ZenonT(30) DEF SameAt
    <3>2. n \in free' <=> n \in free
      BY <2>1, <2>7, Zenon
    <3> QED
      BY <2>3, <3>1, <3>2, StaysIs
  <2>8. Moves(m, c, 1)
    <3>1. In(0, 9, m)
      BY Zenon DEF In
    <3>2. Apart(m, 0, 9)
      BY <1>d, <2>2, <3>1, ApartIs, ZeroIs, Zenon
    <3>3. MovedAt(m, c, 1)
      BY <1>b, <1>c, <2>1, <2>2, <2>3, <2>6, <3>2 DEF Apart, MovedAt
    <3> QED
      BY <3>3, MovesIs
  <2> QED
    BY <1>c, <1>d, <2>5, <2>7, <2>8, PlacesOwn, Zenon
<1>2. CASE Preflight(c)
  <2>0. writer[c].at = "Begun" /\ ready' = ready /\ root' = root
    BY <1>2, Zenon DEF Preflight
  <2>1. \A n, d : HasRecord(d, n)' <=> HasRecord(d, n)
    BY <2>0, Zenon DEF HasRecord
  <2>2. OneRecord(c)'
    BY <1>a, <2>0, Zenon DEF OneRecord
  <2>3. CASE \A e \in {epoch, epoch + 1} : Fits(bags[c][Slot(e)], e)
    <3>1. /\ writer'[c].at = "Prepared" /\ writer'[c].nodes = {} /\ writer'[c].fresh = writer[c].fresh
          /\ free' = free
          /\ bags'[c] = [k \in 0..2 |->
                  [tag |-> IF k = Slot(epoch) THEN epoch
                           ELSE IF k = Slot(epoch + 1) THEN epoch + 1 ELSE bags[c][k].tag,
                   nodes |-> bags[c][k].nodes]]
      BY <1>2, <1>a, <2>3 DEF Preflight, TypeOK
    <3>2. \A k \in 0..2 : bags'[c][k].nodes = bags[c][k].nodes
      BY <3>1
    <3>3. SectionNodes(c)'
      BY <1>a, <2>0, <3>1, ZenonT(30) DEF SectionNodes
    <3>4. writer[c].nodes = {}
      BY <1>a, <2>0, Zenon DEF SectionNodes
    <3>5. ASSUME NEW n \in Nodes
          PROVE  Stays(n)
      <4>1. \A d \in CPUs : SameAt(n, d)
        BY <1>b, <1>c, <2>1, <3>1, <3>2, <3>4 DEF SameAt
      <4> QED
        BY <2>0, <3>1, <4>1, StaysIs, Zenon
    <3> QED
      BY <1>c, <2>2, <3>3, <3>5, PlacesOwn, Zenon
  <2>4. CASE ~ \A e \in {epoch, epoch + 1} : Fits(bags[c][Slot(e)], e)
    <3>1. bags' = bags /\ writer'[c] = NoWriter /\ free' = free \cup writer[c].fresh
      BY <1>2, <1>a, <2>4, ZenonT(30) DEF Preflight, TypeOK
    <3>2. writer'[c].nodes = {} /\ writer'[c].fresh = {} /\ writer'[c].at = "None"
      BY <3>1 DEF NoWriter
    <3>3. SectionNodes(c)'
      BY <3>2, Zenon DEF SectionNodes
    <3>4. writer[c].nodes = {}
      BY <1>a, <2>0, Zenon DEF SectionNodes
    <3>5. ASSUME NEW n \in Nodes, n \notin writer[c].fresh
          PROVE  Stays(n)
      <4>1. \A d \in CPUs : SameAt(n, d)
        BY <1>b, <1>c, <2>1, <3>1, <3>2, <3>4, <3>5, Zenon DEF SameAt
      <4>2. n \in free' <=> n \in free
        BY <3>1, <3>5, Zenon
      <4> QED
        BY <2>0, <4>1, <4>2, StaysIs
    <3>6. ASSUME NEW n \in Nodes, n \in writer[c].fresh
          PROVE  Moves(n, 0, 9)
      <4>1. In(c, 1, n)
        BY <3>6, Zenon DEF In
      <4>2. Apart(n, c, 1)
        BY <1>d, <4>1, ApartIs, Zenon
      <4>3. MovedAt(n, 0, 9)
        BY <1>b, <1>c, <2>0, <2>1, <3>1, <3>2, <3>6, <4>2 DEF Apart, MovedAt
      <4> QED
        BY <4>3, MovesIs, ZeroIs
    <3> QED
      BY <1>c, <1>d, <2>2, <3>3, <3>5, <3>6, PlacesOwn, ZeroIs, Zenon
  <2> QED
    BY <2>3, <2>4, Zenon
<1>3. CASE Unlink(c)
  <2>1. /\ writer[c].at \in {"Begun", "Prepared"} /\ root' \in writer[c].fresh
        /\ bags' = bags /\ ready' = ready /\ free' = free
    BY <1>3, Zenon DEF Unlink
  <2>2. writer'[c].at = "Unlinked" /\ writer'[c].nodes = {root} /\ writer'[c].fresh = {}
    BY <1>3, <1>a, Zenon DEF Unlink, TypeOK
  <2>3. writer[c].nodes = {} /\ writer[c].fresh = {root'} /\ root' \in Nodes /\ root \in Nodes
    BY <1>a, <2>1, ZenonT(30) DEF SectionNodes, TypeOK
  <2>4. SectionNodes(c)' /\ OneRecord(c)'
    BY <1>a, <2>1, <2>2, Zenon DEF SectionNodes, OneRecord
  <2>5. \A n, d : HasRecord(d, n)' <=> HasRecord(d, n)
    BY <2>1, Zenon DEF HasRecord
  <2>6. ASSUME NEW n \in Nodes, n # root, n # root'
        PROVE  Stays(n)
    <3>1. \A d \in CPUs : SameAt(n, d)
      <4>1. n \notin {root} /\ n \notin {root'} /\ n \notin {}
        BY <2>6, Zenon
      <4> QED
        BY <1>b, <1>c, <2>1, <2>2, <2>3, <2>5, <4>1, ZenonT(30) DEF SameAt
    <3> QED
      BY <2>1, <2>6, <3>1, StaysIs
  <2>7. PICK old \in Nodes, new \in Nodes : old = root /\ new = root'
    BY <2>3, Zenon
  <2>8. Apart(old, 0, 0)
    <3>1. In(0, 0, old)
      BY <2>7, Zenon DEF In
    <3> QED
      BY <1>d, <2>7, <3>1, ApartIs, ZeroIs, Zenon
  <2>9. Apart(new, c, 1)
    <3>1. In(c, 1, new)
      BY <2>1, <2>7, Zenon DEF In
    <3> QED
      BY <1>d, <2>7, <3>1, ApartIs
  <2>10. old # new
    BY <2>7, <2>9 DEF Apart
  <2>11. Moves(old, c, 2)
    <3>1. MovedAt(old, c, 2)
      BY <1>b, <1>c, <2>1, <2>2, <2>3, <2>5, <2>7, <2>8, <2>10 DEF Apart, MovedAt
    <3> QED
      BY <3>1, MovesIs
  <2>12. Moves(new, 0, 0)
    <3>1. MovedAt(new, 0, 0)
      BY <1>b, <1>c, <2>1, <2>2, <2>3, <2>5, <2>7, <2>9, <2>10 DEF Apart, MovedAt
    <3> QED
      BY <3>1, MovesIs, ZeroIs
  <2> QED
    BY <1>c, <1>d, <2>4, <2>6, <2>7, <2>11, <2>12, PlacesOwn, ZeroIs, ZenonT(30)
<1>4. CASE Sample(c)
  <2>1. /\ writer[c].at = "Unlinked" /\ UNCHANGED <<root, free, bags, ready, list, deferred>>
        /\ writer'[c].at = "Sampled" /\ writer'[c].nodes = writer[c].nodes /\ writer'[c].fresh = {}
    BY <1>4, <1>a, Zenon DEF Sample, TypeOK
  <2>2. writer[c].fresh = {}
    BY <1>a, <2>1, Zenon DEF SectionNodes
  <2>3. SectionNodes(c)' /\ OneRecord(c)'
    BY <1>a, <2>1, Zenon DEF SectionNodes, OneRecord
  <2>4. \A d \in CPUs : writer'[d].fresh = writer[d].fresh /\ writer'[d].nodes = writer[d].nodes
    BY <1>c, <2>1, <2>2, Zenon
  <2>5. \A n \in Nodes : Stays(n)
    BY <2>1, <2>4, SameStays, Zenon
  <2> QED
    BY <1>c, <2>3, <2>5, PlacesOwn, Zenon
<1>5. CASE Enqueue(c)
  <2>1. writer[c].at = "Sampled" /\ writer'[c] = NoWriter /\ root' = root /\ free' = free
    BY <1>5, <1>a, Zenon DEF Enqueue, TypeOK
  <2>2. writer'[c].nodes = {} /\ writer'[c].fresh = {} /\ writer'[c].at = "None" /\ writer[c].fresh = {}
    BY <1>a, <2>1 DEF NoWriter, SectionNodes
  <2>3. SectionNodes(c)'
    BY <2>2, Zenon DEF SectionNodes
  <2>4. PICK e \in Nat : e = writer[c].epoch
    BY <1>a, Zenon DEF TypeOK, Section
  <2>5. \A n \in Nodes : n \in writer[c].nodes => Apart(n, c, 2)
    <3>1. \A n \in Nodes : n \in writer[c].nodes => In(c, 2, n)
      BY Zenon DEF In
    <3> QED
      BY <1>d, <3>1, ApartIs, Zenon
  <2>6. CASE writer[c].path = "Reserved"
    <3>1. bags' = bags /\ ready'[c] = ready[c] \cup {[node |-> n, epoch |-> e] : n \in writer[c].nodes}
      BY <1>5, <1>a, <2>4, <2>6 DEF Enqueue, TypeOK
    <3>2. \A n : HasRecord(c, n)' <=> HasRecord(c, n) \/ n \in writer[c].nodes
      <4>1. ASSUME NEW n, HasRecord(c, n)'
            PROVE  HasRecord(c, n) \/ n \in writer[c].nodes
        BY <3>1, <4>1 DEF HasRecord
      <4>2. ASSUME NEW n, HasRecord(c, n)
            PROVE  HasRecord(c, n)'
        BY <3>1, <4>2, Zenon DEF HasRecord
      <4>3. ASSUME NEW n \in writer[c].nodes
            PROVE  HasRecord(c, n)'
        <5>1. [node |-> n, epoch |-> e] \in ready'[c]
          BY <3>1, Zenon
        <5>2. [node |-> n, epoch |-> e].node = n
          OBVIOUS
        <5> QED
          BY <5>1, <5>2, Zenon DEF HasRecord
      <4> QED
        BY <4>1, <4>2, <4>3, Zenon
    <3>3. \A n, d : d \in CPUs /\ d # c => (HasRecord(d, n)' <=> HasRecord(d, n))
      BY <1>c, Zenon DEF HasRecord
    <3>4. OneRecord(c)'
      <4>1. writer[c].nodes \subseteq Nodes
        BY <1>a, Zenon DEF TypeOK, Section
      <4>2. \A n \in writer[c].nodes : ~HasRecord(c, n)
        BY <2>5, <4>1 DEF Apart
      <4> QED
        BY <1>a, <3>1, <4>2 DEF OneRecord, HasRecord
    <3>5. ASSUME NEW n \in Nodes, n \notin writer[c].nodes
          PROVE  Stays(n)
      <4>1. \A d \in CPUs : SameAt(n, d)
        BY <1>b, <1>c, <2>2, <3>1, <3>2, <3>3, <3>5, ZenonT(30) DEF SameAt
      <4> QED
        BY <2>1, <4>1, StaysIs, Zenon
    <3>6. ASSUME NEW n \in Nodes, n \in writer[c].nodes
          PROVE  Moves(n, c, 6)
      <4>1. MovedAt(n, c, 6)
        BY <1>b, <1>c, <2>1, <2>2, <2>5, <3>1, <3>2, <3>3, <3>6 DEF Apart, MovedAt
      <4> QED
        BY <4>1, MovesIs, SMTT(30)
    <3> QED
      BY <1>c, <1>d, <2>3, <3>4, <3>5, <3>6, PlacesOwn, Zenon
  <2>7. CASE writer[c].path # "Reserved"
    <3>0. ready' = ready
      BY <1>5, <2>7, Zenon DEF Enqueue
    <3>1. PICK k \in 0..2 : k = Slot(e)
      BY SlotIs, Zenon
    <3>2. PICK bag : bags' = [bags EXCEPT ![c][k] = [tag |-> bag, nodes |-> bags[c][k].nodes \cup writer[c].nodes]]
      BY <1>5, <2>4, <2>7, <3>1, Zenon DEF Enqueue
    <3>3. \A n : \A j \in 0..2 : n \in bags'[c][j].nodes <=> n \in bags[c][j].nodes \/ (j = k /\ n \in writer[c].nodes)
      BY <1>a, <3>2, ZenonT(30) DEF TypeOK
    <3>4. OneRecord(c)'
      BY <1>a, <3>0, Zenon DEF OneRecord
    <3>5. \A n, d : HasRecord(d, n)' <=> HasRecord(d, n)
      BY <3>0, Zenon DEF HasRecord
    <3>6. ASSUME NEW n \in Nodes, n \notin writer[c].nodes
          PROVE  Stays(n)
      <4>1. \A d \in CPUs : SameAt(n, d)
        BY <1>b, <1>c, <2>2, <3>3, <3>5, <3>6 DEF SameAt
      <4> QED
        BY <2>1, <4>1, StaysIs, Zenon
    <3>7. ASSUME NEW n \in Nodes, n \in writer[c].nodes
          PROVE  Moves(n, c, k + 3)
      <4>1. MovedAt(n, c, k + 3)
        BY <1>b, <1>c, <2>1, <2>2, <2>5, <3>3, <3>5, <3>7 DEF Apart, MovedAt
      <4> QED
        BY <4>1, MovesIs, SMTT(30)
    <3>8. k + 3 \in 0..9
      OBVIOUS
    <3> QED
      BY <1>c, <2>3, <3>4, <3>6, <3>7, <3>8, PlacesOwn, Zenon
  <2> QED
    BY <2>6, <2>7, Zenon
<1> QED
  BY <1>1, <1>2, <1>3, <1>4, <1>5, Zenon DEF Writer

\* A drain moves nodes from bags and records to the detached list, from there
\* to the deferred drops or out, and the deferred drops out.
LEMMA PlacesDrain ==
    ASSUME Inv, Places, NEW c \in CPUs, Drain(c)
    PROVE  Places'
<1> USE DEF Go, readerVars, retireVars, drainVars, memberVars
<1>a. TypeOK /\ PinOK(c) /\ OneRecord(c)
  BY Zenon DEF Inv, Control, Places
<1>b. writer' = writer /\ root' = root
  BY ZenonT(30) DEF Drain, StartDrain, DropDeferred, ScanLocal, ScanBags, CommitAdvance, Detach, Callback, EndDrain
<1>c. \A d \in CPUs : d # c =>
        /\ ready'[d] = ready[d] /\ bags'[d] = bags[d]
        /\ list'[d] = list[d] /\ deferred'[d] = deferred[d]
  <2>1. CASE DropDeferred(c)
    BY <1>a, <2>1, Zenon DEF TypeOK, DropDeferred
  <2>2. CASE Detach(c)
    BY <1>a, <2>2, ZenonT(30) DEF TypeOK, Detach
  <2>3. CASE Callback(c)
    BY <1>a, <2>3, ZenonT(30) DEF TypeOK, Callback
  <2>4. CASE StartDrain(c) \/ ScanLocal(c) \/ ScanBags(c) \/ CommitAdvance(c) \/ EndDrain(c)
    BY <2>4, Zenon DEF StartDrain, ScanLocal, ScanBags, CommitAdvance, EndDrain
  <2> QED
    BY <2>1, <2>2, <2>3, <2>4, Zenon DEF Drain
<1>d. \A n : n \in {0, 1, 2, 3, 4, 5, 6, 7, 8, 9} => n \in 0..9
  OBVIOUS
<1>e. SectionNodes(c)'
  BY <1>b, Zenon DEF Places, SectionNodes
<1>1. CASE StartDrain(c) \/ ScanLocal(c) \/ ScanBags(c) \/ CommitAdvance(c) \/ EndDrain(c)
  <2>1. UNCHANGED <<writer, root, free, bags, ready, list, deferred>>
    BY <1>1, Zenon DEF StartDrain, ScanLocal, ScanBags, CommitAdvance, EndDrain
  <2> QED
    BY <2>1, PlacesSame, Zenon
<1>2. CASE DropDeferred(c)
  <2>1. PICK gone \in SUBSET deferred[c] :
            deferred' = [deferred EXCEPT ![c] = @ \ gone] /\ free' = free \cup gone
    BY <1>2, Zenon DEF DropDeferred
  <2>2. bags' = bags /\ ready' = ready /\ list' = list
    BY <1>2, Zenon DEF DropDeferred
  <2>3. deferred'[c] = deferred[c] \ gone
    BY <1>a, <2>1 DEF TypeOK
  <2>4. \A n, d : HasRecord(d, n)' <=> HasRecord(d, n)
    BY <2>2, Zenon DEF HasRecord
  <2>5. OneRecord(c)'
    BY <1>a, <2>2, Zenon DEF OneRecord
  <2>6. ASSUME NEW n \in Nodes, n \notin gone
        PROVE  Stays(n)
    <3>1. n \in free' <=> n \in free
      BY <2>1, <2>6, Zenon
    <3>2. n \in deferred'[c] <=> n \in deferred[c]
      BY <2>3, <2>6, Zenon
    <3>3. \A d \in CPUs : SameAt(n, d)
      BY <1>b, <1>c, <2>2, <2>4, <3>2, Zenon DEF SameAt
    <3> QED
      BY <1>b, <3>1, <3>3, StaysIs, Zenon
  <2>7. ASSUME NEW n \in Nodes, n \in gone
        PROVE  Moves(n, 0, 9)
    <3>1. In(c, 8, n)
      BY <2>7, Zenon DEF In
    <3>2. Apart(n, c, 8)
      BY <1>d, <3>1, ApartIs, SMTT(30)
    <3>3. MovedAt(n, 0, 9)
      BY <1>b, <1>c, <2>1, <2>2, <2>3, <2>4, <2>7, <3>2, SMTT(30) DEF Apart, MovedAt
    <3> QED
      BY <3>3, MovesIs, ZeroIs
  <2> QED
    BY <1>b, <1>c, <1>d, <1>e, <2>5, <2>6, <2>7, PlacesOwn, ZeroIs, Zenon
<1>3. CASE Detach(c)
  <2>1. CASE member[c] # "Online"
    <3>1. UNCHANGED <<writer, root, free, bags, ready, list, deferred>>
      BY <1>3, <2>1, Zenon DEF Detach
    <3> QED
      BY <3>1, PlacesSame, Zenon
  <2>2. CASE member[c] = "Online"
    <3>1. PICK gone, used :
              /\ gone \subseteq UNION {bags[c][k].nodes : k \in {k \in 0..2 : OldEnough(bags[c][k].tag)}}
              /\ used \subseteq ready[c]
              /\ bags' = [bags EXCEPT ![c] = [k \in 0..2 |->
                    IF bags[c][k].nodes # {} /\ bags[c][k].nodes \subseteq gone THEN EmptyBag
                    ELSE [tag |-> bags[c][k].tag, nodes |-> bags[c][k].nodes \ gone]]]
              /\ ready' = [ready EXCEPT ![c] = @ \ used]
              /\ list' = [list EXCEPT ![c] = gone \cup {r.node : r \in used}]
      BY <1>3, <2>2, ZenonT(30) DEF Detach
    <3>2. free' = free /\ deferred' = deferred /\ list[c] = {}
      BY <1>3, <1>a, Zenon DEF Detach, PinOK
    <3>3. ready'[c] = ready[c] \ used /\ list'[c] = gone \cup {r.node : r \in used}
      BY <1>a, <3>1, ZenonT(30) DEF TypeOK
    <3>4. \A n : \A k \in 0..2 : n \in bags'[c][k].nodes <=> n \in bags[c][k].nodes /\ n \notin gone
      BY <1>a, <3>1, Zenon DEF TypeOK, EmptyBag
    <3>5. OneRecord(c)'
      BY <1>a, <3>3, Zenon DEF OneRecord
    <3>6. \A n, d : d \in CPUs /\ d # c => (HasRecord(d, n)' <=> HasRecord(d, n))
      BY <1>c, Zenon DEF HasRecord
    <3>7. \A n : HasRecord(c, n)' <=> HasRecord(c, n) /\ \A r \in used : r.node # n
      BY <1>a, <3>1, <3>3, Zenon DEF OneRecord, HasRecord
    <3>8. \A n : n \in list'[c] <=> n \in gone \/ \E r \in used : r.node = n
      BY <3>3, ZenonT(30)
    <3>9. \A n \in gone : \E k \in 0..2 : n \in bags[c][k].nodes
      BY <3>1, Zenon
    <3>10. ASSUME NEW n \in Nodes, n \notin gone, \A r \in used : r.node # n
           PROVE  Stays(n)
      <4>1. \A d \in CPUs : SameAt(n, d)
        BY <1>b, <1>c, <3>2, <3>4, <3>6, <3>7, <3>8, <3>10 DEF SameAt
      <4> QED
        BY <1>b, <3>2, <4>1, StaysIs, Zenon
    <3>11. ASSUME NEW n \in Nodes, n \in gone
           PROVE  Moves(n, c, 7)
      <4>1. PICK k \in 0..2 : n \in bags[c][k].nodes
        BY <3>9, <3>11, Zenon
      <4>2. In(c, k + 3, n)
        BY <4>1 DEF In
      <4>3. Apart(n, c, k + 3)
        BY <4>2, ApartIs, SMTT(30)
      <4>4. MovedAt(n, c, 7)
        BY <1>b, <1>c, <3>2, <3>4, <3>6, <3>7, <3>8, <3>11, <4>3, SMTT(30) DEF Apart, MovedAt
      <4> QED
        BY <4>4, MovesIs
    <3>12. ASSUME NEW n \in Nodes, NEW r \in used, r.node = n
           PROVE  Moves(n, c, 7)
      <4>1. HasRecord(c, n)
        BY <3>1, <3>12, Zenon DEF HasRecord
      <4>2. In(c, 6, n)
        BY <4>1, Zenon DEF In
      <4>3. Apart(n, c, 6)
        BY <1>d, <4>2, ApartIs, Zenon
      <4>4. MovedAt(n, c, 7)
        BY <1>b, <1>c, <3>2, <3>4, <3>6, <3>7, <3>8, <3>12, <4>3, SMTT(30) DEF Apart, MovedAt
      <4> QED
        BY <4>4, MovesIs
    <3> QED
      BY <1>b, <1>c, <1>d, <1>e, <3>5, <3>10, <3>11, <3>12, PlacesOwn, SMTT(30)
  <2> QED
    BY <2>1, <2>2, Zenon
<1>4. CASE Callback(c)
  <2>1. PICK m \in list[c] :
            /\ list' = [list EXCEPT ![c] = @ \ {m}]
            /\ deferred' = [deferred EXCEPT ![c] = IF m \in Deferring THEN @ \cup {m} ELSE @]
            /\ free' = IF m \in Deferring THEN free ELSE free \cup {m}
    BY <1>4, Zenon DEF Callback
  <2>2. bags' = bags /\ ready' = ready
    BY <1>4, Zenon DEF Callback
  <2>3. /\ list'[c] = list[c] \ {m} /\ m \in Nodes
        /\ deferred'[c] = IF m \in Deferring THEN deferred[c] \cup {m} ELSE deferred[c]
    BY <1>a, <2>1, Zenon DEF TypeOK
  <2>4. \A n, d : HasRecord(d, n)' <=> HasRecord(d, n)
    BY <2>2, Zenon DEF HasRecord
  <2>5. OneRecord(c)'
    BY <1>a, <2>2, Zenon DEF OneRecord
  <2>6. ASSUME NEW n \in Nodes, n # m
        PROVE  Stays(n)
    <3>1. (n \in free' <=> n \in free) /\ (n \in deferred'[c] <=> n \in deferred[c]) /\ (n \in list'[c] <=> n \in list[c])
      BY <2>1, <2>3, <2>6
    <3>2. \A d \in CPUs : SameAt(n, d)
      BY <1>b, <1>c, <2>2, <2>4, <3>1, ZenonT(30) DEF SameAt
    <3> QED
      BY <1>b, <3>1, <3>2, StaysIs, Zenon
  <2>7. Apart(m, c, 7)
    <3>1. In(c, 7, m)
      BY <2>1, Zenon DEF In
    <3> QED
      BY <1>d, <2>3, <3>1, ApartIs, Zenon
  <2>8. CASE m \in Deferring
    <3>1. MovedAt(m, c, 8)
      BY <1>b, <1>c, <2>1, <2>2, <2>3, <2>4, <2>7, <2>8, SMTT(30) DEF Apart, MovedAt
    <3>2. Moves(m, c, 8)
      BY <3>1, MovesIs
    <3> QED
      BY <1>b, <1>c, <1>d, <1>e, <2>5, <2>6, <3>2, PlacesOwn, ZenonT(30)
  <2>9. CASE m \notin Deferring
    <3>1. MovedAt(m, 0, 9)
      BY <1>b, <1>c, <2>1, <2>2, <2>3, <2>4, <2>7, <2>9 DEF Apart, MovedAt
    <3>2. Moves(m, 0, 9)
      BY <3>1, MovesIs, ZeroIs
    <3> QED
      BY <1>b, <1>c, <1>d, <1>e, <2>5, <2>6, <3>2, PlacesOwn, ZeroIs, ZenonT(30)
  <2> QED
    BY <2>8, <2>9, Zenon
<1> QED
  BY <1>1, <1>2, <1>3, <1>4, Zenon DEF Drain

\* A CPU that goes offline hands over its bags, records and deferred drops, each
\* to the same place of the coordinator.
LEMMA PlacesMember ==
    ASSUME Inv, Places, NEW c \in CPUs, OfflineBegin(c) \/ OfflineTransfer(c) \/ Admit(c)
    PROVE  Places'
<1> USE DEF Go, readerVars, retireVars, drainVars, memberVars
<1>a. TypeOK /\ PinOK(c)
  BY Zenon DEF Inv, Control
<1>b. writer' = writer /\ root' = root /\ free' = free /\ list' = list
  BY Zenon DEF OfflineBegin, OfflineTransfer, Admit
<1>c. \A n : n \in {0, 1, 2, 3, 4, 5, 6, 7, 8, 9} => n \in 0..9
  OBVIOUS
<1>d. \A d \in CPUs : SectionNodes(d)'
  BY <1>b, Zenon DEF Places, SectionNodes
<1>1. CASE OfflineBegin(c)
  <2>1. UNCHANGED <<writer, root, free, bags, ready, list, deferred>>
    BY <1>1, Zenon DEF OfflineBegin
  <2> QED
    BY <2>1, PlacesSame, Zenon
<1>2. CASE Admit(c)
  <2>1. member[c] = "Offline" /\ deferred' = deferred
    BY <1>2, Zenon DEF Admit
  <2>2. ready[c] = {} /\ \A k \in 0..2 : bags[c][k].nodes = {}
    BY <1>a, <2>1, Zenon DEF PinOK
  <2>3. ready' = ready
    BY <1>2, <1>a, <2>2, Zenon DEF Admit, TypeOK
  <2>4. \A d \in CPUs : \A k \in 0..2 : bags'[d][k].nodes = bags[d][k].nodes
    BY <1>2, <1>a, <2>2, Zenon DEF Admit, TypeOK, EmptyBag
  <2>5. \A d \in CPUs : OneRecord(d)'
    BY <2>3, Zenon DEF Places, OneRecord
  <2>6. \A n, d : HasRecord(d, n)' <=> HasRecord(d, n)
    BY <2>3, Zenon DEF HasRecord
  <2>7. ASSUME NEW n \in Nodes
        PROVE  Stays(n)
    <3>1. \A d \in CPUs : SameAt(n, d)
      BY <1>b, <2>1, <2>4, <2>6 DEF SameAt
    <3> QED
      BY <1>b, <3>1, StaysIs, SMTT(30)
  <2> QED
    BY <1>d, <2>5, <2>7, PlacesStep
<1>3. CASE OfflineTransfer(c)
  <2>1. PICK t \in CPUs : t = scan[c].cpu /\ t # c
    BY <1>3, <1>a, Zenon DEF OfflineTransfer, PinOK
  <2>2. CASE UNCHANGED <<bags, ready, deferred>>
    BY <1>b, <2>2, PlacesSame, Zenon
  <2>3. CASE ~ UNCHANGED <<bags, ready, deferred>>
    <3>1. /\ bags' = [bags EXCEPT ![c] = [k \in 0..2 |-> MergedBag(bags[c][k], bags[t][k])],
                                  ![t] = [k \in 0..2 |-> EmptyBag]]
          /\ ready' = [ready EXCEPT ![c] = @ \cup ready[t], ![t] = {}]
          /\ deferred' = [deferred EXCEPT ![c] = @ \cup deferred[t], ![t] = {}]
      BY <1>3, <2>1, <2>3, ZenonT(30) DEF OfflineTransfer
    <3>2. ready'[c] = ready[c] \cup ready[t] /\ ready'[t] = {}
      BY <1>a, <2>1, <3>1, Zenon DEF TypeOK
    <3>3. deferred'[c] = deferred[c] \cup deferred[t] /\ deferred'[t] = {}
      BY <1>a, <2>1, <3>1, Zenon DEF TypeOK
    <3>4. \A n : \A k \in 0..2 : /\ n \in bags'[c][k].nodes <=> n \in bags[c][k].nodes \/ n \in bags[t][k].nodes
                                 /\ n \notin bags'[t][k].nodes
      <4>1. \A k \in 0..2 : bags'[c][k] = MergedBag(bags[c][k], bags[t][k]) /\ bags'[t][k] = EmptyBag
        BY <1>a, <2>1, <3>1, Zenon DEF TypeOK
      <4> QED
        BY <4>1 DEF MergedBag, EmptyBag
    <3>5. \A d \in CPUs : d # c /\ d # t => ready'[d] = ready[d] /\ deferred'[d] = deferred[d] /\ bags'[d] = bags[d]
      BY <1>a, <3>1, ZenonT(30) DEF TypeOK
    <3>6. \A n : (HasRecord(c, n)' <=> HasRecord(c, n) \/ HasRecord(t, n)) /\ ~HasRecord(t, n)'
      BY <3>2, Zenon DEF HasRecord
    <3>7. \A d \in CPUs : d # c /\ d # t => \A n : HasRecord(d, n)' <=> HasRecord(d, n)
      BY <3>5, Zenon DEF HasRecord
    <3>8. \A d \in CPUs : OneRecord(d)'
      <4>1. \A d \in CPUs : d # c /\ d # t => OneRecord(d)'
        BY <3>5, Zenon DEF Places, OneRecord
      <4>2. OneRecord(t)'
        BY <3>2, Zenon DEF OneRecord
      <4>3. \A r \in ready[c], q \in ready[t] : r.node # q.node
        <5> SUFFICES ASSUME NEW r \in ready[c], NEW q \in ready[t], r.node = q.node
                     PROVE  FALSE
          BY Zenon
        <5>1. r.node \in Nodes
          BY <1>a DEF TypeOK, Record
        <5>2. HasRecord(c, r.node) /\ HasRecord(t, r.node)
          BY Zenon DEF HasRecord
        <5>3. In(c, 6, r.node)
          BY <5>2, Zenon DEF In
        <5>4. Apart(r.node, c, 6)
          BY <1>c, <5>1, <5>3, ApartIs, Zenon
        <5> QED
          BY <2>1, <5>2, <5>4, Zenon DEF Apart
      <4>4. OneRecord(c)'
        <5>1. OneRecord(c) /\ OneRecord(t)
          BY Zenon DEF Places
        <5> SUFFICES ASSUME NEW r \in ready'[c], NEW q \in ready'[c], r.node = q.node
                     PROVE  r = q
          BY Zenon DEF OneRecord
        <5> QED
          BY <3>2, <4>3, <5>1, Zenon DEF OneRecord
      <4> QED
        BY <4>1, <4>2, <4>4, Zenon
    <3>a. ASSUME NEW n \in Nodes, NEW d \in CPUs
          PROVE  /\ \A k \in 0..2 : n \in bags'[d][k].nodes <=>
                                       d # t /\ (n \in bags[d][k].nodes \/ (d = c /\ n \in bags[t][k].nodes))
                 /\ HasRecord(d, n)' <=> d # t /\ (HasRecord(d, n) \/ (d = c /\ HasRecord(t, n)))
                 /\ n \in deferred'[d] <=> d # t /\ (n \in deferred[d] \/ (d = c /\ n \in deferred[t]))
      <4>1. CASE d = c
        BY <2>1, <3>3, <3>4, <3>6, <4>1, ZenonT(30)
      <4>2. CASE d = t
        BY <3>3, <3>4, <3>6, <4>2, Zenon
      <4>3. CASE d # c /\ d # t
        BY <3>5, <3>7, <4>3, Zenon
      <4> QED
        BY <4>1, <4>2, <4>3, Zenon
    <3>9. ASSUME NEW n \in Nodes, \A k \in 0..2 : n \notin bags[t][k].nodes, ~HasRecord(t, n), n \notin deferred[t]
          PROVE  Stays(n)
      <4>1. \A d \in CPUs : SameAt(n, d)
        <5>1. SameAt(n, c)
          BY <1>b, <3>3, <3>4, <3>6, <3>9, SMTT(30) DEF SameAt
        <5>2. SameAt(n, t)
          BY <1>b, <3>3, <3>4, <3>6, <3>9 DEF SameAt
        <5>3. \A d \in CPUs : d # c /\ d # t => SameAt(n, d)
          BY <1>b, <3>5, <3>7, ZenonT(30) DEF SameAt
        <5> QED
          BY <5>1, <5>2, <5>3, ZenonT(30)
      <4> QED
        BY <1>b, <4>1, StaysIs, Zenon
    <3>10. ASSUME NEW n \in Nodes, NEW k \in 0..2, n \in bags[t][k].nodes
           PROVE  Moves(n, c, k + 3)
      <4>1. In(t, k + 3, n)
        BY <3>10 DEF In
      <4>2. Apart(n, t, k + 3)
        BY <4>1, ApartIs, SMTT(30)
      <4>3. MovedAt(n, c, k + 3)
        <5>1. /\ n # root /\ n \notin free
              /\ \A d \in CPUs : /\ n \notin writer[d].fresh /\ n \notin writer[d].nodes /\ n \notin list[d]
                                 /\ ~HasRecord(d, n) /\ n \notin deferred[d]
              /\ \A d \in CPUs : \A j \in 0..2 : n \in bags[d][j].nodes <=> d = t /\ j = k
          BY <3>10, <4>2 DEF Apart
        <5>2. \A d \in CPUs : \A j \in 0..2 : n \in bags'[d][j].nodes <=> d = c /\ j = k
          BY <2>1, <3>a, <5>1
        <5>3. \A d \in CPUs : ~HasRecord(d, n)' /\ n \notin deferred'[d]
          BY <2>1, <3>a, <5>1
        <5> QED
          BY <1>b, <5>1, <5>2, <5>3 DEF MovedAt
      <4> QED
        BY <4>3, MovesIs
    <3>11. ASSUME NEW n \in Nodes, HasRecord(t, n)
           PROVE  Moves(n, c, 6)
      <4>1. In(t, 6, n)
        BY <3>11, Zenon DEF In
      <4>2. Apart(n, t, 6)
        BY <1>c, <4>1, ApartIs, ZenonT(30)
      <4>3. MovedAt(n, c, 6)
        <5>1. /\ n # root /\ n \notin free
              /\ \A d \in CPUs : /\ n \notin writer[d].fresh /\ n \notin writer[d].nodes /\ n \notin list[d]
                                 /\ ~(n \in deferred[d]) /\ (HasRecord(d, n) <=> d = t)
              /\ \A d \in CPUs : \A j \in 0..2 : n \notin bags[d][j].nodes
          BY <3>11, <4>2 DEF Apart
        <5>2. \A d \in CPUs : \A j \in 0..2 : n \notin bags'[d][j].nodes
          BY <3>a, <5>1, ZenonT(30)
        <5>3. \A d \in CPUs : ~(n \in deferred'[d]) /\ (HasRecord(d, n)' <=> d = c)
          BY <2>1, <3>a, <5>1
        <5> QED
          BY <1>b, <5>1, <5>2, <5>3 DEF MovedAt
      <4> QED
        BY <4>3, MovesIs
    <3>12. ASSUME NEW n \in Nodes, n \in deferred[t]
           PROVE  Moves(n, c, 8)
      <4>1. In(t, 8, n)
        BY <3>12, Zenon DEF In
      <4>2. Apart(n, t, 8)
        BY <1>c, <4>1, ApartIs, ZenonT(30)
      <4>3. MovedAt(n, c, 8)
        <5>1. /\ n # root /\ n \notin free
              /\ \A d \in CPUs : /\ n \notin writer[d].fresh /\ n \notin writer[d].nodes /\ n \notin list[d]
                                 /\ ~(HasRecord(d, n)) /\ (n \in deferred[d] <=> d = t)
              /\ \A d \in CPUs : \A j \in 0..2 : n \notin bags[d][j].nodes
          BY <3>12, <4>2 DEF Apart
        <5>2. \A d \in CPUs : \A j \in 0..2 : n \notin bags'[d][j].nodes
          BY <3>a, <5>1, ZenonT(30)
        <5>3. \A d \in CPUs : ~(HasRecord(d, n)') /\ (n \in deferred'[d] <=> d = c)
          BY <2>1, <3>a, <5>1
        <5> QED
          BY <1>b, <5>1, <5>2, <5>3 DEF MovedAt
      <4> QED
        BY <4>3, MovesIs
    <3>13. \A k \in 0..2 : k + 3 \in 0..9
      BY SMTT(30)
    <3> QED
      BY <1>c, <1>d, <3>8, <3>9, <3>10, <3>11, <3>12, <3>13, PlacesStep, Zenon
  <2> QED
    BY <2>2, <2>3, Zenon
<1> QED
  BY <1>1, <1>2, <1>3

\* All nodes but the root are free at first.
LEMMA InitPlaces == Init => Places
<1> SUFFICES ASSUME Init PROVE Places
  OBVIOUS
<1>1. \A c \in CPUs : writer[c].at = "None" /\ writer[c].fresh = {} /\ writer[c].nodes = {}
  BY Zenon DEF Init, NoWriter
<1>2. \A c \in CPUs : ready[c] = {} /\ list[c] = {} /\ deferred[c] = {}
  BY Zenon DEF Init
<1>3. \A c \in CPUs : \A k \in 0..2 : bags[c][k].nodes = {}
  BY Zenon DEF Init, EmptyBag
<1>4. free = Nodes \ {root} /\ root \in Nodes
  BY EpochAssumption, Zenon DEF Init
<1>5. \A c \in CPUs : SectionNodes(c) /\ OneRecord(c)
  BY <1>1, <1>2, Zenon DEF SectionNodes, OneRecord
<1>6. ASSUME NEW n \in Nodes
      PROVE  Placed(n)
  <2>1. \A d \in CPUs : ~HasRecord(d, n)
    BY <1>2, Zenon DEF HasRecord
  <2>2. \A d \in CPUs, j \in 0..9 : In(d, j, n) <=> d = 0 /\ j = (IF n = root THEN 0 ELSE 9)
    <3> SUFFICES ASSUME NEW d \in CPUs, NEW j \in 0..9
                 PROVE  In(d, j, n) <=> d = 0 /\ j = (IF n = root THEN 0 ELSE 9)
      BY Zenon
    <3>1. n \notin bags[d][0].nodes /\ n \notin bags[d][1].nodes /\ n \notin bags[d][2].nodes
      BY <1>3, SMTT(30)
    <3>2. In(d, j, n) <=> d = 0 /\ ((j = 0 /\ n = root) \/ (j = 9 /\ n \in free))
      BY <1>1, <1>2, <2>1, <3>1, Zenon DEF In
    <3> QED
      BY <1>4, <3>2, Zenon
  <2>3. (IF n = root THEN 0 ELSE 9) \in 0..9
    OBVIOUS
  <2> QED
    BY <2>2, <2>3, ZeroIs, Zenon DEF Placed
<1> QED
  BY <1>5, <1>6, Zenon DEF Places

\* Every step keeps the places.
LEMMA NextPlaces == Inv /\ Places /\ [Next]_vars => Places'
<1> SUFFICES ASSUME Inv, Places, [Next]_vars PROVE Places'
  OBVIOUS
<1>1. CASE Next
  <2>1. PICK c \in CPUs :
            \/ Reader(c) \/ Reserve(c) \/ CancelReservation(c) \/ BeginRetire(c) \/ Writer(c) \/ Drain(c)
            \/ OfflineBegin(c) \/ OfflineTransfer(c) \/ Admit(c)
    BY <1>1, Zenon DEF Next
  <2>2. CASE Reader(c) \/ Reserve(c) \/ CancelReservation(c)
    <3>1. UNCHANGED <<writer, root, free, bags, ready, list, deferred>>
      BY <2>2, ZenonT(30) DEF readerVars, retireVars, drainVars, memberVars,
         Reader, GuardLoad, GuardEnter, GuardValidate, GuardRepublish, Read, GuardDrop, Reserve, CancelReservation
    <3> QED
      BY <3>1, PlacesSame, Zenon
  <2>3. CASE BeginRetire(c) \/ Writer(c)
    BY <2>3, PlacesWriter, Zenon
  <2>4. CASE Drain(c)
    BY <2>4, PlacesDrain, Zenon
  <2>5. CASE OfflineBegin(c) \/ OfflineTransfer(c) \/ Admit(c)
    BY <2>5, PlacesMember, Zenon
  <2> QED
    BY <2>1, <2>2, <2>3, <2>4, <2>5, Zenon
<1>2. CASE UNCHANGED vars
  <2>1. UNCHANGED <<writer, root, free, bags, ready, list, deferred>>
    BY <1>2, Zenon DEF vars, readerVars, retireVars, drainVars, memberVars
  <2> QED
    BY <2>1, PlacesSame, Zenon
<1> QED
  BY <1>1, <1>2, Zenon

\* Every node is in one place in every behaviour.
LEMMA PlacesHolds == Spec => []Places
  BY InitPlaces, NextPlaces, InvHolds, PTL DEF Spec

\* No element counts for zero and one for one: what the count of the places a
\* node is kept in comes down to.
LEMMA SmallCardinality == Cardinality({}) = 0 /\ \A x : Cardinality({x}) = 1
<1> DEFINE P(S, f) == f = [T \in SUBSET S |-> IF T = {} THEN 0 ELSE 1 + f[T \ {CHOOSE y : y \in T}]]
<1>1. ASSUME NEW S, NEW f, P(S, f)
      PROVE  /\ f[{}] = 0
             /\ S # {} => f[S] = 1 + f[S \ {CHOOSE y : y \in S}]
  <2>1. {} \in SUBSET S /\ S \in SUBSET S
    BY Zenon
  <2> QED
    BY <1>1, <2>1, Zenon
<1>2. \A x : x = (CHOOSE y : y \in {x}) /\ {x} \ {CHOOSE y : y \in {x}} = {}
  OBVIOUS
<1>3. Cardinality({}) = 0
  <2>1. P({}, [T \in SUBSET {} |-> 0])
    OBVIOUS
  <2>2. P({}, CHOOSE f : P({}, f))
    BY <2>1, Zenon
  <2>3. (CHOOSE f : P({}, f))[{}] = 0
    BY <1>1, <2>2, Zenon
  <2> QED
    BY <2>3, Zenon DEF Cardinality
<1>4. ASSUME NEW x
      PROVE  Cardinality({x}) = 1
  <2>1. \A T \in SUBSET {x} : T = {} \/ T = {x}
    OBVIOUS
  <2>2. P({x}, [T \in SUBSET {x} |-> IF T = {} THEN 0 ELSE 1])
    BY <1>2, <2>1
  <2>3. P({x}, CHOOSE g : P({x}, g))
    BY <2>2, Zenon
  <2> DEFINE f == CHOOSE g : P({x}, g)
  <2>4. {x} # {}
    OBVIOUS
  <2>5. f[{}] = 0 /\ f[{x}] = 1 + f[{x} \ {CHOOSE y : y \in {x}}]
    <3> HIDE DEF P, f
    <3> QED
      BY <1>1, <2>3, <2>4, Zenon DEF f
  <2>6. f[{x}] = 1
    <3> HIDE DEF f
    <3>1. f[{x}] = 1 + 0
      BY <1>2, <2>5, Zenon
    <3> QED
      BY <3>1
  <2> QED
    BY <2>6, Zenon DEF Cardinality
<1> QED
  BY <1>3, <1>4, Zenon

\* The places as the property OnePlace lists them.
LEMMA KeptIs ==
    ASSUME NEW c, NEW i \in 1..8, NEW n
    PROVE  n \in Kept(c)[i] <=> In(c, i, n)
<1>1. n \in {r.node : r \in ready[c]} <=> HasRecord(c, n)
  BY Zenon DEF HasRecord
<1>2. i = 1 \/ i = 2 \/ i = 3 \/ i = 4 \/ i = 5 \/ i = 6 \/ i = 7 \/ i = 8
  OBVIOUS
<1> DEFINE R == {r.node : r \in ready[c]}
<1>3. n \in R <=> HasRecord(c, n)
  BY <1>1
<1>4. Kept(c) = <<writer[c].fresh, writer[c].nodes, bags[c][0].nodes, bags[c][1].nodes, bags[c][2].nodes,
                  R, list[c], deferred[c]>>
  BY Zenon DEF Kept
<1> HIDE DEF R
<1> QED
  BY <1>2, <1>3, <1>4 DEF In

\* No node is lost and none is destroyed twice: retiring, draining, deferring and
\* the handover of a CPU that goes offline keep each node in exactly one place.
THEOREM NodesAreInOnePlace == Spec => []OnePlace
<1>1. ASSUME Places, NEW n \in Nodes
      PROVE  (IF n = root THEN 1 ELSE 0) + (IF n \in free THEN 1 ELSE 0)
             + Cardinality({p \in CPUs \X (1..8) : n \in Kept(p[1])[p[2]]}) = 1
  <2> DEFINE K == {p \in CPUs \X (1..8) : n \in Kept(p[1])[p[2]]}
  <2>1. PICK c \in CPUs, i \in 0..9 : \A d \in CPUs, j \in 0..9 : In(d, j, n) <=> d = c /\ j = i
    BY <1>1, Zenon DEF Places, Placed
  <2>2. K = {p \in CPUs \X (1..8) : p[1] = c /\ p[2] = i}
    <3>1. ASSUME NEW p \in CPUs \X (1..8)
          PROVE  n \in Kept(p[1])[p[2]] <=> p[1] = c /\ p[2] = i
      <4>1. p[1] \in CPUs /\ p[2] \in 1..8 /\ p[2] \in 0..9
        OBVIOUS
      <4> QED
        BY <2>1, <4>1, KeptIs, ZenonT(30)
    <3> QED
      BY <3>1, Zenon
  <2>3. (n = root <=> c = 0 /\ i = 0) /\ (n \in free <=> c = 0 /\ i = 9)
    <3>1. (In(0, 0, n) <=> n = root) /\ (In(0, 9, n) <=> n \in free)
      BY DEF In
    <3>2. 0 \in 0..9 /\ 9 \in 0..9
      BY SMTT(30)
    <3> QED
      BY <2>1, <3>1, <3>2, ZeroIs, Zenon
  <2>4. i \in {0, 9} => c = 0
    <3>1. In(c, i, n)
      BY <2>1, Zenon
    <3> QED
      BY <3>1 DEF In
  <2>5. CASE i \in {0, 9}
    <3>1. K = {}
      BY <2>2, <2>5
    <3>2. Cardinality(K) = 0
      <4>1. Cardinality({}) = 0
        BY SmallCardinality, Zenon
      <4> QED
        BY <3>1, <4>1, Zenon
    <3> HIDE DEF K
    <3>3. (n = root /\ n \notin free) \/ (n # root /\ n \in free)
      BY <2>3, <2>4, <2>5
    <3>4. (IF n = root THEN 1 ELSE 0) + (IF n \in free THEN 1 ELSE 0) + Cardinality(K) = 1
      BY <3>2, <3>3
    <3> QED
      BY <3>4, Zenon DEF K
  <2>6. CASE i \notin {0, 9}
    <3>1. K = {<<c, i>>}
      BY <2>2, <2>6
    <3>2. Cardinality(K) = 1
      BY <3>1, SmallCardinality, Zenon
    <3> HIDE DEF K
    <3>3. n # root /\ n \notin free
      BY <2>3, <2>6, Zenon
    <3>4. (IF n = root THEN 1 ELSE 0) + (IF n \in free THEN 1 ELSE 0) + Cardinality(K) = 1
      BY <3>2, <3>3
    <3> QED
      BY <3>4, Zenon DEF K
  <2> QED
    BY <2>5, <2>6, Zenon
<1>2. Places => OnePlace
  BY <1>1, Zenon DEF OnePlace
<1> QED
  BY <1>2, PlacesHolds, PTL
=============================================================================
