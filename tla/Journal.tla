------------------------------ MODULE Journal ------------------------------
(***************************************************************************)
(* The ext4 metadata journal: the ring and its transaction graphs          *)
(* (tx-ext4/src/journal.rs), the life of one admitted mutation             *)
(* (mutation_lifecycle.rs, settlement.rs), and the replay at mount time    *)
(* (tx-ext4-format/src/journal_replay.rs, mount.rs).                       *)
(*                                                                         *)
(* The device has a volatile write cache: a write is durable once a        *)
(* barrier completes after it, and a crash keeps any subset of the writes  *)
(* that no barrier has covered.  The nodes of a graph run in any order its *)
(* edges allow (BackendGraphScheduler); the foreground settlement takes    *)
(* one of these orders (execute_bio_graph).                                *)
(*                                                                         *)
(* Contents are transaction numbers: block h holds the after-image of the  *)
(* transaction disk[<<"home", h>>].  Revoke pages are left out.            *)
(***************************************************************************)
EXTENDS Integers, Sequences, FiniteSets, FiniteSetsExt, Functions

CONSTANTS
    Homes,       \* the metadata blocks (numbers)
    Mutations,   \* what a mutation may be: the blocks it changes in the order of
                 \* their tags, and whether it carries file data
    LogLen,      \* the log blocks are 1..LogLen; block 0 is the superblock
    MaxTx,       \* bound: mutations begun
    MaxCrashes,  \* bound: power losses
    MaxErrors,   \* bound: device errors
    FailingPaths \* the paths whose commit graph may meet a device error

VARIABLES
    disk,    \* durable contents, by address
    shown,   \* history: Recovered(disk), the metadata blocks a mount would show
    cache,   \* writes the device has taken that no barrier has covered
    mount,   \* "Down", the steps of a mount, "Mounted"
    scan,    \* replay: log position, expected sequence, blocks scanned
    ring,    \* JournalRingState: cursor and sequence
    phase,   \* MutationPhase of the admitted mutation; "None" without one
    cur,     \* the admitted mutation
    graph,   \* the bio graph that runs for it: kind, who commits ("Settle": the
             \* foreground settlement, "L6": an fsync request), nodes left, edges
    nextTx,  \* number of the next mutation
    ordered, \* history: the mutations that carry file data
    crashes, errors

vars == <<disk, shown, cache, mount, scan, ring, phase, cur, graph, nextTx, ordered, crashes, errors>>

Txs == 1..MaxTx

ASSUME ConstantsAssumption ==
    /\ Homes \subseteq Nat /\ IsFiniteSet(Homes)
    /\ Mutations \subseteq [tags : Seq(Homes) \ {<<>>}, data : BOOLEAN]
    /\ \A m \in Mutations : IsInjective(m.tags) /\ Len(m.tags) + 2 <= LogLen
    /\ {LogLen, MaxTx, MaxCrashes, MaxErrors} \subseteq Nat
    /\ FailingPaths \subseteq {"Settle", "L6"}

\* Addresses: the recovery bit of the ext4 superblock, the journal superblock,
\* the log, the metadata blocks, and one file block per mutation.
Flag == <<"flag", 0>>
Super == <<"super", 0>>
Log(i) == <<"log", i>>
Home(h) == <<"home", h>>
Data(t) == <<"data", t>>
Addresses == {Flag, Super} \cup {Log(i) : i \in 1..LogLen}
             \cup {Home(h) : h \in Homes} \cup {Data(t) : t \in Txs}

\* Log records.  A payload page never parses as a record: its magic is escaped.
Descriptor(seq, tags) == [kind |-> "Descriptor", seq |-> seq, tags |-> tags, val |-> 0]
Payload(t)  == [kind |-> "Payload", seq |-> 0, tags |-> <<>>, val |-> t]
Commit(seq) == [kind |-> "Commit", seq |-> seq, tags |-> <<>>, val |-> 0]
Blank       == Payload(0)

NoTx    == [id |-> 0, tags |-> <<>>, data |-> FALSE, seq |-> 0, at |-> 0]
NoGraph == [kind |-> "None", path |-> "None", nodes |-> {}, edges |-> {}]
NoScan  == [at |-> 0, seq |-> 0, blocks |-> 0]
Empty   == [a \in {} |-> 0]

Over(f, g) == [a \in DOMAIN f \cup DOMAIN g |-> IF a \in DOMAIN g THEN g[a] ELSE f[a]]

\* A file system as mkfs leaves it: no recovery bit, an empty journal.
Init ==
    /\ disk = [a \in Addresses |->
                  CASE a = Super -> [seq |-> 1, start |-> 0]
                    [] a[1] = "log" -> Blank
                    [] OTHER -> 0]
    /\ shown = [h \in Homes |-> 0]
    /\ cache = Empty
    /\ mount = "Down"
    /\ scan = NoScan
    /\ ring = [cursor |-> 1, seq |-> 1]
    /\ phase = "None"
    /\ cur = NoTx
    /\ graph = NoGraph
    /\ nextTx = 1
    /\ ordered = {}
    /\ crashes = 0 /\ errors = 0

-----------------------------------------------------------------------------
(* What replay_journal restores.                                           *)

\* advance, k times.
Advance(i, k) == ((i - 1 + k) % LogLen) + 1

\* replay_journal finds a whole transaction at the scan position s of disk d:
\* a descriptor with the expected sequence and the commit record behind its
\* payloads with the same sequence.
WholeRecord(d, s) ==
    LET desc == d[Log(s.at)]
        commit == d[Log(Advance(s.at, Len(desc.tags) + 1))] IN
    /\ s.blocks < LogLen
    /\ desc.kind = "Descriptor" /\ desc.seq = s.seq
    /\ Len(desc.tags) + 2 <= LogLen - s.blocks
    /\ commit.kind = "Commit" /\ commit.seq = desc.seq

\* The home writes of the transaction at s.
Replayed(d, s) ==
    LET tags == d[Log(s.at)].tags IN
    [a \in {Home(tags[i]) : i \in DOMAIN tags} |->
        LET i == CHOOSE i \in DOMAIN tags : Home(tags[i]) = a
        IN  d[Log(Advance(s.at, i))].val]

AfterRecord(d, s) ==
    LET size == Len(d[Log(s.at)].tags) + 2 IN
    [at |-> Advance(s.at, size), seq |-> s.seq + 1, blocks |-> s.blocks + size]

ScanStart(d) == [at |-> d[Super].start, seq |-> d[Super].seq, blocks |-> 0]

\* The metadata blocks a mount of the durable contents d would show: each
\* block as the last of the whole transactions in a row leaves it.
Recovered(d) ==
    LET scanAt[n \in 0..LogLen] ==
            IF n = 0 THEN ScanStart(d) ELSE AfterRecord(d, scanAt[n - 1])
        replays == d[Flag] = 1 /\ d[Super].start # 0
        records == {n \in 0..(LogLen \div 3) :
                       replays /\ \A m \in 0..n : WholeRecord(d, scanAt[m])}
        writes(h) == {n \in records : Home(h) \in DOMAIN Replayed(d, scanAt[n])}
    IN  [h \in Homes |->
            IF writes(h) = {} THEN d[Home(h)]
            ELSE Replayed(d, scanAt[Max(writes(h))])[Home(h)]]

-----------------------------------------------------------------------------
(* The device.                                                             *)

Put(a, content) == cache' = Over(cache, [x \in {a} |-> content]) /\ UNCHANGED <<disk, shown>>

Medium(d) == disk' = d /\ shown' = Recovered(disk')

Barrier == Medium(Over(disk, cache)) /\ cache' = Empty

\* The part of the writes w that reaches the medium without a barrier.
Persist(w, kept) == Medium(Over(disk, Restrict(w, kept)))

-----------------------------------------------------------------------------
(* Mounting.                                                               *)

\* recover_if_required: a log that was not closed is scanned.
MountStart ==
    /\ mount = "Down"
    /\ scan' = ScanStart(disk)
    /\ mount' = IF disk[Flag] = 0 THEN "Mark"
                ELSE IF disk[Super].start = 0 THEN "Clean" ELSE "Scan"
    /\ UNCHANGED <<disk, shown, cache, ring, phase, cur, graph, nextTx, ordered, crashes, errors>>

\* The whole transaction at the scan position is written home.
ReplayRecord ==
    /\ mount = "Scan"
    /\ WholeRecord(disk, scan)
    /\ cache' = Over(cache, Replayed(disk, scan))
    /\ mount' = "ReplayBarrier"
    /\ UNCHANGED <<disk, shown, scan, ring, phase, cur, graph, nextTx, ordered, crashes, errors>>

ReplayBarrier ==
    /\ mount = "ReplayBarrier"
    /\ Barrier
    /\ scan' = AfterRecord(disk, scan)
    /\ mount' = "Scan"
    /\ UNCHANGED <<ring, phase, cur, graph, nextTx, ordered, crashes, errors>>

\* The first log block that starts no whole transaction ends the scan.
ReplayEnds ==
    /\ mount = "Scan"
    /\ ~WholeRecord(disk, scan)
    /\ mount' = "Clean"
    /\ UNCHANGED <<disk, shown, cache, scan, ring, phase, cur, graph, nextTx, ordered, crashes, errors>>

\* clean_replayed_journal: one block and a barrier, so one durable step.
CleanReplayed ==
    /\ mount = "Clean"
    /\ Medium([disk EXCEPT ![Super] = [seq |-> scan.seq, start |-> 0]])
    /\ mount' = "Mark"
    /\ UNCHANGED <<cache, scan, ring, phase, cur, graph, nextTx, ordered, crashes, errors>>

\* mark_recovery_required and the ring of the new mount.
MountDone ==
    /\ mount = "Mark"
    /\ Medium([disk EXCEPT ![Flag] = 1])
    /\ ring' = [cursor |-> 1, seq |-> disk[Super].seq]
    /\ mount' = "Mounted"
    /\ scan' = NoScan
    /\ UNCHANGED <<cache, phase, cur, graph, nextTx, ordered, crashes, errors>>

MountStep == MountStart \/ ReplayRecord \/ ReplayBarrier \/ ReplayEnds
             \/ CleanReplayed \/ MountDone

-----------------------------------------------------------------------------
(* The life of a mutation.                                                 *)

\* JournalRing::reserve and begin_handle: one mutation at a time; a record
\* that does not fit before the end of the log starts at its first block.
Begin(tags, data) ==
    /\ mount = "Mounted" /\ phase = "None"
    /\ nextTx <= MaxTx
    /\ cur' = [id |-> nextTx, tags |-> tags, data |-> data, seq |-> ring.seq,
               at |-> IF ring.cursor + Len(tags) + 2 > LogLen + 1 THEN 1 ELSE ring.cursor]
    /\ phase' = IF data THEN "Admitted" ELSE "Prepared"
    /\ ordered' = IF data THEN ordered \cup {nextTx} ELSE ordered
    /\ nextTx' = nextTx + 1
    /\ UNCHANGED <<disk, shown, cache, mount, scan, ring, graph, crashes, errors>>

\* data_graph.
DataGraph ==
    [kind |-> "Data", path |-> "None", nodes |-> {<<"Data", 0>>, <<"DataFence", 0>>},
     edges |-> {<<<<"Data", 0>>, <<"DataFence", 0>>>>}]

\* Mutant: the commit record does not wait for the fence behind the log writes.
CommitGraphUnfenced(path) ==
    LET metas == {<<"Meta", i>> : i \in DOMAIN cur.tags}
        record == metas \cup {<<"Descriptor", 0>>}
    IN  [kind |-> "Commit", path |-> path,
         nodes |-> record \cup {<<"Activate", 0>>, <<"ActivationFence", 0>>,
                                <<"Commit", 0>>, <<"CommitFlush", 0>>},
         edges |-> (record \X {<<"Commit", 0>>})
                   \cup {<<<<"Activate", 0>>, <<"ActivationFence", 0>>>>,
                         <<<<"ActivationFence", 0>>, <<"Descriptor", 0>>>>,
                         <<<<"Commit", 0>>, <<"CommitFlush", 0>>>>}]

\* commit_graph_after_data: the payloads do not wait for the activation fence.
CommitGraph(path) ==
    LET metas == {<<"Meta", i>> : i \in DOMAIN cur.tags}
        record == metas \cup {<<"Descriptor", 0>>}
    IN  [kind |-> "Commit", path |-> path,
         nodes |-> record \cup {<<"Activate", 0>>, <<"ActivationFence", 0>>,
                                <<"JournalFence", 0>>, <<"Commit", 0>>, <<"CommitFlush", 0>>},
         edges |-> (record \X {<<"JournalFence", 0>>})
                   \cup {<<<<"Activate", 0>>, <<"ActivationFence", 0>>>>,
                         <<<<"ActivationFence", 0>>, <<"Descriptor", 0>>>>,
                         <<<<"JournalFence", 0>>, <<"Commit", 0>>>>,
                         <<<<"Commit", 0>>, <<"CommitFlush", 0>>>>}]

\* Mutant: the clean superblock does not wait for the fence behind the homes.
CheckpointGraphUnfenced ==
    LET homes == {<<"Home", i>> : i \in DOMAIN cur.tags}
    IN  [kind |-> "Checkpoint", path |-> "None",
         nodes |-> homes \cup {<<"Clean", 0>>, <<"CleanFlush", 0>>},
         edges |-> (homes \X {<<"Clean", 0>>}) \cup {<<<<"Clean", 0>>, <<"CleanFlush", 0>>>>}]

\* checkpoint_graph_after_commit.
CheckpointGraph ==
    LET homes == {<<"Home", i>> : i \in DOMAIN cur.tags}
    IN  [kind |-> "Checkpoint", path |-> "None",
         nodes |-> homes \cup {<<"CheckpointFence", 0>>, <<"Clean", 0>>, <<"CleanFlush", 0>>},
         edges |-> (homes \X {<<"CheckpointFence", 0>>})
                   \cup {<<<<"CheckpointFence", 0>>, <<"Clean", 0>>>>,
                         <<<<"Clean", 0>>, <<"CleanFlush", 0>>>>}]

IsFence(n) == n[1] \in {"DataFence", "ActivationFence", "JournalFence", "CommitFlush",
                        "CheckpointFence", "CleanFlush"}

Target(n) ==
    CASE n[1] = "Data" -> Data(cur.id)
      [] n[1] \in {"Activate", "Clean"} -> Super
      [] n[1] = "Descriptor" -> Log(cur.at)
      [] n[1] = "Meta" -> Log(cur.at + n[2])
      [] n[1] = "Commit" -> Log(cur.at + Len(cur.tags) + 1)
      [] n[1] = "Home" -> Home(cur.tags[n[2]])

Content(n) ==
    CASE n[1] = "Data" -> 1
      [] n[1] = "Activate" -> [seq |-> cur.seq, start |-> cur.at]
      [] n[1] = "Clean" -> [seq |-> cur.seq + 1, start |-> 0]
      [] n[1] = "Descriptor" -> Descriptor(cur.seq, cur.tags)
      [] n[1] = "Meta" -> Payload(cur.id)
      [] n[1] = "Commit" -> Commit(cur.seq)
      [] n[1] = "Home" -> cur.id

\* Mutant: a node with predecessors is never submitted.
SubmittedSources == {n \in graph.nodes : \A e \in graph.edges : e[2] # n}

\* The nodes whose predecessors are complete: all of them are submitted.
Submitted == {n \in graph.nodes : \A m \in graph.nodes : <<m, n>> \notin graph.edges}

RunNode(n) ==
    /\ n \in Submitted
    /\ IF IsFence(n) THEN Barrier ELSE Put(Target(n), Content(n))
    /\ graph' = [graph EXCEPT !.nodes = @ \ {n}]
    /\ UNCHANGED <<mount, scan, ring, phase, cur, nextTx, ordered, crashes, errors>>

Idle == graph.kind = "None"
Finished(kind) == graph.kind = kind /\ graph.nodes = {}

\* plan_data, from plan_writeback or from settle_ordered_data.  prepare_data also
\* takes a Prepared mutation, but none gets there twice: the writeback keeps the
\* mutation permit until its data is complete, every settlement holds it, and a
\* settlement plans data only where plan_fsync refused, never for a Prepared one.
StartData ==
    /\ phase = "Admitted" /\ Idle
    /\ phase' = "Prepared"
    /\ graph' = DataGraph
    /\ UNCHANGED <<disk, shown, cache, mount, scan, ring, cur, nextTx, ordered, crashes, errors>>

\* Mutant: a commit may be planned before the data graph is complete.
StartCommitEarly(path) ==
    /\ phase \in {"Admitted", "Prepared"} /\ Idle
    /\ phase' = "CommitPending"
    /\ graph' = CommitGraph(path)
    /\ UNCHANGED <<disk, shown, cache, mount, scan, ring, cur, nextTx, ordered, crashes, errors>>

\* plan_fsync, prepare_commit: refused while a data request is out.
StartCommit(path) ==
    /\ phase = "Prepared" /\ Idle
    /\ phase' = "CommitPending"
    /\ graph' = CommitGraph(path)
    /\ UNCHANGED <<disk, shown, cache, mount, scan, ring, cur, nextTx, ordered, crashes, errors>>

\* take_checkpoint_graph, right after the commit on either path.
StartCheckpoint ==
    /\ phase = "CommittedNeedsSettlement" /\ Idle
    /\ phase' = "CheckpointPending"
    /\ graph' = CheckpointGraph
    /\ UNCHANGED <<disk, shown, cache, mount, scan, ring, cur, nextTx, ordered, crashes, errors>>

\* JournalRing::complete(true).
Reclaimed ==
    LET end == cur.at + Len(cur.tags) + 2 IN
    [cursor |-> IF end = LogLen + 1 THEN 1 ELSE end, seq |-> ring.seq + 1]

DataDone ==
    /\ Finished("Data")
    /\ graph' = NoGraph
    /\ UNCHANGED <<disk, shown, cache, mount, scan, ring, phase, cur, nextTx, ordered, crashes, errors>>

\* complete_fsync(Done): the caller of fsync is told that it is durable.
CommitDone ==
    /\ Finished("Commit")
    /\ phase' = "CommittedNeedsSettlement"
    /\ graph' = NoGraph
    /\ UNCHANGED <<disk, shown, cache, mount, scan, ring, cur, nextTx, ordered, crashes, errors>>

\* complete_checkpoint_result(Ok): the observer runs without the lock.
CheckpointDone ==
    /\ Finished("Checkpoint")
    /\ phase' = "TailReclaimPending"
    /\ graph' = NoGraph
    /\ UNCHANGED <<disk, shown, cache, mount, scan, ring, cur, nextTx, ordered, crashes, errors>>

\* complete_tail_reclaim.
TailReclaim ==
    /\ phase = "TailReclaimPending"
    /\ ring' = Reclaimed
    /\ phase' = "None" /\ cur' = NoTx
    /\ UNCHANGED <<disk, shown, cache, mount, scan, graph, nextTx, ordered, crashes, errors>>

\* A node fails.  Nothing more is submitted; each of the requests that are out,
\* the failed one included, may have reached the device or not, and any of the
\* cached writes may have reached the medium.
DeviceError ==
    /\ errors < MaxErrors
    /\ \E n \in Submitted :
         \E done \in SUBSET {m \in Submitted : ~IsFence(m)} :
           LET wrote == Over(cache, [a \in {Target(m) : m \in done} |->
                                        Content(CHOOSE m \in done : Target(m) = a)])
           IN  \E kept \in SUBSET DOMAIN wrote :
                 /\ Persist(wrote, kept)
                 /\ cache' = Restrict(wrote, DOMAIN wrote \ kept)
    /\ errors' = errors + 1
    /\ graph' = NoGraph
    /\ UNCHANGED <<mount, scan, ring, nextTx, ordered, crashes>>

\* rollback_precommit: the reservation is given back, the ring stays.
Rollback == phase' = "None" /\ cur' = NoTx

DataFails == graph.kind = "Data" /\ DeviceError /\ Rollback

\* abort_unsubmitted_data, under the same permit: the after-images could not be
\* staged, or another writeback is active.
AbortUnsubmitted ==
    /\ phase = "Admitted" /\ Idle
    /\ Rollback
    /\ UNCHANGED <<disk, shown, cache, mount, scan, ring, graph, nextTx, ordered, crashes, errors>>

\* Mutant: the foreground settlement gives the extent back as well.
CommitFailsRollsBack ==
    /\ graph.kind = "Commit" /\ graph.path \in FailingPaths
    /\ DeviceError
    /\ Rollback

\* The foreground settlement reports commit_unknown, and nothing is planned any
\* more; complete_fsync(Err) of the L6 path rolls the mutation back.
CommitFails ==
    /\ graph.kind = "Commit" /\ graph.path \in FailingPaths
    /\ DeviceError
    /\ IF graph.path = "Settle"
       THEN phase' = "RecoveryOnly" /\ UNCHANGED cur
       ELSE Rollback

\* complete_checkpoint_result(Err): the handle is retained, and no path plans
\* its checkpoint again.
CheckpointFails ==
    /\ graph.kind = "Checkpoint"
    /\ DeviceError
    /\ phase' = "CheckpointFailed" /\ UNCHANGED cur

\* Power is lost: the volatile state goes, and any part of the cache.
Crash ==
    /\ mount # "Down"
    /\ crashes < MaxCrashes
    /\ \E kept \in SUBSET DOMAIN cache : Persist(cache, kept)
    /\ cache' = Empty
    /\ mount' = "Down"
    /\ scan' = NoScan
    /\ ring' = [cursor |-> 1, seq |-> 1]
    /\ phase' = "None" /\ cur' = NoTx /\ graph' = NoGraph
    /\ crashes' = crashes + 1
    /\ UNCHANGED <<nextTx, ordered, errors>>

MutationStep ==
    \/ StartData \/ AbortUnsubmitted \/ StartCheckpoint
    \/ \E path \in {"Settle", "L6"} : StartCommit(path)
    \/ \E n \in graph.nodes : RunNode(n)
    \/ DataDone \/ CommitDone \/ CheckpointDone \/ TailReclaim

Fails == DataFails \/ CommitFails \/ CheckpointFails

Next == MountStep \/ MutationStep \/ Fails \/ Crash
        \/ \E m \in Mutations : Begin(m.tags, m.data)

Spec == Init /\ [][Next]_vars

\* A mount runs through, and so do the graphs of a mutation.
FairSpec == Spec /\ WF_vars(MountStep) /\ WF_vars(MutationStep)
-----------------------------------------------------------------------------
(* Properties.                                                             *)

\* The journal makes the metadata blocks of the mount an atomic store, seen
\* through what a mount of the durable contents would replay: whatever crashes
\* and device errors happen, a mutation changes all of its blocks or none
\* (commit_graph_after_data, checkpoint_graph_after_commit, replay_journal).
Store == INSTANCE AtomicStore
         WITH store <- shown,
              open <- IF cur.id = 0 \/ cur.id \in Range(shown)
                      THEN [id |-> 0, blocks |-> {}]
                      ELSE [id |-> cur.id, blocks |-> Range(cur.tags)]

ImplementsAtomicStore == Store!Spec

\* Once complete_fsync reports a commit, the mutation survives every crash: the
\* durable contents recover to it from then on, through checkpoint and reclaim.
AckedIsDurable ==
    phase \in {"CommittedNeedsSettlement", "CheckpointPending", "TailReclaimPending",
               "CheckpointFailed"} =>
        \A h \in Range(cur.tags) : shown[h] = cur.id

\* data=ordered: a mutation that replay can show has its file data on the
\* medium (prepare_commit waits for the data graph and its fence).
OrderedData ==
    \A t \in ordered \cap Range(shown) : disk[Data(t)] = 1

\* A mount without an admitted mutation reads in place exactly what recovery
\* would restore: replay, checkpoint and rollback leave no after-image behind.
MountedShowsStore ==
    mount = "Mounted" /\ phase = "None" =>
        shown = [h \in Homes |-> Over(disk, cache)[Home(h)]]

\* A mutation whose journal extent was given back never takes effect later: an
\* extent is not released while its commit may still reach the medium
\* (complete_commit, rollback_precommit).
ReleasedStaysUndone ==
    [][\A t \in 1..(nextTx - 1) : t # cur.id /\ t \notin Range(shown) => t \notin Range(shown')]_vars

\* Every mutation is settled or the mount is left to recovery, and every mount
\* comes up: no graph waits for itself and no replay scans for ever.
ReachesRest == []<>(mount = "Mounted" /\ phase \in {"None", "RecoveryOnly", "CheckpointFailed"})
=============================================================================
