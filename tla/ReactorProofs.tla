--------------------------- MODULE ReactorProofs ---------------------------
(***************************************************************************)
(* Proofs about Reactor for any number of harts and tasks.                 *)
(*                                                                         *)
(* LeaseInv says that a future is held by one hart.  WakeInv adds what a   *)
(* pinned task relies on: only its home hart queues, leases and runs it,   *)
(* so the hart between finish_polled_pending and mark_runnable is the only *)
(* one that could hold the task (MarkSafe), and the wake bit of a task     *)
(* outside a poll owns an entry of the wake queue (BitHasEntry).  Other    *)
(* tasks may migrate and be posted to meanwhile.                           *)
(***************************************************************************)
EXTENDS Reactor, FiniteSetTheorems, TLAPS

\* The locations at which a hart has a task at hand.
TaskLocations == {"Take", "Poll", "StopCompleted", "DropCompleted",
                  "StopRunnable", "FinishPending", "Mark", "MarkCommit"}

\* A hart at a task location has a task, a call in progress is about one, and
\* the drained batch is gone when the drain is over.
AtHand ==
    \A h \in Harts :
        /\ pc[h] \in TaskLocations => cur[h] \in Tasks
        /\ pc[h] # "Resolve" => batch[h] = {}
        /\ pc[h] # "Commit" => woken[h] = {}
        /\ callStep[h] # "None" => callTask[h] \in Tasks /\ pc[h] \in {"Loop", "Poll"}

\* The future a hart holds is out of its slot.
HeldIsTaken ==
    \A h \in Harts : \A t \in Tasks : HoldsFuture(h, t) => future[t] = "Taken"

\* A slot that was never filled holds no future.
AbsentIsEmpty == \A t \in Tasks : status[t] = "Absent" => future[t] = "None"

LeaseParts == TypeOK /\ AtHand /\ HeldIsTaken /\ AbsentIsEmpty /\ SingleLease

LeaseInv == WakeCounter /\ LeaseParts

\* mark_runnable never finds a task that a hart is polling.
MarkSafe ==
    \A h \in Harts : pc[h] = "Mark" /\ cur[h] \in Tasks \ Movable => status[cur[h]] # "Polling"

-----------------------------------------------------------------------------
(* Pinned tasks: only the home hart dispatches one.                        *)

Pinned == Tasks \ Movable

PinnedInv ==
    /\ \A t \in Pinned : owner[t].state \in {"Queued", "Dispatching"} => owner[t].hart = Home[t]
    /\ \A h \in Harts : pc[h] \in TaskLocations /\ cur[h] \in Pinned => Home[cur[h]] = h

-----------------------------------------------------------------------------
(* What follows from MarkSafe.                                             *)

\* The status of a future that a hart holds is Polling.
HeldIsPolling ==
    \A h \in Harts : \A t \in Pinned : HoldsFuture(h, t) => status[t] = "Polling"

\* A wake bit outside a poll owns an entry; a wake that no poll has seen left
\* its bit or is still on its way to the task table.
BitHasEntry ==
    \A t \in wakeReq \cap Pinned : status[t] # "Polling" => EntryComing(t)

\* A call that wakes t has not reached its bit or the task table yet.
Caller(t) == \E h \in Harts : callTask[h] = t /\ callStep[h] \in {"Swap", "Route"}

OwedIsPending ==
    \A t \in owed \cap Pinned : status[t] \in {"Parked", "Polling"} => t \in wakeReq \/ Caller(t)


-----------------------------------------------------------------------------
(* The lease: TypeOK, WakeCounter and SingleLease in every configuration.  *)

OwnerFn == [Tasks -> [state : OwnerStates, hart : Harts \cup {NoHart}]]

\* Appending an id to the wake queue adds that id.
LEMMA RangeAppend ==
  ASSUME NEW S, NEW s \in Seq(S), NEW e \in S
  PROVE  Range(Append(s, e)) = Range(s) \cup {e}
<1>1. Append(s, e) \in Seq(S) /\ Len(Append(s, e)) = Len(s) + 1
  OBVIOUS
<1>2. \A i \in 1..Len(s) : Append(s, e)[i] = s[i]
  OBVIOUS
<1>3. Append(s, e)[Len(s) + 1] = e
  OBVIOUS
<1>4. DOMAIN s = 1..Len(s) /\ DOMAIN Append(s, e) = 1..(Len(s) + 1) /\ Len(s) \in Nat
  BY <1>1
<1>5. \A i \in 1..(Len(s) + 1) : i \in 1..Len(s) \/ i = Len(s) + 1
  BY <1>4
<1>6. 1..Len(s) \subseteq 1..(Len(s) + 1) /\ Len(s) + 1 \in 1..(Len(s) + 1)
  BY <1>4
<1> QED BY <1>2, <1>3, <1>4, <1>5, <1>6 DEF Range

\* commit_runnable_on_local keeps owner records well formed.
LEMMA OwnerType ==
  ASSUME owner \in OwnerFn, NEW t \in Tasks, CommitRunnable(t)
  PROVE  owner' \in OwnerFn
<1>1. CASE owner[t].state = "Parked"
  <2>1. PICK g \in Placement(t) : owner' = [owner EXCEPT ![t] = Owner("Queued", g)]
    BY <1>1 DEF CommitRunnable
  <2>2. g \in Harts
    BY ConstantsAssumption DEF Placement
  <2> QED BY <2>1, <2>2 DEF OwnerFn, Owner, OwnerStates
<1>2. CASE owner[t].state # "Parked"
  BY <1>2 DEF CommitRunnable
<1> QED BY <1>1, <1>2

\* Every critical section of the loop keeps the lease parts of the invariant:
\* it is take_runnable_future_by_id that hands a future to one hart.
LEMMA LeasePartsStep == LeaseInv /\ [Next]_vars => LeaseParts'
<1> USE DEF LeaseParts, TypeOK, AtHand, HeldIsTaken, AbsentIsEmpty, SingleLease, HoldsFuture, TaskLocations, tableVars, wakerVars, loopVars, callVars, Statuses, Futures, OwnerStates, Locations, CallSteps
<1> SUFFICES ASSUME LeaseParts, WakeCounter, [Next]_vars PROVE LeaseParts'
  BY Zenon DEF LeaseInv
<1>1. CASE UNCHANGED vars
  BY <1>1, Zenon DEF vars
<1>2. ASSUME NEW h \in Harts, HartNext(h) PROVE LeaseParts'
  <2>1. ASSUME NEW t \in Tasks, StartWake(h, t) PROVE LeaseParts'
    BY <2>1, ConstantsAssumption DEF StartWake, StartCall, Owe, MayCall
  <2>2. ASSUME NEW t \in Tasks, StartPost(h, t) PROVE LeaseParts'
    BY <2>2, ConstantsAssumption DEF StartPost, StartCall, Owe, MayCall
  <2>3. ASSUME NEW t \in Tasks, Submit(h, t) PROVE LeaseParts'
    BY <2>3, ConstantsAssumption DEF Submit, StartCall, MayCall
  <2>4. ASSUME NEW t \in Tasks, PickNext(h, t) PROVE LeaseParts'
    BY <2>4, ConstantsAssumption DEF PickNext, At, Go, LocalQueue, Owner
  <2>5. ASSUME NEW t \in Tasks, Steal(h, t) PROVE LeaseParts'
    BY <2>5, ConstantsAssumption DEF Steal, At, Go, LocalQueue, Owner
  <2>6. CASE ReserveSubmitted(h)
    <3>1. PICK g \in Placement(callTask[h]) : owner' = [owner EXCEPT ![callTask[h]] = Owner("Queued", g)]
      BY <2>6, Zenon DEF ReserveSubmitted
    <3>2. callTask[h] \in Tasks
      BY <2>6 DEF ReserveSubmitted, Calling
    <3>3. g \in Harts
      BY <3>2, ConstantsAssumption DEF Placement
    <3> QED BY <2>6, <3>1, <3>2, <3>3 DEF ReserveSubmitted, Calling, CallTo, Owner
  <2>7. CASE WakeSwap(h)
    BY <2>7, ConstantsAssumption DEF WakeSwap, Calling, CallTo, AfterWake
  <2>8. CASE WakeCount(h)
    BY <2>8, ConstantsAssumption DEF WakeCount, Calling, CallTo
  <2>9. CASE WakePush(h)
    BY <2>9, ConstantsAssumption DEF WakePush, Calling, CallTo, AfterWake
  <2>10. CASE RouteOwner(h)
    BY <2>10, ConstantsAssumption DEF RouteOwner, Calling, CallTo
  <2>11. CASE RouteCommit(h)
    <3>1. owner' \in OwnerFn
      BY <2>11, OwnerType, Zenon DEF RouteCommit, Calling, LeaseParts, AtHand, TypeOK, OwnerFn
    <3> QED BY <2>11, <3>1 DEF RouteCommit, Calling, CallTo, OwnerFn
  <2>12. CASE DrainWakes(h)
    <3>1. queuedWakes - Len(wakeQueue) \in Nat
      <4>1. Cardinality({g \in Harts : callStep[g] = "Push"}) \in Nat
        BY ConstantsAssumption, FS_Subset, FS_CardinalityType, Zenon
      <4> QED BY <4>1 DEF WakeCounter, TypeOK
    <3>2. Range(wakeQueue) \in SUBSET Tasks
      BY DEF Range, TypeOK
    <3>3. batch' \in [Harts -> SUBSET Tasks]
      <4>1. batch' = [batch EXCEPT ![h] = Range(wakeQueue)] /\ batch \in [Harts -> SUBSET Tasks]
        BY <2>12, Zenon DEF DrainWakes
      <4> HIDE DEF TypeOK, AtHand
      <4> QED BY <4>1, <3>2
    <3>4. wakeQueue' \in Seq(Tasks)
      BY <2>12 DEF DrainWakes
    <3>5. wakeQueue = <<>> => Range(wakeQueue) = {}
      BY DEF Range
    <3> QED BY <2>12, <3>1, <3>3, <3>4, <3>5 DEF DrainWakes, At, Go
  <2>13. CASE DrainNothing(h)
    BY <2>13, ConstantsAssumption DEF DrainNothing, At, Go
  <2>14. CASE ResolveWakes(h)
    BY <2>14, ConstantsAssumption DEF ResolveWakes, At, Go
  <2>15. CASE CommitWoken(h)
    <3>1. PICK t \in woken[h] : CommitRunnable(t) /\ woken' = [woken EXCEPT ![h] = @ \ {t}]
      BY <2>15, Zenon DEF CommitWoken
    <3>2. owner' \in OwnerFn
      BY <3>1, OwnerType, Zenon DEF LeaseParts, TypeOK, OwnerFn
    <3> QED BY <2>15, <3>1, <3>2 DEF CommitWoken, At, OwnerFn
  <2>16. CASE CommitDone(h)
    BY <2>16, ConstantsAssumption DEF CommitDone, At, Go
  <2>17. CASE PickNone(h)
    BY <2>17, ConstantsAssumption DEF PickNone, At, Go
  <2>18. CASE TakeRunnable(h)
    BY <2>18, ConstantsAssumption DEF TakeRunnable, At, Go
  <2>19. CASE TakeMissing(h)
    BY <2>19, ConstantsAssumption DEF TakeMissing, At, Go, Release, TaskDropped, Owner
  <2>20. CASE TakeNotRunnable(h)
    BY <2>20, ConstantsAssumption DEF TakeNotRunnable, At, Go, Release, CommitStopped,
       Owner
  <2>21. CASE PollReady(h)
    BY <2>21, ConstantsAssumption DEF PollReady, At, Go
  <2>22. CASE StopCompleted(h)
    BY <2>22, ConstantsAssumption DEF StopCompleted, At, Go, CommitStopped, Owner
  <2>23. CASE DropCompleted(h)
    BY <2>23, ConstantsAssumption DEF DropCompleted, At, Go, Release, TaskDropped, Owner
  <2>24. CASE PollPreempted(h)
    BY <2>24, ConstantsAssumption DEF PollPreempted, At, Go
  <2>25. CASE StopRunnable(h)
    BY <2>25, ConstantsAssumption DEF StopRunnable, At, Go, Release, CommitStopped,
       Placement, Owner
  <2>26. CASE PollPending(h)
    BY <2>26, ConstantsAssumption DEF PollPending, At, Go, CommitStopped, Owner
  <2>27. CASE FinishParked(h)
    BY <2>27, ConstantsAssumption DEF FinishParked, At, Go, Release
  <2>28. CASE FinishRaced(h)
    BY <2>28, ConstantsAssumption DEF FinishRaced, At, Go
  <2>29. CASE MarkRunnable(h)
    BY <2>29, ConstantsAssumption DEF MarkRunnable, At, Go
  <2>30. CASE MarkTerminal(h)
    BY <2>30, ConstantsAssumption DEF MarkTerminal, At, Go, Release
  <2>31. CASE MarkCommit(h)
    <3>1. owner' \in OwnerFn
      BY <2>31, OwnerType, Zenon DEF MarkCommit, At, LeaseParts, AtHand, TypeOK, OwnerFn, TaskLocations
    <3> QED BY <2>31, <3>1 DEF MarkCommit, At, Go, Release, OwnerFn
  <2> QED BY <1>2, <2>1, <2>2, <2>3, <2>4, <2>5, <2>6, <2>7, <2>8, <2>9, <2>10, <2>11,
     <2>12, <2>13, <2>14, <2>15, <2>16, <2>17, <2>18, <2>19, <2>20, <2>21, <2>22, <2>23,
     <2>24, <2>25, <2>26, <2>27, <2>28, <2>29, <2>30, <2>31, ZenonT(30) DEF HartNext, Drain,
     CallProgress, LoopProgress, PollReturns
<1> QED BY <1>1, <1>2, Zenon DEF Next

\* The wakes between the increment of the counter and the push of the entry.
pushing == {g \in Harts : callStep[g] = "Push"}

Counted == queuedWakes = Len(wakeQueue) + Cardinality(pushing)

\* The counter is raised before, and lowered with, the entries of the wake queue.
LEMMA CounterStep ==
  LeaseParts /\ Counted /\ [Next]_vars => Counted'
<1> SUFFICES ASSUME LeaseParts, Counted, [Next]_vars PROVE Counted'
  OBVIOUS
<1>0. /\ callStep \in [Harts -> CallSteps] /\ queuedWakes \in Nat
      /\ \A g \in Harts : callStep[g] # "None" => callTask[g] \in Tasks
  BY DEF LeaseParts, TypeOK, AtHand
<1>q. wakeQueue \in Seq(Tasks) /\ Len(wakeQueue) \in Nat
  BY DEF LeaseParts, TypeOK
<1>f. IsFiniteSet(pushing) /\ Cardinality(pushing) \in Nat /\ Len(wakeQueue) \in Nat
  BY <1>q, ConstantsAssumption, FS_Subset, FS_CardinalityType, Zenon DEF pushing
<1>1. CASE UNCHANGED vars
  BY <1>1 DEF vars, Counted, pushing
<1>2. ASSUME NEW h \in Harts, HartNext(h) PROVE Counted'
  <2>1. ASSUME UNCHANGED <<callStep, queuedWakes, wakeQueue>> PROVE Counted'
    BY <2>1 DEF Counted, pushing
  <2>2. ASSUME NEW t \in Tasks, StartWake(h, t) PROVE Counted'
    <3>1. pushing' = pushing
      BY <2>2, <1>0 DEF StartWake, StartCall, Owe, MayCall, pushing
    <3> QED BY <2>2, <3>1 DEF StartWake, wakerVars, Counted
  <2>3. ASSUME NEW t \in Tasks, StartPost(h, t) PROVE Counted'
    <3>1. pushing' = pushing
      BY <2>3, <1>0, Zenon DEF StartPost, StartCall, Owe, MayCall, pushing
    <3> QED BY <2>3, <3>1 DEF StartPost, wakerVars, Counted
  <2>4. ASSUME NEW t \in Tasks, Submit(h, t) PROVE Counted'
    <3>1. pushing' = pushing
      BY <2>4, <1>0, Zenon DEF Submit, StartCall, MayCall, pushing
    <3> QED BY <2>4, <3>1 DEF Submit, wakerVars, Counted
  <2>5. CASE ReserveSubmitted(h)
    <3>1. pushing' = pushing
      BY <2>5, <1>0 DEF ReserveSubmitted, Calling, CallTo, pushing
    <3> QED BY <2>5, <3>1 DEF ReserveSubmitted, wakerVars, Counted
  <2>6. CASE WakeSwap(h)
    <3>1. pushing' = pushing
      BY <2>6, <1>0, Zenon DEF WakeSwap, Calling, CallTo, AfterWake, pushing
    <3> QED BY <2>6, <3>1 DEF WakeSwap, wakerVars, Counted
  <2>7. CASE WakeCount(h)
    <3>1. pushing' = pushing \cup {h} /\ h \notin pushing
      BY <2>7, <1>0, Zenon DEF WakeCount, Calling, CallTo, pushing
    <3>2. Cardinality(pushing') = Cardinality(pushing) + 1
      BY <3>1, <1>f, FS_AddElement, Zenon
    <3> QED BY <2>7, <3>2, <1>f, <1>0 DEF WakeCount, Counted
  <2>8. CASE WakePush(h)
    <3>1. pushing' = pushing \ {h} /\ h \in pushing
      BY <2>8, <1>0 DEF WakePush, Calling, CallTo, AfterWake, pushing
    <3>2. Cardinality(pushing') = Cardinality(pushing) - 1
      BY <3>1, <1>f, FS_RemoveElement, Zenon
    <3>3. callTask[h] \in Tasks
      BY <2>8, <1>0 DEF WakePush, Calling
    <3>4. Len(wakeQueue') = Len(wakeQueue) + 1
      BY <2>8, <3>3, <1>q DEF WakePush
    <3> QED BY <2>8, <3>2, <3>4, <1>f, <1>0 DEF WakePush, Counted
  <2>9. CASE RouteOwner(h)
    <3>1. pushing' = pushing
      BY <2>9, <1>0 DEF RouteOwner, Calling, CallTo, pushing
    <3> QED BY <2>9, <3>1 DEF RouteOwner, wakerVars, Counted
  <2>10. CASE RouteCommit(h)
    <3>1. pushing' = pushing
      BY <2>10, <1>0 DEF RouteCommit, Calling, CallTo, pushing
    <3> QED BY <2>10, <3>1 DEF RouteCommit, wakerVars, Counted
  <2>11. CASE DrainWakes(h)
    <3>1. Len(wakeQueue') = 0 /\ queuedWakes' = queuedWakes - Len(wakeQueue)
      BY <2>11 DEF DrainWakes
    <3>2. pushing' = pushing
      BY <2>11 DEF DrainWakes, callVars, pushing
    <3> QED BY <3>1, <3>2, <1>f, <1>0 DEF Counted
  <2> QED BY <1>2, <2>1, <2>2, <2>3, <2>4, <2>5, <2>6, <2>7, <2>8, <2>9, <2>10, <2>11, Zenon DEF
     HartNext, Drain, CallProgress, LoopProgress, PollReturns, tableVars, wakerVars,
     loopVars, callVars, Release, CallTo, PickNext, Steal, DrainNothing, ResolveWakes,
     CommitWoken, CommitDone, PickNone, TakeRunnable, TakeMissing, TakeNotRunnable,
     PollReady, StopCompleted, DropCompleted, PollPreempted, StopRunnable, PollPending,
     FinishParked, FinishRaced, MarkRunnable, MarkTerminal, MarkCommit
<1> QED BY <1>1, <1>2 DEF Next

\* An empty reactor holds no future and no wake.
LEMMA LeaseInit == Init => LeaseInv
<1> SUFFICES ASSUME Init PROVE LeaseInv
  OBVIOUS
<1>1. {h \in Harts : callStep[h] = "Push"} = {}
  BY DEF Init
<1>2. WakeCounter
  <2>1. Cardinality({h \in Harts : callStep[h] = "Push"}) = 0
    BY <1>1, FS_EmptySet
  <2> QED BY <2>1 DEF Init, WakeCounter
<1>3. LeaseParts
  BY ConstantsAssumption DEF Init, Owner, LeaseParts, TypeOK, AtHand, HeldIsTaken,
     AbsentIsEmpty, SingleLease, HoldsFuture, TaskLocations, Statuses, Futures,
     OwnerStates, Locations, CallSteps
<1> QED BY <1>2, <1>3 DEF LeaseInv

\* A future is polled by at most one hart at a time, the wake counter covers
\* the wake queue, and the state is well formed, for any harts and tasks and
\* whatever combination of wakes, posts and migration.
THEOREM LeaseInvariant == Spec => [](TypeOK /\ SingleLease /\ WakeCounter)
<1>1. Init => LeaseInv
  BY LeaseInit
<1>2. LeaseInv /\ [Next]_vars => LeaseInv'
  BY LeasePartsStep, CounterStep, Zenon DEF LeaseInv, WakeCounter, Counted, pushing
<1>3. LeaseInv => TypeOK /\ SingleLease /\ WakeCounter
  BY DEF LeaseInv, LeaseParts
<1> QED BY <1>1, <1>2, <1>3, PTL DEF Spec

-----------------------------------------------------------------------------
(* Wakes of pinned tasks.                                                  *)

\* A scheduler step on task t by hart h leaves the owner records of the other
\* tasks alone, and queues or leases a pinned t only on its home hart.
OwnerStep(t) ==
    /\ \A u \in Tasks \ {t} : owner'[u] = owner[u]
    /\ t \in Pinned /\ owner'[t].state \in {"Queued", "Dispatching"} =>
          owner'[t].hart = Home[t] \/ owner'[t] = owner[t]

\* commit_runnable_on_local and the reservation of a submitted task.
LEMMA QueueEffect ==
  ASSUME NEW t \in Tasks, NEW g \in Placement(t), owner \in OwnerFn,
         owner' = [owner EXCEPT ![t] = Owner("Queued", g)]
  PROVE  OwnerStep(t)
<1>1. t \in Pinned => g = Home[t]
  BY DEF Placement, Pinned
<1> QED BY <1>1 DEF OwnerStep, OwnerFn, Owner

\* commit_runnable_on_local queues a pinned task on its home hart.
LEMMA CommitEffect ==
  ASSUME NEW t \in Tasks, owner \in OwnerFn, CommitRunnable(t)
  PROVE  OwnerStep(t)
<1>1. CASE owner[t].state = "Parked"
  BY <1>1, QueueEffect DEF CommitRunnable
<1>2. CASE owner[t].state # "Parked"
  BY <1>2, Zenon DEF CommitRunnable, OwnerStep
<1> QED BY <1>1, <1>2, Zenon

\* commit_stopped_on_local and task_dropped.
LEMMA StoppedEffect ==
  ASSUME NEW t \in Tasks, NEW h \in Harts, owner \in OwnerFn,
         NEW o \in {Owner(x, NoHart) : x \in {"Parked", "Terminal"}}
                    \cup {Owner("Queued", g) : g \in Placement(t)},
         CommitStopped(t, h, o)
  PROVE  OwnerStep(t)
<1>1. CASE owner[t] = Owner("Dispatching", h)
  <2>1. t \in Pinned /\ o.state \in {"Queued", "Dispatching"} => o.hart = Home[t]
    BY DEF Placement, Pinned, Owner
  <2> QED BY <1>1, <2>1 DEF CommitStopped, OwnerStep, OwnerFn
<1>2. CASE owner[t] # Owner("Dispatching", h)
  BY <1>2 DEF CommitStopped, OwnerStep
<1> QED BY <1>1, <1>2

\* task_dropped removes the metadata of the task alone.
LEMMA DropEffect ==
  ASSUME NEW t \in Tasks, owner \in OwnerFn, TaskDropped(t)
  PROVE  OwnerStep(t)
  BY DEF TaskDropped, OwnerStep, OwnerFn, Owner

\* Only the home hart of a pinned task queues it, leases it and runs it.
LEMMA PinnedStep ==
  LeaseParts /\ PinnedInv /\ [Next]_vars => PinnedInv'
<1> SUFFICES ASSUME LeaseParts, PinnedInv, [Next]_vars PROVE PinnedInv'
  OBVIOUS
<1>0. /\ pc \in [Harts -> Locations]
      /\ cur \in [Harts -> Tasks \cup {NoTask}]
      /\ owner \in OwnerFn
      /\ woken \in [Harts -> SUBSET Tasks]
      /\ callStep \in [Harts -> CallSteps]
      /\ \A g \in Harts : /\ pc[g] \in TaskLocations => cur[g] \in Tasks
                          /\ callStep[g] # "None" => callTask[g] \in Tasks
  BY Zenon DEF LeaseParts, TypeOK, AtHand, OwnerFn
<1>1. CASE UNCHANGED vars
  BY <1>1, Zenon DEF vars, PinnedInv, Pinned, TaskLocations
<1>2. ASSUME NEW h \in Harts, HartNext(h) PROVE PinnedInv'
  <2>1. ASSUME UNCHANGED <<owner, pc, cur>> PROVE PinnedInv'
    BY <2>1, Zenon DEF PinnedInv, Pinned, TaskLocations
  <2>2. ASSUME NEW t \in Tasks, PickNext(h, t) PROVE PinnedInv'
    BY <2>2, <1>0 DEF PickNext, At, Go, LocalQueue, Owner, tableVars, wakerVars, loopVars,
       callVars, PinnedInv, Pinned, TaskLocations
  <2>3. ASSUME NEW t \in Tasks, Steal(h, t) PROVE PinnedInv'
    BY <2>3, <1>0 DEF Steal, At, Go, LocalQueue, Owner, tableVars, wakerVars, loopVars,
       callVars, PinnedInv, Pinned, TaskLocations
  <2>4. CASE ReserveSubmitted(h)
    <3>1. callTask[h] \in Tasks
      BY <2>4, <1>0, Zenon DEF ReserveSubmitted, At, Calling, TaskLocations
    <3>2. OwnerStep(callTask[h])
      BY <2>4, <1>0, <3>1, QueueEffect, Zenon DEF ReserveSubmitted
    <3> QED BY <2>4, <1>0, <3>1, <3>2, ZenonT(30) DEF ReserveSubmitted, At, Go, OwnerStep, loopVars,
       PinnedInv, Pinned, TaskLocations
  <2>5. CASE RouteCommit(h)
    <3>1. callTask[h] \in Tasks
      BY <2>5, <1>0 DEF RouteCommit, At, Calling, TaskLocations
    <3>2. OwnerStep(callTask[h])
      BY <2>5, <1>0, <3>1, CommitEffect, Zenon DEF RouteCommit
    <3> QED BY <2>5, <1>0, <3>1, <3>2, Zenon DEF RouteCommit, At, Go, OwnerStep, loopVars,
       PinnedInv, Pinned, TaskLocations
  <2>6. CASE DrainWakes(h)
    BY <2>6, <1>0, Zenon DEF DrainWakes, At, Go, Range, tableVars, wakerVars, loopVars, callVars,
       PinnedInv, Pinned, TaskLocations
  <2>7. CASE DrainNothing(h)
    BY <2>7, <1>0, Zenon DEF DrainNothing, At, Go, tableVars, wakerVars, loopVars, callVars,
       PinnedInv, Pinned, TaskLocations
  <2>8. CASE ResolveWakes(h)
    BY <2>8, <1>0, Zenon DEF ResolveWakes, At, Go, tableVars, wakerVars, loopVars, callVars,
       PinnedInv, Pinned, TaskLocations
  <2>9. CASE CommitWoken(h)
    <3>0. PICK u \in woken[h] : CommitRunnable(u)
      BY <2>9 DEF CommitWoken
    <3>1. u \in Tasks
      BY <3>0, <2>9, <1>0, Zenon DEF CommitWoken, At, Calling, TaskLocations
    <3>2. OwnerStep(u)
      BY <3>0, <2>9, <1>0, <3>1, CommitEffect, Zenon DEF CommitWoken
    <3> QED BY <2>9, <1>0, <3>1, <3>2 DEF CommitWoken, At, Go, OwnerStep, loopVars,
       PinnedInv, Pinned, TaskLocations
  <2>10. CASE CommitDone(h)
    BY <2>10, <1>0, Zenon DEF CommitDone, At, Go, tableVars, wakerVars, loopVars, callVars,
       PinnedInv, Pinned, TaskLocations
  <2>11. CASE PickNone(h)
    BY <2>11, <1>0, Zenon DEF PickNone, At, Go, tableVars, wakerVars, loopVars, callVars,
       PinnedInv, Pinned, TaskLocations
  <2>12. CASE TakeRunnable(h)
    BY <2>12, <1>0, Zenon DEF TakeRunnable, At, Go, tableVars, wakerVars, loopVars, callVars,
       PinnedInv, Pinned, TaskLocations
  <2>13. CASE TakeMissing(h)
    <3>1. cur[h] \in Tasks
      BY <2>13, <1>0, Zenon DEF TakeMissing, At, Calling, TaskLocations
    <3>2. OwnerStep(cur[h])
      BY <2>13, <1>0, <3>1, DropEffect, Zenon DEF TakeMissing
    <3> QED BY <2>13, <1>0, <3>1, <3>2, ZenonT(30) DEF TakeMissing, At, Go, Release, OwnerStep,
       loopVars, PinnedInv, Pinned, TaskLocations
  <2>14. CASE TakeNotRunnable(h)
    <3>1. cur[h] \in Tasks
      BY <2>14, <1>0, Zenon DEF TakeNotRunnable, At, Calling, TaskLocations
    <3>2. OwnerStep(cur[h])
      BY <2>14, <1>0, <3>1, StoppedEffect, Zenon DEF TakeNotRunnable
    <3> QED BY <2>14, <1>0, <3>1, <3>2, ZenonT(30) DEF TakeNotRunnable, At, Go, Release, OwnerStep,
       loopVars, PinnedInv, Pinned, TaskLocations
  <2>15. CASE PollReady(h)
    BY <2>15, <1>0, Zenon DEF PollReady, At, Go, tableVars, wakerVars, loopVars, callVars,
       PinnedInv, Pinned, TaskLocations
  <2>16. CASE StopCompleted(h)
    <3>1. cur[h] \in Tasks
      BY <2>16, <1>0, Zenon DEF StopCompleted, At, Calling, TaskLocations
    <3>2. OwnerStep(cur[h])
      BY <2>16, <1>0, <3>1, StoppedEffect, Zenon DEF StopCompleted
    <3> QED BY <2>16, <1>0, <3>1, <3>2, ZenonT(30) DEF StopCompleted, At, Go, OwnerStep, loopVars,
       PinnedInv, Pinned, TaskLocations
  <2>17. CASE DropCompleted(h)
    <3>1. cur[h] \in Tasks
      BY <2>17, <1>0, Zenon DEF DropCompleted, At, Calling, TaskLocations
    <3>2. OwnerStep(cur[h])
      BY <2>17, <1>0, <3>1, DropEffect, Zenon DEF DropCompleted
    <3> QED BY <2>17, <1>0, <3>1, <3>2, ZenonT(30) DEF DropCompleted, At, Go, Release, OwnerStep,
       loopVars, PinnedInv, Pinned, TaskLocations
  <2>18. CASE PollPreempted(h)
    BY <2>18, <1>0, Zenon DEF PollPreempted, At, Go, tableVars, wakerVars, loopVars, callVars,
       PinnedInv, Pinned, TaskLocations
  <2>19. CASE StopRunnable(h)
    <3>0. PICK g \in Placement(cur[h]) : CommitStopped(cur[h], h, Owner("Queued", g))
      BY <2>19, Zenon DEF StopRunnable
    <3>1. cur[h] \in Tasks
      BY <2>19, <1>0, Zenon DEF StopRunnable, At, Calling, TaskLocations
    <3>2. OwnerStep(cur[h])
      BY <3>0, <2>19, <1>0, <3>1, StoppedEffect, Zenon DEF StopRunnable
    <3> QED BY <2>19, <1>0, <3>1, <3>2, ZenonT(30) DEF StopRunnable, At, Go, Release, OwnerStep,
       loopVars, PinnedInv, Pinned, TaskLocations
  <2>20. CASE PollPending(h)
    <3>1. cur[h] \in Tasks
      BY <2>20, <1>0, Zenon DEF PollPending, At, Calling, TaskLocations
    <3>2. OwnerStep(cur[h])
      BY <2>20, <1>0, <3>1, StoppedEffect, Zenon DEF PollPending
    <3> QED BY <2>20, <1>0, <3>1, <3>2, ZenonT(30) DEF PollPending, At, Go, OwnerStep, loopVars,
       PinnedInv, Pinned, TaskLocations
  <2>21. CASE FinishParked(h)
    BY <2>21, <1>0, Zenon DEF FinishParked, At, Go, Release, tableVars, wakerVars, loopVars,
       callVars, PinnedInv, Pinned, TaskLocations
  <2>22. CASE FinishRaced(h)
    BY <2>22, <1>0, Zenon DEF FinishRaced, At, Go, tableVars, wakerVars, loopVars, callVars,
       PinnedInv, Pinned, TaskLocations
  <2>23. CASE MarkRunnable(h)
    BY <2>23, <1>0, Zenon DEF MarkRunnable, At, Go, tableVars, wakerVars, loopVars, callVars,
       PinnedInv, Pinned, TaskLocations
  <2>24. CASE MarkTerminal(h)
    BY <2>24, <1>0, Zenon DEF MarkTerminal, At, Go, Release, tableVars, wakerVars, loopVars,
       callVars, PinnedInv, Pinned, TaskLocations
  <2>25. CASE MarkCommit(h)
    <3>1. cur[h] \in Tasks
      BY <2>25, <1>0, Zenon DEF MarkCommit, At, Calling, TaskLocations
    <3>2. OwnerStep(cur[h])
      BY <2>25, <1>0, <3>1, CommitEffect, Zenon DEF MarkCommit
    <3> QED BY <2>25, <1>0, <3>1, <3>2, ZenonT(30) DEF MarkCommit, At, Go, Release, OwnerStep,
       loopVars, PinnedInv, Pinned, TaskLocations
  <2> QED BY <1>2, <2>1, <2>2, <2>3, <2>4, <2>5, <2>6, <2>7, <2>8, <2>9, <2>10, <2>11,
     <2>12, <2>13, <2>14, <2>15, <2>16, <2>17, <2>18, <2>19, <2>20, <2>21, <2>22, <2>23,
     <2>24, <2>25, Zenon DEF HartNext, Drain, CallProgress, LoopProgress, PollReturns, tableVars,
     wakerVars, loopVars, callVars, Release, CallTo, StartWake, StartPost, Submit,
     WakeSwap, WakeCount, WakePush, RouteOwner
<1> QED BY <1>1, <1>2 DEF Next

\* While the home hart is between finish_polled_pending and mark_runnable it
\* takes no future.
LEMMA MarkStep ==
  LeaseParts /\ PinnedInv /\ MarkSafe /\ [Next]_vars => MarkSafe'
<1> SUFFICES ASSUME LeaseParts, PinnedInv, MarkSafe, [Next]_vars PROVE MarkSafe'
  OBVIOUS
<1>0. /\ pc \in [Harts -> Locations]
      /\ cur \in [Harts -> Tasks \cup {NoTask}]
      /\ status \in [Tasks -> Statuses]
      /\ batch \in [Harts -> SUBSET Tasks]
      /\ \A g \in Harts : pc[g] \in TaskLocations => cur[g] \in Tasks
  BY Zenon DEF LeaseParts, TypeOK, AtHand, OwnerFn
<1>1. CASE UNCHANGED vars
  BY <1>1, Zenon DEF vars, MarkSafe, PinnedInv, Pinned, TaskLocations
<1>2. ASSUME NEW h \in Harts, HartNext(h) PROVE MarkSafe'
  <2>1. ASSUME UNCHANGED <<pc, cur, status>> PROVE MarkSafe'
    BY <2>1, Zenon DEF MarkSafe, PinnedInv, Pinned, TaskLocations
  <2>2. ASSUME NEW t \in Tasks, Submit(h, t) PROVE MarkSafe'
    BY <2>2, <1>0, Zenon DEF Submit, StartCall, MayCall, tableVars, wakerVars, loopVars, callVars,
       MarkSafe, PinnedInv, Pinned, TaskLocations
  <2>3. ASSUME NEW t \in Tasks, PickNext(h, t) PROVE MarkSafe'
    BY <2>3, <1>0, Zenon DEF PickNext, At, Go, LocalQueue, Owner, tableVars, wakerVars, loopVars,
       callVars, MarkSafe, PinnedInv, Pinned, TaskLocations
  <2>4. ASSUME NEW t \in Tasks, Steal(h, t) PROVE MarkSafe'
    BY <2>4, <1>0, Zenon DEF Steal, At, Go, LocalQueue, Owner, tableVars, wakerVars, loopVars,
       callVars, MarkSafe, PinnedInv, Pinned, TaskLocations
  <2>5. CASE RouteOwner(h)
    BY <2>5, <1>0, Zenon DEF RouteOwner, Calling, CallTo, tableVars, wakerVars, loopVars,
       callVars, MarkSafe, PinnedInv, Pinned, TaskLocations
  <2>6. CASE DrainWakes(h)
    BY <2>6, <1>0, Zenon DEF DrainWakes, At, Go, Range, tableVars, wakerVars, loopVars, callVars,
       MarkSafe, PinnedInv, Pinned, TaskLocations
  <2>7. CASE DrainNothing(h)
    BY <2>7, <1>0, Zenon DEF DrainNothing, At, Go, tableVars, wakerVars, loopVars, callVars,
       MarkSafe, PinnedInv, Pinned, TaskLocations
  <2>8. CASE ResolveWakes(h)
    BY <2>8, <1>0, Zenon DEF ResolveWakes, At, Go, tableVars, wakerVars, loopVars, callVars,
       MarkSafe, PinnedInv, Pinned, TaskLocations
  <2>9. CASE CommitDone(h)
    BY <2>9, <1>0, Zenon DEF CommitDone, At, Go, tableVars, wakerVars, loopVars, callVars,
       MarkSafe, PinnedInv, Pinned, TaskLocations
  <2>10. CASE PickNone(h)
    BY <2>10, <1>0, Zenon DEF PickNone, At, Go, tableVars, wakerVars, loopVars, callVars,
       MarkSafe, PinnedInv, Pinned, TaskLocations
  <2>11. CASE TakeRunnable(h)
    BY <2>11, <1>0, ZenonT(30) DEF TakeRunnable, At, Go, tableVars, wakerVars, loopVars, callVars,
       MarkSafe, PinnedInv, Pinned, TaskLocations
  <2>12. CASE TakeMissing(h)
    BY <2>12, <1>0, Zenon DEF TakeMissing, At, Go, Release, TaskDropped, Owner, tableVars,
       wakerVars, loopVars, callVars, MarkSafe, PinnedInv, Pinned, TaskLocations
  <2>13. CASE TakeNotRunnable(h)
    BY <2>13, <1>0, Zenon DEF TakeNotRunnable, At, Go, Release, CommitStopped, Owner, tableVars,
       wakerVars, loopVars, callVars, MarkSafe, PinnedInv, Pinned, TaskLocations
  <2>14. CASE PollReady(h)
    BY <2>14, <1>0, Zenon DEF PollReady, At, Go, tableVars, wakerVars, loopVars, callVars,
       MarkSafe, PinnedInv, Pinned, TaskLocations
  <2>15. CASE StopCompleted(h)
    BY <2>15, <1>0, Zenon DEF StopCompleted, At, Go, CommitStopped, Owner, tableVars, wakerVars,
       loopVars, callVars, MarkSafe, PinnedInv, Pinned, TaskLocations
  <2>16. CASE DropCompleted(h)
    BY <2>16, <1>0, Zenon DEF DropCompleted, At, Go, Release, TaskDropped, Owner, tableVars,
       wakerVars, loopVars, callVars, MarkSafe, PinnedInv, Pinned, TaskLocations
  <2>17. CASE PollPreempted(h)
    BY <2>17, <1>0, Zenon DEF PollPreempted, At, Go, tableVars, wakerVars, loopVars, callVars,
       MarkSafe, PinnedInv, Pinned, TaskLocations
  <2>18. CASE StopRunnable(h)
    BY <2>18, <1>0, Zenon DEF StopRunnable, At, Go, Release, CommitStopped, Placement, Owner,
       tableVars, wakerVars, loopVars, callVars, MarkSafe, PinnedInv, Pinned, TaskLocations
  <2>19. CASE PollPending(h)
    BY <2>19, <1>0, Zenon DEF PollPending, At, Go, CommitStopped, Owner, tableVars, wakerVars,
       loopVars, callVars, MarkSafe, PinnedInv, Pinned, TaskLocations
  <2>20. CASE FinishParked(h)
    BY <2>20, <1>0, Zenon DEF FinishParked, At, Go, Release, tableVars, wakerVars, loopVars,
       callVars, MarkSafe, PinnedInv, Pinned, TaskLocations
  <2>21. CASE FinishRaced(h)
    BY <2>21, <1>0, Zenon DEF FinishRaced, At, Go, tableVars, wakerVars, loopVars, callVars,
       MarkSafe, PinnedInv, Pinned, TaskLocations
  <2>22. CASE MarkRunnable(h)
    BY <2>22, <1>0, Zenon DEF MarkRunnable, At, Go, tableVars, wakerVars, loopVars, callVars,
       MarkSafe, PinnedInv, Pinned, TaskLocations
  <2>23. CASE MarkTerminal(h)
    BY <2>23, <1>0, Zenon DEF MarkTerminal, At, Go, Release, tableVars, wakerVars, loopVars,
       callVars, MarkSafe, PinnedInv, Pinned, TaskLocations
  <2>24. CASE MarkCommit(h)
    BY <2>24, <1>0, Zenon DEF MarkCommit, At, Go, Release, CommitRunnable, Placement, Owner,
       tableVars, wakerVars, loopVars, callVars, MarkSafe, PinnedInv, Pinned, TaskLocations
  <2> QED BY <1>2, <2>1, <2>2, <2>3, <2>4, <2>5, <2>6, <2>7, <2>8, <2>9, <2>10, <2>11,
     <2>12, <2>13, <2>14, <2>15, <2>16, <2>17, <2>18, <2>19, <2>20, <2>21, <2>22, <2>23,
     <2>24, Zenon DEF HartNext, Drain, CallProgress, LoopProgress, PollReturns, tableVars,
     wakerVars, loopVars, callVars, Release, CallTo, StartWake, StartPost,
     ReserveSubmitted, WakeSwap, WakeCount, WakePush, RouteCommit, CommitWoken
<1> QED BY <1>1, <1>2 DEF Next

\* Only the holder of a future moves its task out of Polling.
LEMMA HeldStep ==
  LeaseParts /\ MarkSafe /\ HeldIsPolling /\ [Next]_vars => HeldIsPolling'
<1> SUFFICES ASSUME LeaseParts, MarkSafe, HeldIsPolling, [Next]_vars PROVE HeldIsPolling'
  OBVIOUS
<1>0. /\ pc \in [Harts -> Locations]
      /\ cur \in [Harts -> Tasks \cup {NoTask}]
      /\ status \in [Tasks -> Statuses]
      /\ batch \in [Harts -> SUBSET Tasks]
      /\ \A g \in Harts : pc[g] \in TaskLocations => cur[g] \in Tasks
      /\ HeldIsTaken /\ AbsentIsEmpty /\ SingleLease
  BY Zenon DEF LeaseParts, TypeOK, AtHand
<1>1. CASE UNCHANGED vars
  BY <1>1, Zenon DEF vars, HeldIsPolling, HoldsFuture, HeldIsTaken, AbsentIsEmpty, SingleLease,
     MarkSafe, Pinned, TaskLocations
<1>2. ASSUME NEW h \in Harts, HartNext(h) PROVE HeldIsPolling'
  <2>1. ASSUME UNCHANGED <<status, pc, cur>> PROVE HeldIsPolling'
    BY <2>1, Zenon DEF HeldIsPolling, HoldsFuture, HeldIsTaken, AbsentIsEmpty, SingleLease,
       MarkSafe, Pinned, TaskLocations
  <2>2. ASSUME NEW t \in Tasks, Submit(h, t) PROVE HeldIsPolling'
    BY <2>2, <1>0, ZenonT(30) DEF Submit, StartCall, MayCall, tableVars, wakerVars, loopVars, callVars,
       HeldIsPolling, HoldsFuture, HeldIsTaken, AbsentIsEmpty, SingleLease, MarkSafe,
       Pinned, TaskLocations
  <2>3. ASSUME NEW t \in Tasks, PickNext(h, t) PROVE HeldIsPolling'
    BY <2>3, <1>0, ZenonT(30) DEF PickNext, At, Go, LocalQueue, Owner, tableVars, wakerVars, loopVars,
       callVars, HeldIsPolling, HoldsFuture, HeldIsTaken, AbsentIsEmpty, SingleLease,
       MarkSafe, Pinned, TaskLocations
  <2>4. ASSUME NEW t \in Tasks, Steal(h, t) PROVE HeldIsPolling'
    BY <2>4, <1>0, ZenonT(30) DEF Steal, At, Go, LocalQueue, Owner, tableVars, wakerVars, loopVars,
       callVars, HeldIsPolling, HoldsFuture, HeldIsTaken, AbsentIsEmpty, SingleLease,
       MarkSafe, Pinned, TaskLocations
  <2>5. CASE RouteOwner(h)
    BY <2>5, <1>0, ZenonT(30) DEF RouteOwner, Calling, CallTo, tableVars, wakerVars, loopVars,
       callVars, HeldIsPolling, HoldsFuture, HeldIsTaken, AbsentIsEmpty, SingleLease,
       MarkSafe, Pinned, TaskLocations
  <2>6. CASE DrainWakes(h)
    BY <2>6, <1>0, ZenonT(30) DEF DrainWakes, At, Go, Range, tableVars, wakerVars, loopVars, callVars,
       HeldIsPolling, HoldsFuture, HeldIsTaken, AbsentIsEmpty, SingleLease, MarkSafe,
       Pinned, TaskLocations
  <2>7. CASE DrainNothing(h)
    BY <2>7, <1>0, ZenonT(30) DEF DrainNothing, At, Go, tableVars, wakerVars, loopVars, callVars,
       HeldIsPolling, HoldsFuture, HeldIsTaken, AbsentIsEmpty, SingleLease, MarkSafe,
       Pinned, TaskLocations
  <2>8. CASE ResolveWakes(h)
    BY <2>8, <1>0, ZenonT(30) DEF ResolveWakes, At, Go, tableVars, wakerVars, loopVars, callVars,
       HeldIsPolling, HoldsFuture, HeldIsTaken, AbsentIsEmpty, SingleLease, MarkSafe,
       Pinned, TaskLocations
  <2>9. CASE CommitDone(h)
    BY <2>9, <1>0 DEF CommitDone, At, Go, tableVars, wakerVars, loopVars, callVars,
       HeldIsPolling, HoldsFuture, HeldIsTaken, AbsentIsEmpty, SingleLease, MarkSafe,
       Pinned, TaskLocations
  <2>10. CASE PickNone(h)
    BY <2>10, <1>0, ZenonT(30) DEF PickNone, At, Go, tableVars, wakerVars, loopVars, callVars,
       HeldIsPolling, HoldsFuture, HeldIsTaken, AbsentIsEmpty, SingleLease, MarkSafe,
       Pinned, TaskLocations
  <2>11. CASE TakeRunnable(h)
    BY <2>11, <1>0, ZenonT(30) DEF TakeRunnable, At, Go, tableVars, wakerVars, loopVars, callVars,
       HeldIsPolling, HoldsFuture, HeldIsTaken, AbsentIsEmpty, SingleLease, MarkSafe,
       Pinned, TaskLocations
  <2>12. CASE TakeMissing(h)
    BY <2>12, <1>0, ZenonT(30) DEF TakeMissing, At, Go, Release, TaskDropped, Owner, tableVars,
       wakerVars, loopVars, callVars, HeldIsPolling, HoldsFuture, HeldIsTaken,
       AbsentIsEmpty, SingleLease, MarkSafe, Pinned, TaskLocations
  <2>13. CASE TakeNotRunnable(h)
    BY <2>13, <1>0, ZenonT(30) DEF TakeNotRunnable, At, Go, Release, CommitStopped, Owner, tableVars,
       wakerVars, loopVars, callVars, HeldIsPolling, HoldsFuture, HeldIsTaken,
       AbsentIsEmpty, SingleLease, MarkSafe, Pinned, TaskLocations
  <2>14. CASE PollReady(h)
    BY <2>14, <1>0, ZenonT(30) DEF PollReady, At, Go, tableVars, wakerVars, loopVars, callVars,
       HeldIsPolling, HoldsFuture, HeldIsTaken, AbsentIsEmpty, SingleLease, MarkSafe,
       Pinned, TaskLocations
  <2>15. CASE StopCompleted(h)
    BY <2>15, <1>0, ZenonT(30) DEF StopCompleted, At, Go, CommitStopped, Owner, tableVars, wakerVars,
       loopVars, callVars, HeldIsPolling, HoldsFuture, HeldIsTaken, AbsentIsEmpty,
       SingleLease, MarkSafe, Pinned, TaskLocations
  <2>16. CASE DropCompleted(h)
    BY <2>16, <1>0, ZenonT(30) DEF DropCompleted, At, Go, Release, TaskDropped, Owner, tableVars,
       wakerVars, loopVars, callVars, HeldIsPolling, HoldsFuture, HeldIsTaken,
       AbsentIsEmpty, SingleLease, MarkSafe, Pinned, TaskLocations
  <2>17. CASE PollPreempted(h)
    BY <2>17, <1>0, ZenonT(30) DEF PollPreempted, At, Go, tableVars, wakerVars, loopVars, callVars,
       HeldIsPolling, HoldsFuture, HeldIsTaken, AbsentIsEmpty, SingleLease, MarkSafe,
       Pinned, TaskLocations
  <2>18. CASE StopRunnable(h)
    BY <2>18, <1>0, ZenonT(30) DEF StopRunnable, At, Go, Release, CommitStopped, Placement, Owner,
       tableVars, wakerVars, loopVars, callVars, HeldIsPolling, HoldsFuture, HeldIsTaken,
       AbsentIsEmpty, SingleLease, MarkSafe, Pinned, TaskLocations
  <2>19. CASE PollPending(h)
    BY <2>19, <1>0 DEF PollPending, At, Go, CommitStopped, Owner, tableVars, wakerVars,
       loopVars, callVars, HeldIsPolling, HoldsFuture, HeldIsTaken, AbsentIsEmpty,
       SingleLease, MarkSafe, Pinned, TaskLocations
  <2>20. CASE FinishParked(h)
    BY <2>20, <1>0, ZenonT(30) DEF FinishParked, At, Go, Release, tableVars, wakerVars, loopVars,
       callVars, HeldIsPolling, HoldsFuture, HeldIsTaken, AbsentIsEmpty, SingleLease,
       MarkSafe, Pinned, TaskLocations
  <2>21. CASE FinishRaced(h)
    BY <2>21, <1>0, ZenonT(30) DEF FinishRaced, At, Go, tableVars, wakerVars, loopVars, callVars,
       HeldIsPolling, HoldsFuture, HeldIsTaken, AbsentIsEmpty, SingleLease, MarkSafe,
       Pinned, TaskLocations
  <2>22. CASE MarkRunnable(h)
    BY <2>22, <1>0 DEF MarkRunnable, At, Go, tableVars, wakerVars, loopVars, callVars,
       HeldIsPolling, HoldsFuture, HeldIsTaken, AbsentIsEmpty, SingleLease, MarkSafe,
       Pinned, TaskLocations
  <2>23. CASE MarkTerminal(h)
    BY <2>23, <1>0, ZenonT(30) DEF MarkTerminal, At, Go, Release, tableVars, wakerVars, loopVars,
       callVars, HeldIsPolling, HoldsFuture, HeldIsTaken, AbsentIsEmpty, SingleLease,
       MarkSafe, Pinned, TaskLocations
  <2>24. CASE MarkCommit(h)
    BY <2>24, <1>0, ZenonT(30) DEF MarkCommit, At, Go, Release, CommitRunnable, Placement, Owner,
       tableVars, wakerVars, loopVars, callVars, HeldIsPolling, HoldsFuture, HeldIsTaken,
       AbsentIsEmpty, SingleLease, MarkSafe, Pinned, TaskLocations
  <2> QED BY <1>2, <2>1, <2>2, <2>3, <2>4, <2>5, <2>6, <2>7, <2>8, <2>9, <2>10, <2>11,
     <2>12, <2>13, <2>14, <2>15, <2>16, <2>17, <2>18, <2>19, <2>20, <2>21, <2>22, <2>23,
     <2>24, Zenon DEF HartNext, Drain, CallProgress, LoopProgress, PollReturns, tableVars,
     wakerVars, loopVars, callVars, Release, CallTo, StartWake, StartPost,
     ReserveSubmitted, WakeSwap, WakeCount, WakePush, RouteCommit, CommitWoken
<1> QED BY <1>1, <1>2 DEF Next

\* A wake bit keeps its entry until the drain that resolves it.
LEMMA BitStep ==
  LeaseParts /\ MarkSafe /\ BitHasEntry /\ [Next]_vars => BitHasEntry'
<1> SUFFICES ASSUME LeaseParts, MarkSafe, BitHasEntry, [Next]_vars PROVE BitHasEntry'
  OBVIOUS
<1>0. /\ status \in [Tasks -> Statuses] /\ wakeReq \subseteq Tasks
      /\ batch \in [Harts -> SUBSET Tasks] /\ callStep \in [Harts -> CallSteps]
      /\ callTask \in [Harts -> Tasks \cup {NoTask}]
      /\ \A g \in Harts : /\ callStep[g] # "None" => callTask[g] \in Tasks
                          /\ pc[g] # "Resolve" => batch[g] = {}
                          /\ pc[g] \in TaskLocations => cur[g] \in Tasks
  BY Zenon DEF LeaseParts, TypeOK, AtHand
<1>1. CASE UNCHANGED vars
  BY <1>1, Zenon DEF vars, BitHasEntry, EntryComing, TaskLocations
<1>2. ASSUME NEW h \in Harts, HartNext(h) PROVE BitHasEntry'
  <2>1. ASSUME UNCHANGED <<status, wakeReq, wakeQueue, batch, callStep, callTask>> PROVE
     BitHasEntry'
    BY <2>1, Zenon DEF BitHasEntry, EntryComing, TaskLocations
  <2>2. ASSUME NEW t \in Tasks, StartWake(h, t) PROVE BitHasEntry'
    <3> SUFFICES ASSUME NEW u \in wakeReq' \cap Pinned, status'[u] # "Polling" PROVE EntryComing(u)'
      BY Zenon DEF BitHasEntry
    <3>1. EntryComing(u)
      BY <2>2, <1>0, Zenon DEF StartWake, StartCall, Owe, MayCall, BitHasEntry, tableVars,
         wakerVars, loopVars, callVars
    <3>2. \A g \in Harts : callStep[g] \in {"Count", "Push"} => callStep'[g] = callStep[g]
       /\ callTask'[g] = callTask[g]
      BY <2>2, <1>0, Zenon DEF StartWake, StartCall, Owe, MayCall
    <3> QED BY <2>2, <3>1, <3>2, Zenon DEF StartWake, EntryComing, wakerVars, loopVars
  <2>3. ASSUME NEW t \in Tasks, StartPost(h, t) PROVE BitHasEntry'
    <3> SUFFICES ASSUME NEW u \in wakeReq' \cap Pinned, status'[u] # "Polling" PROVE EntryComing(u)'
      BY Zenon DEF BitHasEntry
    <3>1. EntryComing(u)
      BY <2>3, <1>0, Zenon DEF StartPost, StartCall, Owe, MayCall, BitHasEntry, tableVars,
         wakerVars, loopVars, callVars
    <3>2. \A g \in Harts : callStep[g] \in {"Count", "Push"} => callStep'[g] = callStep[g]
       /\ callTask'[g] = callTask[g]
      BY <2>3, <1>0, ZenonT(30) DEF StartPost, StartCall, Owe, MayCall
    <3> QED BY <2>3, <3>1, <3>2, Zenon DEF StartPost, EntryComing, wakerVars, loopVars
  <2>4. ASSUME NEW t \in Tasks, Submit(h, t) PROVE BitHasEntry'
    <3> SUFFICES ASSUME NEW u \in wakeReq' \cap Pinned, status'[u] # "Polling" PROVE EntryComing(u)'
      BY Zenon DEF BitHasEntry
    <3>1. EntryComing(u)
      BY <2>4, <1>0, Zenon DEF Submit, StartCall, MayCall, BitHasEntry, tableVars, wakerVars,
         loopVars, callVars
    <3>2. \A g \in Harts : callStep[g] \in {"Count", "Push"} => callStep'[g] = callStep[g]
       /\ callTask'[g] = callTask[g]
      BY <2>4, <1>0, Zenon DEF Submit, StartCall, MayCall
    <3> QED BY <2>4, <3>1, <3>2, Zenon DEF Submit, EntryComing, wakerVars, loopVars
  <2>5. CASE ReserveSubmitted(h)
    <3> SUFFICES ASSUME NEW u \in wakeReq' \cap Pinned, status'[u] # "Polling" PROVE EntryComing(u)'
      BY Zenon DEF BitHasEntry
    <3>1. EntryComing(u)
      BY <2>5, <1>0, Zenon DEF ReserveSubmitted, Calling, CallTo, Owner, Placement, BitHasEntry,
         tableVars, wakerVars, loopVars, callVars
    <3>2. \A g \in Harts : callStep[g] \in {"Count", "Push"} => callStep'[g] = callStep[g]
       /\ callTask'[g] = callTask[g]
      BY <2>5, <1>0, Zenon DEF ReserveSubmitted, Calling, CallTo, Owner, Placement
    <3> QED BY <2>5, <3>1, <3>2, Zenon DEF ReserveSubmitted, EntryComing, wakerVars, loopVars
  <2>6. CASE WakeSwap(h)
    <3> SUFFICES ASSUME NEW u \in wakeReq' \cap Pinned, status'[u] # "Polling" PROVE EntryComing(u)'
      BY Zenon DEF BitHasEntry
    <3>1. CASE u \in wakeReq
      <4>1. EntryComing(u)
        BY <2>6, <3>1, Zenon DEF WakeSwap, tableVars, BitHasEntry
      <4>2. \A g \in Harts : callStep[g] \in {"Count", "Push"} => callStep'[g] =
         callStep[g] /\ callTask'[g] = callTask[g]
        BY <2>6, <1>0, Zenon DEF WakeSwap, Calling, CallTo
      <4> QED BY <2>6, <4>1, <4>2, Zenon DEF WakeSwap, EntryComing, loopVars
    <3>2. CASE u \notin wakeReq
      <4>1. callTask'[h] = u /\ callStep'[h] = "Count"
        BY <2>6, <3>2, <1>0, Zenon DEF WakeSwap, Calling, CallTo
      <4> QED BY <4>1, Zenon DEF EntryComing
    <3> QED BY <3>1, <3>2
  <2>7. CASE WakeCount(h)
    <3> SUFFICES ASSUME NEW u \in wakeReq' \cap Pinned, status'[u] # "Polling" PROVE EntryComing(u)'
      BY Zenon DEF BitHasEntry
    <3>1. EntryComing(u)
      BY <2>7, Zenon DEF WakeCount, BitHasEntry, tableVars
    <3>2. \A g \in Harts : callStep[g] \in {"Count", "Push"} => callStep'[g] \in {"Count",
       "Push"} /\ callTask'[g] = callTask[g]
      BY <2>7, <1>0, Zenon DEF WakeCount, Calling, CallTo
    <3> QED BY <2>7, <3>1, <3>2, Zenon DEF WakeCount, EntryComing, loopVars
  <2>8. CASE WakePush(h)
    <3> SUFFICES ASSUME NEW u \in wakeReq' \cap Pinned, status'[u] # "Polling" PROVE EntryComing(u)'
      BY Zenon DEF BitHasEntry
    <3>1. callTask[h] \in Tasks
      <4>1. callStep[h] = "Push"
        BY <2>8, Zenon DEF WakePush, Calling
      <4> QED BY <4>1, <1>0, Zenon
    <3>2. Range(wakeQueue') = Range(wakeQueue) \cup {callTask[h]}
      <4>1. wakeQueue' = Append(wakeQueue, callTask[h])
        BY <2>8, Zenon DEF WakePush
      <4>2. wakeQueue \in Seq(Tasks)
        BY Zenon DEF LeaseParts, TypeOK
      <4> QED BY <3>1, <4>1, <4>2, RangeAppend
    <3>3. EntryComing(u)
      BY <2>8, Zenon DEF WakePush, BitHasEntry, tableVars
    <3>4. \A g \in Harts : g # h => callStep'[g] = callStep[g] /\ callTask'[g] =
       callTask[g]
      BY <2>8, <1>0, Zenon DEF WakePush, Calling, CallTo
    <3>5. CASE u = callTask[h]
      BY <3>2, <3>5, Zenon DEF EntryComing
    <3>6. CASE u # callTask[h]
      BY <2>8, <3>2, <3>3, <3>4, <3>6, Zenon DEF WakePush, EntryComing, loopVars
    <3> QED BY <3>5, <3>6
  <2>9. CASE RouteOwner(h)
    <3> SUFFICES ASSUME NEW u \in wakeReq' \cap Pinned, status'[u] # "Polling" PROVE EntryComing(u)'
      BY Zenon DEF BitHasEntry
    <3>1. EntryComing(u)
      BY <2>9, <1>0, Zenon DEF RouteOwner, Calling, CallTo, BitHasEntry, tableVars, wakerVars,
         loopVars, callVars
    <3>2. \A g \in Harts : callStep[g] \in {"Count", "Push"} => callStep'[g] = callStep[g]
       /\ callTask'[g] = callTask[g]
      BY <2>9, <1>0, Zenon DEF RouteOwner, Calling, CallTo
    <3> QED BY <2>9, <3>1, <3>2, Zenon DEF RouteOwner, EntryComing, wakerVars, loopVars
  <2>10. CASE RouteCommit(h)
    <3> SUFFICES ASSUME NEW u \in wakeReq' \cap Pinned, status'[u] # "Polling" PROVE EntryComing(u)'
      BY Zenon DEF BitHasEntry
    <3>1. EntryComing(u)
      BY <2>10, <1>0, Zenon DEF RouteCommit, Calling, CallTo, CommitRunnable, Owner, Placement,
         BitHasEntry, tableVars, wakerVars, loopVars, callVars
    <3>2. \A g \in Harts : callStep[g] \in {"Count", "Push"} => callStep'[g] = callStep[g]
       /\ callTask'[g] = callTask[g]
      BY <2>10, <1>0, Zenon DEF RouteCommit, Calling, CallTo, CommitRunnable, Owner, Placement
    <3> QED BY <2>10, <3>1, <3>2, Zenon DEF RouteCommit, EntryComing, wakerVars, loopVars
  <2>11. CASE DrainWakes(h)
    <3> SUFFICES ASSUME NEW u \in wakeReq' \cap Pinned, status'[u] # "Polling" PROVE EntryComing(u)'
      BY Zenon DEF BitHasEntry
    <3>1. EntryComing(u)
      BY <2>11, Zenon DEF DrainWakes, BitHasEntry, tableVars
    <3>2. batch' = [batch EXCEPT ![h] = Range(wakeQueue)]
      BY <2>11, Zenon DEF DrainWakes
    <3>a. batch[h] = {}
      <4>1. pc[h] = "Loop"
        BY <2>11, Zenon DEF DrainWakes, At
      <4> QED BY <4>1, <1>0, Zenon
    <3>3. \A g \in Harts : batch[g] \subseteq batch'[g]
      BY <3>2, <3>a, <1>0, Zenon
    <3>4. u \in Range(wakeQueue) => u \in batch'[h]
      BY <3>2, <1>0, Zenon
    <3> QED BY <2>11, <3>1, <3>3, <3>4, Zenon DEF DrainWakes, EntryComing, callVars
  <2>12. CASE ResolveWakes(h)
    <3> SUFFICES ASSUME NEW u \in wakeReq' \cap Pinned, status'[u] # "Polling" PROVE EntryComing(u)'
      BY Zenon DEF BitHasEntry
    <3>1. u \in wakeReq /\ u \notin batch[h] /\ status[u] # "Polling"
      BY <2>12, <1>0, Zenon DEF ResolveWakes
    <3>2. EntryComing(u)
      BY <3>1, Zenon DEF BitHasEntry
    <3>3. \A g \in Harts : g # h => batch'[g] = batch[g]
      BY <2>12, <1>0, Zenon DEF ResolveWakes
    <3> QED BY <2>12, <3>1, <3>2, <3>3, Zenon DEF ResolveWakes, EntryComing, callVars
  <2>13. CASE TakeRunnable(h)
    <3> SUFFICES ASSUME NEW u \in wakeReq' \cap Pinned, status'[u] # "Polling" PROVE EntryComing(u)'
      BY Zenon DEF BitHasEntry
    <3>1. EntryComing(u)
      BY <2>13, <1>0, Zenon DEF TakeRunnable, At, Go, BitHasEntry
    <3> QED BY <2>13, <3>1, Zenon DEF TakeRunnable, EntryComing, callVars
  <2>14. CASE PollReady(h)
    <3> SUFFICES ASSUME NEW u \in wakeReq' \cap Pinned, status'[u] # "Polling" PROVE EntryComing(u)'
      BY Zenon DEF BitHasEntry
    <3>1. EntryComing(u)
      BY <2>14, <1>0, Zenon DEF PollReady, At, Go, BitHasEntry
    <3> QED BY <2>14, <3>1, Zenon DEF PollReady, EntryComing, callVars
  <2>15. CASE PollPreempted(h)
    <3> SUFFICES ASSUME NEW u \in wakeReq' \cap Pinned, status'[u] # "Polling" PROVE EntryComing(u)'
      BY Zenon DEF BitHasEntry
    <3>1. EntryComing(u)
      BY <2>15, <1>0, Zenon DEF PollPreempted, At, Go, BitHasEntry
    <3> QED BY <2>15, <3>1, Zenon DEF PollPreempted, EntryComing, callVars
  <2>16. CASE FinishParked(h)
    <3> SUFFICES ASSUME NEW u \in wakeReq' \cap Pinned, status'[u] # "Polling" PROVE EntryComing(u)'
      BY Zenon DEF BitHasEntry, wakerVars
    <3>1. EntryComing(u)
      BY <2>16, <1>0, Zenon DEF FinishParked, At, Go, Release, BitHasEntry, wakerVars
    <3> QED BY <2>16, <3>1, Zenon DEF FinishParked, EntryComing, callVars, wakerVars
  <2>17. CASE FinishRaced(h)
    <3> SUFFICES ASSUME NEW u \in wakeReq' \cap Pinned, status'[u] # "Polling" PROVE EntryComing(u)'
      BY Zenon DEF BitHasEntry
    <3>1. EntryComing(u)
      BY <2>17, <1>0, Zenon DEF FinishRaced, At, Go, BitHasEntry
    <3> QED BY <2>17, <3>1, Zenon DEF FinishRaced, EntryComing, callVars
  <2>18. CASE MarkRunnable(h)
    <3> SUFFICES ASSUME NEW u \in wakeReq' \cap Pinned, status'[u] # "Polling" PROVE EntryComing(u)'
      BY Zenon DEF BitHasEntry
    <3>1. EntryComing(u)
      BY <2>18, <1>0, Zenon DEF MarkRunnable, At, BitHasEntry, wakerVars, MarkSafe, Pinned
    <3> QED BY <2>18, <3>1, Zenon DEF MarkRunnable, EntryComing, callVars, wakerVars
  <2> QED BY <1>2, <2>1, <2>2, <2>3, <2>4, <2>5, <2>6, <2>7, <2>8, <2>9, <2>10, <2>11,
     <2>12, <2>13, <2>14, <2>15, <2>16, <2>17, <2>18, Zenon DEF HartNext, Drain, CallProgress,
     LoopProgress, PollReturns, tableVars, wakerVars, loopVars, callVars, Release, CallTo,
     PickNext, Steal, DrainNothing, CommitWoken, CommitDone, PickNone, TakeMissing,
     TakeNotRunnable, StopCompleted, DropCompleted, StopRunnable, PollPending,
     MarkTerminal, MarkCommit
<1> QED BY <1>1, <1>2 DEF Next

\* A wake that no poll has seen stays visible.
LEMMA OwedStep ==
  LeaseParts /\ HeldIsPolling /\ OwedIsPending /\ [Next]_vars => OwedIsPending'
<1> SUFFICES ASSUME LeaseParts, HeldIsPolling, OwedIsPending, [Next]_vars PROVE
   OwedIsPending'
  OBVIOUS
<1>0. /\ status \in [Tasks -> Statuses] /\ wakeReq \subseteq Tasks /\ owed \subseteq Tasks
      /\ callStep \in [Harts -> CallSteps] /\ callTask \in [Harts -> Tasks \cup {NoTask}]
      /\ batch \in [Harts -> SUBSET Tasks]
      /\ \A g \in Harts : /\ pc[g] \in {"Poll", "FinishPending", "Mark", "Take"} => cur[g] \in Tasks
                          /\ callStep[g] # "None" => callTask[g] \in Tasks
  BY Zenon DEF LeaseParts, TypeOK, AtHand, TaskLocations
<1>1. CASE UNCHANGED vars
  BY <1>1, Zenon DEF vars, OwedIsPending, Caller
<1>2. ASSUME NEW h \in Harts, HartNext(h) PROVE OwedIsPending'
  <2>1. ASSUME UNCHANGED <<owed, status, wakeReq, callStep, callTask>> PROVE OwedIsPending'
    BY <2>1, Zenon DEF OwedIsPending, Caller
  <2>2. ASSUME NEW t \in Tasks, StartWake(h, t) PROVE OwedIsPending'
    <3> SUFFICES ASSUME NEW u \in owed' \cap Pinned, status'[u] \in {"Parked", "Polling"},
       u \notin wakeReq'
                 PROVE  Caller(u)'
      BY Zenon DEF OwedIsPending
    <3>1. CASE u = t
      <4>1. callTask'[h] = u /\ callStep'[h] \in {"Swap", "Route"}
        BY <2>2, <1>0, <3>1, Zenon DEF StartWake, StartCall
      <4> QED BY <4>1 DEF Caller
    <3>2. CASE u # t
      <4>1. u \in owed /\ status[u] \in {"Parked", "Polling"} /\ u \notin wakeReq
        BY <2>2, <3>2, Zenon DEF StartWake, Owe, wakerVars, tableVars
      <4>2. PICK g \in Harts : callTask[g] = u /\ callStep[g] \in {"Swap", "Route"}
        BY <4>1, Zenon DEF OwedIsPending, Caller
      <4>3. callTask'[g] = u /\ callStep'[g] \in {"Swap", "Route"}
        BY <2>2, <1>0, <4>2, Zenon DEF StartWake, StartCall, MayCall
      <4> QED BY <4>3 DEF Caller
    <3> QED BY <3>1, <3>2
  <2>3. ASSUME NEW t \in Tasks, StartPost(h, t) PROVE OwedIsPending'
    <3> SUFFICES ASSUME NEW u \in owed' \cap Pinned, status'[u] \in {"Parked", "Polling"},
       u \notin wakeReq'
                 PROVE  Caller(u)'
      BY Zenon DEF OwedIsPending
    <3>1. CASE u = t
      <4>1. callTask'[h] = u /\ callStep'[h] \in {"Swap", "Route"}
        BY <2>3, <1>0, <3>1, Zenon DEF StartPost, StartCall
      <4> QED BY <4>1 DEF Caller
    <3>2. CASE u # t
      <4>1. u \in owed /\ status[u] \in {"Parked", "Polling"} /\ u \notin wakeReq
        BY <2>3, <3>2, Zenon DEF StartPost, Owe, wakerVars, tableVars
      <4>2. PICK g \in Harts : callTask[g] = u /\ callStep[g] \in {"Swap", "Route"}
        BY <4>1, Zenon DEF OwedIsPending, Caller
      <4>3. callTask'[g] = u /\ callStep'[g] \in {"Swap", "Route"}
        BY <2>3, <1>0, <4>2, Zenon DEF StartPost, StartCall, MayCall
      <4> QED BY <4>3 DEF Caller
    <3> QED BY <3>1, <3>2
  <2>4. ASSUME NEW t \in Tasks, Submit(h, t) PROVE OwedIsPending'
    <3> SUFFICES ASSUME NEW u \in owed' \cap Pinned, status'[u] \in {"Parked", "Polling"},
       u \notin wakeReq'
                 PROVE  Caller(u)'
      BY Zenon DEF OwedIsPending
    <3>1. u \in owed /\ status[u] \in {"Parked", "Polling"} /\ u \notin wakeReq
      BY <2>4, <1>0, Zenon DEF Submit, wakerVars, tableVars
    <3>2. PICK g \in Harts : callTask[g] = u /\ callStep[g] \in {"Swap", "Route"}
      BY <3>1, Zenon DEF OwedIsPending, Caller
    <3>3. callTask'[g] = u /\ callStep'[g] \in {"Swap", "Route"}
      BY <2>4, <1>0, <3>1, <3>2, Zenon DEF Submit, StartCall, MayCall
    <3> QED BY <3>3 DEF Caller
  <2>5. CASE ReserveSubmitted(h)
    <3> SUFFICES ASSUME NEW u \in owed' \cap Pinned, status'[u] \in {"Parked", "Polling"},
       u \notin wakeReq'
                 PROVE  Caller(u)'
      BY Zenon DEF OwedIsPending
    <3>1. u \in owed /\ status[u] \in {"Parked", "Polling"} /\ u \notin wakeReq
      BY <2>5, <1>0, Zenon DEF ReserveSubmitted, wakerVars, tableVars
    <3>2. PICK g \in Harts : callTask[g] = u /\ callStep[g] \in {"Swap", "Route"}
      BY <3>1, Zenon DEF OwedIsPending, Caller
    <3>3. callTask'[g] = u /\ callStep'[g] \in {"Swap", "Route"}
      BY <2>5, <1>0, <3>1, <3>2, Zenon DEF ReserveSubmitted, Calling, CallTo
    <3> QED BY <3>3 DEF Caller
  <2>6. CASE WakeSwap(h)
    <3> SUFFICES ASSUME NEW u \in owed' \cap Pinned, status'[u] \in {"Parked", "Polling"},
       u \notin wakeReq'
                 PROVE  Caller(u)'
      BY Zenon DEF OwedIsPending
    <3>1. u \in owed /\ status[u] \in {"Parked", "Polling"} /\ u \notin wakeReq
      BY <2>6, <1>0, Zenon DEF WakeSwap, wakerVars, tableVars
    <3>2. PICK g \in Harts : callTask[g] = u /\ callStep[g] \in {"Swap", "Route"}
      BY <3>1, Zenon DEF OwedIsPending, Caller
    <3>3. callTask'[g] = u /\ callStep'[g] \in {"Swap", "Route"}
      BY <2>6, <1>0, <3>1, <3>2, Zenon DEF WakeSwap, Calling, CallTo
    <3> QED BY <3>3 DEF Caller
  <2>7. CASE WakeCount(h)
    <3> SUFFICES ASSUME NEW u \in owed' \cap Pinned, status'[u] \in {"Parked", "Polling"},
       u \notin wakeReq'
                 PROVE  Caller(u)'
      BY Zenon DEF OwedIsPending
    <3>1. u \in owed /\ status[u] \in {"Parked", "Polling"} /\ u \notin wakeReq
      BY <2>7, <1>0, Zenon DEF WakeCount, wakerVars, tableVars
    <3>2. PICK g \in Harts : callTask[g] = u /\ callStep[g] \in {"Swap", "Route"}
      BY <3>1, Zenon DEF OwedIsPending, Caller
    <3>3. callTask'[g] = u /\ callStep'[g] \in {"Swap", "Route"}
      BY <2>7, <1>0, <3>1, <3>2, Zenon DEF WakeCount, Calling, CallTo
    <3> QED BY <3>3 DEF Caller
  <2>8. CASE WakePush(h)
    <3> SUFFICES ASSUME NEW u \in owed' \cap Pinned, status'[u] \in {"Parked", "Polling"},
       u \notin wakeReq'
                 PROVE  Caller(u)'
      BY Zenon DEF OwedIsPending
    <3>1. u \in owed /\ status[u] \in {"Parked", "Polling"} /\ u \notin wakeReq
      BY <2>8, <1>0, Zenon DEF WakePush, wakerVars, tableVars
    <3>2. PICK g \in Harts : callTask[g] = u /\ callStep[g] \in {"Swap", "Route"}
      BY <3>1, Zenon DEF OwedIsPending, Caller
    <3>3. callTask'[g] = u /\ callStep'[g] \in {"Swap", "Route"}
      BY <2>8, <1>0, <3>1, <3>2, Zenon DEF WakePush, Calling, CallTo
    <3> QED BY <3>3 DEF Caller
  <2>9. CASE RouteOwner(h)
    <3> SUFFICES ASSUME NEW u \in owed' \cap Pinned, status'[u] \in {"Parked", "Polling"},
       u \notin wakeReq'
                 PROVE  Caller(u)'
      BY Zenon DEF OwedIsPending
    <3>1. u \in owed /\ status[u] \in {"Parked", "Polling"} /\ u \notin wakeReq
      BY <2>9, <1>0, Zenon DEF RouteOwner, Calling, wakerVars, tableVars
    <3>2. PICK g \in Harts : callTask[g] = u /\ callStep[g] \in {"Swap", "Route"}
      BY <3>1, Zenon DEF OwedIsPending, Caller
    <3>3. callTask'[g] = u /\ callStep'[g] \in {"Swap", "Route"}
      BY <2>9, <1>0, <3>1, <3>2, Zenon DEF RouteOwner, Calling, CallTo
    <3> QED BY <3>3 DEF Caller
  <2>10. CASE RouteCommit(h)
    <3> SUFFICES ASSUME NEW u \in owed' \cap Pinned, status'[u] \in {"Parked", "Polling"},
       u \notin wakeReq'
                 PROVE  Caller(u)'
      BY Zenon DEF OwedIsPending
    <3>1. u \in owed /\ status[u] \in {"Parked", "Polling"} /\ u \notin wakeReq
      BY <2>10, <1>0, Zenon DEF RouteCommit, wakerVars, tableVars
    <3>2. PICK g \in Harts : callTask[g] = u /\ callStep[g] \in {"Swap", "Route"}
      BY <3>1, Zenon DEF OwedIsPending, Caller
    <3>3. callTask'[g] = u /\ callStep'[g] \in {"Swap", "Route"}
      BY <2>10, <1>0, <3>1, <3>2, Zenon DEF RouteCommit, Calling, CallTo
    <3> QED BY <3>3 DEF Caller
  <2>11. CASE ResolveWakes(h)
    <3> SUFFICES ASSUME NEW u \in owed' \cap Pinned, status'[u] \in {"Parked", "Polling"},
       u \notin wakeReq'
                 PROVE  Caller(u)'
      BY Zenon DEF OwedIsPending
    <3>1. u \in owed /\ status[u] \in {"Parked", "Polling"} /\ u \notin wakeReq
      BY <2>11, <1>0, Zenon DEF ResolveWakes, At, wakerVars, tableVars
    <3> QED BY <2>11, <3>1, Zenon DEF ResolveWakes, OwedIsPending, Caller, callVars, Pinned
  <2>12. CASE TakeRunnable(h)
    <3> SUFFICES ASSUME NEW u \in owed' \cap Pinned, status'[u] \in {"Parked", "Polling"},
       u \notin wakeReq'
                 PROVE  Caller(u)'
      BY Zenon DEF OwedIsPending
    <3>1. u \in owed /\ status[u] \in {"Parked", "Polling"} /\ u \notin wakeReq
      BY <2>12, <1>0, Zenon DEF TakeRunnable, At, wakerVars, tableVars
    <3> QED BY <2>12, <3>1, Zenon DEF TakeRunnable, OwedIsPending, Caller, callVars, Pinned
  <2>13. CASE PollReady(h)
    <3> SUFFICES ASSUME NEW u \in owed' \cap Pinned, status'[u] \in {"Parked", "Polling"},
       u \notin wakeReq'
                 PROVE  Caller(u)'
      BY Zenon DEF OwedIsPending
    <3>1. u \in owed /\ status[u] \in {"Parked", "Polling"} /\ u \notin wakeReq
      BY <2>13, <1>0, Zenon DEF PollReady, At, wakerVars, tableVars
    <3> QED BY <2>13, <3>1, Zenon DEF PollReady, OwedIsPending, Caller, callVars, Pinned
  <2>14. CASE PollPreempted(h)
    <3> SUFFICES ASSUME NEW u \in owed' \cap Pinned, status'[u] \in {"Parked", "Polling"},
       u \notin wakeReq'
                 PROVE  Caller(u)'
      BY Zenon DEF OwedIsPending
    <3>1. u \in owed /\ status[u] \in {"Parked", "Polling"} /\ u \notin wakeReq
      BY <2>14, <1>0, Zenon DEF PollPreempted, At, wakerVars, tableVars
    <3> QED BY <2>14, <3>1, Zenon DEF PollPreempted, OwedIsPending, Caller, callVars, Pinned
  <2>15. CASE FinishParked(h)
    <3> SUFFICES ASSUME NEW u \in owed' \cap Pinned, status'[u] \in {"Parked", "Polling"},
       u \notin wakeReq'
                 PROVE  Caller(u)'
      BY Zenon DEF OwedIsPending
    <3>1. u \in owed /\ status[u] \in {"Parked", "Polling"} /\ u \notin wakeReq
      BY <2>15, <1>0, Zenon DEF FinishParked, At, HeldIsPolling, HoldsFuture, wakerVars, tableVars
    <3> QED BY <2>15, <3>1, Zenon DEF FinishParked, OwedIsPending, Caller, callVars, Pinned
  <2>16. CASE FinishRaced(h)
    <3> SUFFICES ASSUME NEW u \in owed' \cap Pinned, status'[u] \in {"Parked", "Polling"},
       u \notin wakeReq'
                 PROVE  Caller(u)'
      BY Zenon DEF OwedIsPending
    <3>1. u \in owed /\ status[u] \in {"Parked", "Polling"} /\ u \notin wakeReq
      BY <2>16, <1>0, Zenon DEF FinishRaced, At, wakerVars, tableVars
    <3> QED BY <2>16, <3>1, Zenon DEF FinishRaced, OwedIsPending, Caller, callVars, Pinned
  <2>17. CASE MarkRunnable(h)
    <3> SUFFICES ASSUME NEW u \in owed' \cap Pinned, status'[u] \in {"Parked", "Polling"},
       u \notin wakeReq'
                 PROVE  Caller(u)'
      BY Zenon DEF OwedIsPending
    <3>1. u \in owed /\ status[u] \in {"Parked", "Polling"} /\ u \notin wakeReq
      BY <2>17, <1>0, Zenon DEF MarkRunnable, At, wakerVars, tableVars
    <3> QED BY <2>17, <3>1, Zenon DEF MarkRunnable, OwedIsPending, Caller, callVars, Pinned
  <2> QED BY <1>2, <2>1, <2>2, <2>3, <2>4, <2>5, <2>6, <2>7, <2>8, <2>9, <2>10, <2>11,
     <2>12, <2>13, <2>14, <2>15, <2>16, <2>17, Zenon DEF HartNext, Drain, CallProgress,
     LoopProgress, PollReturns, tableVars, wakerVars, loopVars, callVars, Release, CallTo,
     PickNext, Steal, DrainWakes, DrainNothing, CommitWoken, CommitDone, PickNone,
     TakeMissing, TakeNotRunnable, StopCompleted, DropCompleted, StopRunnable, PollPending,
     MarkTerminal, MarkCommit
<1> QED BY <1>1, <1>2 DEF Next

WakeInv == LeaseInv /\ PinnedInv /\ MarkSafe /\ HeldIsPolling /\ BitHasEntry /\ OwedIsPending

\* A task that is never migrated loses no wake, neither one of its wakers nor
\* one through a mailbox post, whatever the other tasks do.
THEOREM PinnedWakeSafety == Spec => []PinnedWakeNotLost
<1>1. Init => WakeInv
  <2> SUFFICES ASSUME Init PROVE WakeInv
    OBVIOUS
  <2>1. LeaseInv
    BY LeaseInit
  <2>2. HeldIsPolling /\ BitHasEntry /\ OwedIsPending /\ MarkSafe
    BY Zenon DEF Init, HeldIsPolling, BitHasEntry, OwedIsPending, HoldsFuture, MarkSafe
  <2>3. PinnedInv
    BY Zenon DEF Init, Owner, PinnedInv, TaskLocations, Pinned
  <2> QED BY <2>1, <2>2, <2>3 DEF WakeInv
<1>2. WakeInv /\ [Next]_vars => WakeInv'
  BY LeasePartsStep, CounterStep, PinnedStep, MarkStep, HeldStep, BitStep, OwedStep, Zenon
  DEF WakeInv, LeaseInv, WakeCounter, Counted, pushing
<1>3. WakeInv => PinnedWakeNotLost
  BY Zenon DEF WakeInv, LeaseInv, LeaseParts, TypeOK, BitHasEntry, OwedIsPending, PinnedWakeNotLost, WakeTracked, Pinned, Caller
<1> QED BY <1>1, <1>2, <1>3, PTL DEF Spec
=============================================================================
