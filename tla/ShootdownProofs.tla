-------------------------- MODULE ShootdownProofs --------------------------
(***************************************************************************)
(* NoStaleTranslation, NobodyAwaitsStopped and RequestIsHeard hold for     *)
(* every set of CPUs and pages.  The inductive invariant has four layers:  *)
(* Control, and three that are each proved with its help:                  *)
(*   Control  where a CPU is, by the masks it is in; the page a sender     *)
(*            holds; the targets it has still to pin or to wait for;       *)
(*   Pins     the counter of a target counts the senders that pin it, and  *)
(*            nobody has pinned a CPU that has seen its counter at zero;   *)
(*   Fresh    a CPU that may still hold the translation of a page is one   *)
(*            that its sender has yet to pin, or that owes it a flush.     *)
(*   Heard    a mailbox in service has an owner, and a request is being    *)
(*            served, or its interrupt is pending or about to be sent.     *)
(***************************************************************************)
EXTENDS Shootdown, FiniteSetTheorems, WellFoundedInduction, TLAPS

Draining == {"Drain", "LastService", "Quiesce", "Parked"}
GoneOffline == {"Offline", "Drain", "LastService", "Quiesce", "Parked"}
UserRoots == {"Installed", "User", "Leaving"}
Locking == {"LockWait", "Unmap"}
Pinning == {"PinUsers", "PinCheck", "Request", "SendIpi"}
Sending == {"Pin", "PinUsers", "PinCheck", "Request", "SendIpi", "Wait"}
Steps == {"Top", "Run", "Entering", "StopWait", "Halted", "Mask"}
         \cup GoneOffline \cup UserRoots \cup Locking \cup Sending

TaskType ==
    /\ pc \in [Cpus -> Steps]
    /\ page \in [Cpus -> Pages \cup {Nobody}]
    /\ todo \in [Cpus -> SUBSET Cpus] /\ pending \in [Cpus -> SUBSET Cpus]
    /\ gen \in [Cpus -> [Cpus -> Nat]]
    /\ lock \in [{"User", "Kernel"} -> Cpus \cup {Nobody}]
    /\ pte \in SUBSET Pages /\ freed \in SUBSET Pages
    /\ users \in [Cpus -> Int]

CpuSetType ==
    /\ resid \in SUBSET Cpus /\ online \in SUBSET Cpus /\ accepting \in SUBSET Cpus
    /\ stop \in BOOLEAN /\ stopped \in SUBSET Cpus

MailType ==
    /\ stale \in [Cpus -> SUBSET Pages]
    /\ requested \in [Cpus -> Nat] /\ completed \in [Cpus -> Nat]
    /\ servicing \in SUBSET Cpus /\ ipi \in SUBSET Cpus
    /\ svc \in [Cpus -> [Contexts -> {"None", "Claim", "Loop", "Flushed", "Release", "Recheck"}]]
    /\ seen \in [Cpus -> [Contexts -> Nat]]

\* The masks a CPU is in say how far it is on its way offline or to userspace.
Located(c) ==
    /\ c \in online <=> pc[c] \notin GoneOffline
    /\ c \in accepting <=> pc[c] \notin Draining
    /\ c \in stopped => pc[c] \in {"Quiesce", "Parked"}
    /\ pc[c] \in UserRoots \cup {"Entering"} => c \in resid

\* The page a sender holds: nobody else unmaps it, and it is not freed yet.
Holds(c) ==
    pc[c] \in {"Mask"} \cup Locking \cup Sending =>
        /\ page[c] \in Pages /\ Unmapper[page[c]] = c
        /\ page[c] \notin freed
        /\ page[c] \in pte <=> pc[c] \in Locking

\* A target is to be pinned or is waited for, and both only while its
\* request has been made and its interrupt has not been sent.
Targets(c) ==
    /\ pc[c] \in Pinning => todo[c] # {}
    /\ pc[c] \notin Sending => todo[c] = {} /\ pending[c] = {}
    /\ pc[c] = "Wait" => todo[c] = {}
    /\ pc[c] # "SendIpi" => todo[c] \cap pending[c] = {}
    /\ pc[c] = "SendIpi" => todo[c] \cap pending[c] = {Candidate(c)}

\* A TLB holds user translations only while a user root is installed.
UserStale(c) == \A p \in stale[c] : p \in UserPages => pc[c] \in UserRoots

Control ==
    /\ TaskType /\ CpuSetType /\ MailType
    /\ freed \cap pte = {}
    /\ \A c \in Cpus : Located(c) /\ Holds(c) /\ Targets(c) /\ UserStale(c)
-----------------------------------------------------------------------------
\* A sender counts in the users of t; and it has seen that t still accepts.
Pinned(c, t) == t \in pending[c] \/ (pc[c] \in {"PinCheck", "Request"} /\ t = Candidate(c))
Confirmed(c, t) == t \in pending[c] \/ (pc[c] = "Request" /\ t = Candidate(c))

Pinners(t) == {c \in Cpus : Pinned(c, t)}

\* The counter of a target counts its senders.
Counted(t) == users[t] = Cardinality(Pinners(t))

\* A CPU that has seen its counter at zero is asked for nothing any more: a
\* sender that pins it now finds at its second look that it does not accept.
Passed == {"LastService", "Quiesce", "Parked"}
Unawaited(t) == pc[t] \in Passed => \A c \in Cpus : ~Confirmed(c, t)

Pins == \A t \in Cpus : Counted(t) /\ Unawaited(t)
-----------------------------------------------------------------------------
\* No generation is ahead of the requests.
Bounded(d) == completed[d] <= requested[d] /\ \A x \in Contexts : seen[d][x] <= requested[d]

\* Nothing stale of a page that is still mapped, nor of the own page.
Cleared(d) == stale[d] \cap pte = {} /\ (pc[d] = "Mask" => page[d] \notin stale[d])

\* Whoever may hold the translation is still to be asked, waited for, or gone.
Reached(c) ==
    pc[c] \in Sending =>
        \A d \in Cpus : page[c] \in stale[d] =>
            \/ d \in todo[c] \cup pending[c]
            \/ page[c] \in KernelPages /\ d \notin online

\* A target that still holds it has not reached the generation, nor flushed for it.
Owed(c) ==
    \A d \in pending[c] : page[c] \in stale[d] =>
        /\ completed[d] < gen[c][d]
        /\ \A x \in Contexts : svc[d][x] = "Flushed" => seen[d][x] < gen[c][d]

Fresh ==
    /\ \A c \in Cpus : Bounded(c) /\ Cleared(c) /\ Reached(c) /\ Owed(c)
    /\ NoStaleTranslation
-----------------------------------------------------------------------------
(* Control.                                                                *)

\* A sender has a page, and while it is on it, is neither in userspace nor
\* on its way there or offline.
Busy == {"Mask"} \cup Locking \cup Sending
Away == {"Entering"} \cup GoneOffline \cup UserRoots

\* A nonempty set of numbers has a least one.
LEMMA MinIsIn ==
    ASSUME NEW S \in SUBSET Nat, S # {}
    PROVE  Min(S) \in S
<1> DEFINE R == {ss \in Nat \X Nat : ss[1] < ss[2]}
<1>1. IsWellFoundedOn(R, Nat)
  BY NatLessThanWellFounded, Zenon DEF OpToRel
<1>2. \A y, z \in Nat : y < z => <<y, z>> \in R
  OBVIOUS
<1> HIDE DEF R
<1>3. PICK x \in S : \A y \in S : ~(<<y, x>> \in R)
  BY <1>1, WFMin, Zenon
<1>4. \A y \in S : ~(y < x)
  BY <1>2, <1>3, Zenon
<1>5. \A y \in S : x <= y
  BY <1>4
<1> QED
  BY <1>5, ZenonT(30) DEF Min

\* The candidate of a sender that has candidates is one of them
\* (la64_remote_tlb_shootdown takes the lowest bit of the mask).
LEMMA CandidateIsIn ==
    ASSUME TaskType, NEW c \in Cpus, todo[c] # {}
    PROVE  Candidate(c) \in todo[c] /\ Candidate(c) \in Cpus
<1>1. todo[c] \in SUBSET Cpus
  BY DEF TaskType
<1>2. todo[c] \in SUBSET Nat
  BY <1>1, ConstantsAssumption, Zenon
<1> QED
  BY <1>1, <1>2, MinIsIn, Zenon DEF Candidate

\* Control holds when the CPUs start.
LEMMA InitControl == Init => Control
<1> SUFFICES ASSUME Init PROVE Control
  OBVIOUS
<1>1. TaskType
  BY ConstantsAssumption DEF Init, TaskType, Steps
<1>2. CpuSetType
  BY Zenon DEF Init, CpuSetType
<1>3. MailType
  BY DEF Init, MailType
<1>4. \A c \in Cpus : Located(c) /\ UserStale(c)
  BY DEF Init, Located, UserStale, GoneOffline, Draining, UserRoots
<1>5. \A c \in Cpus : Holds(c) /\ Targets(c)
  BY DEF Init, Holds, Targets, Locking, Sending, Pinning
<1> QED
  BY <1>1, <1>2, <1>3, <1>4, <1>5 DEF Init, Control

\* A mailbox service changes nothing that the task level works with, and a
\* TLB only loses entries.
LEMMA ServiceFrame ==
    ASSUME Control, NEW c \in Cpus, NEW x \in Contexts,
           Poll(c) \/ Interrupt(c) \/ Service(c, x)
    PROVE  /\ UNCHANGED <<pc, sender, cpuset, requested>>
           /\ MailType'
           /\ \A d \in Cpus : stale'[d] \subseteq stale[d]
<1> USE DEF Control
<1>1. CASE Poll(c)
  BY <1>1 DEF Poll, Step, MailType, Contexts
<1>2. CASE Interrupt(c)
  BY <1>2 DEF Interrupt, Step, MailType, Contexts
<1>3. CASE NothingPending(c, x)
  BY <1>3 DEF NothingPending, Step, MailType
<1>4. CASE Claim(c, x)
  BY <1>4 DEF Claim, Step, MailType
<1>5. CASE Flush(c, x)
  BY <1>5 DEF Flush, Step, MailType
<1>6. CASE Complete(c, x)
  BY <1>6 DEF Complete, Step, MailType
<1>7. CASE Drained(c, x)
  BY <1>7 DEF Drained, Step, MailType
<1>8. CASE Release(c, x)
  BY <1>8 DEF Release, Step, MailType
<1>9. CASE Recheck(c, x)
  BY <1>9 DEF Recheck, Step, MailType
<1> QED
  BY <1>1, <1>2, <1>3, <1>4, <1>5, <1>6, <1>7, <1>8, <1>9, Zenon DEF Service

\* A mailbox service keeps Control.
LEMMA ServiceKeepsControl ==
    ASSUME Control, NEW c \in Cpus, NEW x \in Contexts,
           Poll(c) \/ Interrupt(c) \/ Service(c, x)
    PROVE  Control'
<1>1. /\ UNCHANGED <<pc, sender, cpuset>>
      /\ MailType'
      /\ \A d \in Cpus : stale'[d] \subseteq stale[d]
  BY ServiceFrame, Zenon
<1>2. TaskType' /\ CpuSetType'
  BY <1>1, Zenon DEF Control, TaskType, CpuSetType, sender, cpuset
<1>3. \A d \in Cpus : Located(d)' /\ Holds(d)' /\ Targets(d)'
  BY <1>1, ZenonT(30) DEF Control, Located, Holds, Targets, Candidate, sender, cpuset
<1>4. \A d \in Cpus : UserStale(d)'
  BY <1>1, Zenon DEF Control, UserStale
<1> QED
  BY <1>1, <1>2, <1>3, <1>4, Zenon DEF Control, sender

\* A step outside of a shootdown leaves the senders alone.
LEMMA ElsewhereKeepsSenders ==
    ASSUME Control, NEW c \in Cpus, NEW at \in Steps \ Busy,
           UNCHANGED sender, pc[c] \notin Busy, Goto(c, at)
    PROVE  /\ TaskType' /\ (freed \cap pte = {})'
           /\ \A d \in Cpus : Holds(d)' /\ Targets(d)'
<1>1. TaskType'
  BY DEF Control, TaskType, Goto, sender
<1>2. \A d \in Cpus : pc'[d] = pc[d] \/ (d = c /\ pc'[d] \notin Busy)
  BY DEF Control, TaskType, Goto
<1>3. \A d \in Cpus : Holds(d)'
  BY <1>2 DEF Control, Holds, Busy, sender
<1>4. \A d \in Cpus : pc'[d] \notin Busy => todo[d] = {} /\ pending[d] = {}
  BY <1>2 DEF Control, Targets, Busy
<1>5. \A d \in Cpus : Targets(d)'
  BY <1>2, <1>4, ZenonT(30) DEF Control, Targets, Busy, Pinning, Sending, Candidate, sender
<1> QED
  BY <1>1, <1>3, <1>5 DEF Control, sender

\* Entering and leaving userspace keeps Control.
LEMMA SwitchKeepsControl ==
    ASSUME Control, NEW c \in Cpus, EnterUser(c) \/ SwitchStep(c)
    PROVE  Control'
<1> DEFINE Rest == CpuSetType' /\ MailType' /\ \A d \in Cpus : Located(d)' /\ UserStale(d)'
<1>1. ASSUME EnterUser(c) PROVE Control'
  <2>1. TaskType' /\ (freed \cap pte = {})' /\ \A d \in Cpus : Holds(d)' /\ Targets(d)'
    BY <1>1, ElsewhereKeepsSenders, Zenon DEF EnterUser, At, Busy, Steps, Locking, Sending
  <2>2. Rest
    BY <1>1, ZenonT(30) DEF EnterUser, At, Goto, Control, TaskType, CpuSetType, MailType, Located, UserStale,
                GoneOffline, Draining, UserRoots, mailbox
  <2> QED
    BY <2>1, <2>2 DEF Control
<1>2. ASSUME InstallRoot(c) PROVE Control'
  <2>1. TaskType' /\ (freed \cap pte = {})' /\ \A d \in Cpus : Holds(d)' /\ Targets(d)'
    BY <1>2, ElsewhereKeepsSenders DEF InstallRoot, Busy, Steps, Locking, Sending, UserRoots
  <2>2. Rest
    BY <1>2, ZenonT(30) DEF InstallRoot, Goto, Control, TaskType, CpuSetType, MailType, Located, UserStale,
                GoneOffline, Draining, UserRoots, mailbox, cpuset
  <2> QED
    BY <2>1, <2>2 DEF Control
<1>3. ASSUME FinishSwitch(c) PROVE Control'
  <2>1. TaskType' /\ (freed \cap pte = {})' /\ \A d \in Cpus : Holds(d)' /\ Targets(d)'
    BY <1>3, ElsewhereKeepsSenders DEF FinishSwitch, Busy, Steps, Locking, Sending, UserRoots
  <2>2. Rest
    BY <1>3, ZenonT(30) DEF FinishSwitch, Goto, Control, TaskType, CpuSetType, MailType, Located, UserStale,
                GoneOffline, Draining, UserRoots, mailbox
  <2> QED
    BY <2>1, <2>2 DEF Control
<1>4. ASSUME LeaveUser(c) PROVE Control'
  <2>1. TaskType' /\ (freed \cap pte = {})' /\ \A d \in Cpus : Holds(d)' /\ Targets(d)'
    BY <1>4, ElsewhereKeepsSenders DEF LeaveUser, At, Busy, Steps, Locking, Sending, UserRoots
  <2>2. Rest
    BY <1>4, ZenonT(30) DEF LeaveUser, At, Goto, Control, TaskType, CpuSetType, MailType, Located, UserStale,
                GoneOffline, Draining, UserRoots, mailbox, cpuset
  <2> QED
    BY <2>1, <2>2 DEF Control
<1>5. ASSUME FinishLeave(c) PROVE Control'
  <2>1. TaskType' /\ (freed \cap pte = {})' /\ \A d \in Cpus : Holds(d)' /\ Targets(d)'
    BY <1>5, ElsewhereKeepsSenders DEF FinishLeave, Busy, Steps, Locking, Sending, UserRoots
  <2>2. Rest
    BY <1>5, ZenonT(30) DEF FinishLeave, Goto, Control, TaskType, CpuSetType, MailType, Located, UserStale,
                GoneOffline, Draining, UserRoots, mailbox
  <2> QED
    BY <2>1, <2>2 DEF Control
<1> QED
  BY <1>1, <1>2, <1>3, <1>4, <1>5 DEF SwitchStep

\* The scheduler loop and the steps of a shutdown keep Control.
LEMMA ShutdownKeepsControl ==
    ASSUME Control,
           \/ StartStop \/ AllStopped
           \/ \E c \in Cpus : LoopTop(c) \/ Idle(c) \/ OfflineStep(c)
    PROVE  Control'
<1> DEFINE Senders == TaskType' /\ (freed \cap pte = {})' /\ \A d \in Cpus : Holds(d)' /\ Targets(d)'
<1> DEFINE Places == CpuSetType' /\ \A d \in Cpus : Located(d)' /\ UserStale(d)'
<1> USE DEF At, Busy, Steps, Locking, Sending, GoneOffline
<1>1. CASE StartStop
  <2>1. Senders
    BY <1>1, ElsewhereKeepsSenders, ConstantsAssumption, Zenon DEF StartStop
  <2>2. Places
    <3>1. CpuSetType'
      BY <1>1, Zenon DEF StartStop, Control, CpuSetType
    <3>2. \A d \in Cpus : Located(d)'
      BY <1>1, ConstantsAssumption, ZenonT(30) DEF StartStop, Goto, Control, TaskType, Located, Draining, UserRoots
    <3>3. \A d \in Cpus : UserStale(d)'
      BY <1>1, ConstantsAssumption, ZenonT(30) DEF StartStop, Goto, Control, TaskType, UserStale, Draining, UserRoots
    <3> QED
      BY <3>1, <3>2, <3>3, Zenon
  <2>3. MailType'
    BY <1>1 DEF StartStop, Control, MailType, mailbox
  <2> QED
    BY <2>1, <2>2, <2>3 DEF Control
<1>2. CASE AllStopped
  <2>1. Senders
    BY <1>2, ElsewhereKeepsSenders, ConstantsAssumption DEF AllStopped
  <2>2. Places
    <3>1. CpuSetType'
      BY <1>2, Zenon DEF AllStopped, Control, CpuSetType, cpuset
    <3>2. \A d \in Cpus : Located(d)'
      BY <1>2, ConstantsAssumption, ZenonT(30) DEF AllStopped, Goto, Control, TaskType, Located, Draining, UserRoots, cpuset
    <3>3. \A d \in Cpus : UserStale(d)'
      BY <1>2, ConstantsAssumption, ZenonT(30) DEF AllStopped, Goto, Control, TaskType, UserStale, Draining, UserRoots
    <3> QED
      BY <3>1, <3>2, <3>3, Zenon
  <2>3. MailType'
    BY <1>2 DEF AllStopped, Control, MailType, mailbox
  <2> QED
    BY <2>1, <2>2, <2>3 DEF Control
<1>3. ASSUME NEW c \in Cpus, LoopTop(c) PROVE Control'
  <2>1. Senders
    BY <1>3, ElsewhereKeepsSenders, Zenon DEF LoopTop
  <2>2. Places
    BY <1>3 DEF LoopTop, Goto, Control, TaskType, CpuSetType, Located, UserStale, Draining, UserRoots
  <2>3. MailType'
    BY <1>3, Zenon DEF LoopTop, Control, MailType, mailbox
  <2> QED
    BY <2>1, <2>2, <2>3 DEF Control
<1>4. ASSUME NEW c \in Cpus, Idle(c) PROVE Control'
  <2>1. Senders
    BY <1>4, ElsewhereKeepsSenders, Zenon DEF Idle
  <2>2. Places
    BY <1>4, ZenonT(30) DEF Idle, Goto, Control, TaskType, CpuSetType, Located, UserStale, Draining, UserRoots,
                cpuset
  <2>3. MailType'
    BY <1>4 DEF Idle, Control, MailType, mailbox
  <2> QED
    BY <2>1, <2>2, <2>3 DEF Control
<1>5. ASSUME NEW c \in Cpus, StopAccepting(c) PROVE Control'
  <2>1. Senders
    BY <1>5, ElsewhereKeepsSenders DEF StopAccepting
  <2>2. Places
    BY <1>5, ZenonT(30) DEF StopAccepting, Goto, Control, TaskType, CpuSetType, Located, UserStale, Draining,
                UserRoots
  <2>3. MailType'
    BY <1>5 DEF StopAccepting, Control, MailType, mailbox
  <2> QED
    BY <2>1, <2>2, <2>3 DEF Control
<1>6. ASSUME NEW c \in Cpus, DrainedSenders(c) PROVE Control'
  <2>1. Senders
    BY <1>6, ElsewhereKeepsSenders, Zenon DEF DrainedSenders
  <2>2. Places
    BY <1>6, ZenonT(30) DEF DrainedSenders, Goto, Control, TaskType, CpuSetType, Located, UserStale, Draining,
                UserRoots, cpuset
  <2>3. MailType'
    BY <1>6, Zenon DEF DrainedSenders, Control, MailType, mailbox
  <2> QED
    BY <2>1, <2>2, <2>3 DEF Control
<1>7. ASSUME NEW c \in Cpus, PublishStopped(c) PROVE Control'
  <2>1. Senders
    BY <1>7, ElsewhereKeepsSenders, Zenon DEF PublishStopped
  <2>2. Places
    BY <1>7, ZenonT(30) DEF PublishStopped, Goto, Control, TaskType, CpuSetType, Located, UserStale, Draining,
                UserRoots
  <2>3. MailType'
    BY <1>7 DEF PublishStopped, Control, MailType, mailbox
  <2> QED
    BY <2>1, <2>2, <2>3 DEF Control
<1>8. ASSUME NEW c \in Cpus, Park(c) PROVE Control'
  <2>1. Senders
    BY <1>8, ElsewhereKeepsSenders DEF Park
  <2>2. Places
    BY <1>8, ZenonT(30) DEF Park, Goto, Control, TaskType, CpuSetType, Located, UserStale, Draining, UserRoots,
                cpuset
  <2>3. MailType'
    BY <1>8 DEF Park, Control, MailType, mailbox
  <2> QED
    BY <2>1, <2>2, <2>3 DEF Control
<1> QED
  BY <1>1, <1>2, <1>3, <1>4, <1>5, <1>6, <1>7, <1>8, Zenon DEF OfflineStep

\* A step of the sender on CPU c changes nothing of the other senders.
Elsewhere(c) ==
    \A d \in Cpus \ {c} : /\ pc'[d] = pc[d] /\ page'[d] = page[d] /\ todo'[d] = todo[d]
                          /\ pending'[d] = pending[d] /\ gen'[d] = gen[d]

\* The state of a sender is an array over the CPUs.
LEMMA Domains ==
    ASSUME TaskType
    PROVE  /\ DOMAIN pc = Cpus /\ DOMAIN page = Cpus /\ DOMAIN todo = Cpus
           /\ DOMAIN pending = Cpus /\ DOMAIN gen = Cpus /\ DOMAIN users = Cpus
  BY Zenon DEF TaskType

\* Every step of a sender is one of that sender alone.
LEMMA SenderElsewhere ==
    ASSUME TaskType, NEW c \in Cpus, SenderStep(c) \/ \E p \in Pages : StartUnmap(c, p)
    PROVE  Elsewhere(c)
<1>0. /\ DOMAIN pc = Cpus /\ DOMAIN page = Cpus /\ DOMAIN todo = Cpus
      /\ DOMAIN pending = Cpus /\ DOMAIN gen = Cpus
  BY Domains, Zenon
<1>1. ASSUME NEW p \in Pages, StartUnmap(c, p) PROVE Elsewhere(c)
  BY <1>0, <1>1, Zenon DEF StartUnmap, Goto, Elsewhere
<1>2. CASE Acquire(c)
  BY <1>0, <1>2, Zenon DEF Acquire, Goto, Elsewhere
<1>3. CASE ClearPte(c)
  BY <1>0, <1>3, Zenon DEF ClearPte, Goto, Elsewhere
<1>4. CASE ReadMask(c)
  BY <1>0, <1>4, Zenon DEF ReadMask, Goto, Elsewhere
<1>5. CASE Pin(c)
  BY <1>0, <1>5, Zenon DEF Pin, Goto, Elsewhere
<1>6. CASE PinUsers(c)
  BY <1>0, <1>6, Zenon DEF PinUsers, Goto, Elsewhere
<1>7. CASE PinCheck(c)
  BY <1>0, <1>7, Zenon DEF PinCheck, Goto, Elsewhere
<1>8. CASE Request(c)
  BY <1>0, <1>8, Zenon DEF Request, Goto, Elsewhere
<1>9. CASE SendIpi(c)
  BY <1>0, <1>9, Zenon DEF SendIpi, Goto, Elsewhere
<1>10. CASE PinDone(c)
  BY <1>0, <1>10, Zenon DEF PinDone, Goto, Elsewhere, sender
<1>11. CASE Return(c)
  BY <1>0, <1>11, Zenon DEF Return, Goto, Elsewhere
<1>12. ASSUME NEW t \in Cpus, TargetDone(c, t) PROVE Elsewhere(c)
  BY <1>0, <1>12, Zenon DEF TargetDone, Elsewhere
<1> QED
  BY <1>1, <1>2, <1>3, <1>4, <1>5, <1>6, <1>7, <1>8, <1>9, <1>10, <1>11, <1>12, Zenon DEF SenderStep

\* A step of a sender leaves alone where the CPUs are and the other senders.
LEMMA SenderKeepsOthers ==
    ASSUME Control, NEW c \in Cpus, Elsewhere(c), UNCHANGED cpuset,
           pc[c] \notin Away, pc'[c] \notin Away
    PROVE  /\ CpuSetType' /\ \A d \in Cpus : Located(d)'
           /\ UNCHANGED stale => \A d \in Cpus : UserStale(d)'
           /\ UNCHANGED <<pte, freed>> => \A d \in Cpus \ {c} : Holds(d)'
           /\ \A d \in Cpus \ {c} : Targets(d)'
<1>0. \A d \in Cpus : Located(d) /\ Holds(d) /\ Targets(d) /\ UserStale(d)
  BY Zenon DEF Control
<1>1. \A d \in Cpus : pc'[d] = pc[d] \/ (pc[d] \notin Away /\ pc'[d] \notin Away)
  BY Zenon DEF Elsewhere
<1>2. CpuSetType'
  BY Zenon DEF Control, CpuSetType, cpuset
<1>3. \A d \in Cpus : Located(d)'
  BY <1>0, <1>1, ZenonT(30) DEF Located, Away, GoneOffline, Draining, UserRoots, cpuset
<1>4. ASSUME UNCHANGED stale PROVE \A d \in Cpus : UserStale(d)'
  BY <1>0, <1>1, <1>4 DEF UserStale, Away
<1>5. ASSUME UNCHANGED <<pte, freed>> PROVE \A d \in Cpus \ {c} : Holds(d)'
  BY <1>0, <1>5, ZenonT(30) DEF Holds, Elsewhere
<1>6. \A d \in Cpus \ {c} : Targets(d)'
  BY <1>0, ZenonT(30) DEF Targets, Candidate, Elsewhere
<1> QED
  BY <1>2, <1>3, <1>4, <1>5, <1>6, Zenon

\* A step of a sender that clears no entry and frees no page keeps Control when
\* it keeps the types and what Control says of that sender.
LEMMA QuietSenderKeepsControl ==
    ASSUME Control, NEW c \in Cpus, Elsewhere(c),
           UNCHANGED <<cpuset, stale, pte, freed, mailbox>>,
           pc[c] \notin Away, pc'[c] \notin Away,
           TaskType', requested' \in [Cpus -> Nat], ipi' \in SUBSET Cpus,
           Holds(c)', Targets(c)'
    PROVE  Control'
<1>1. /\ CpuSetType' /\ \A d \in Cpus : Located(d)' /\ UserStale(d)'
      /\ \A d \in Cpus \ {c} : Holds(d)' /\ Targets(d)'
  BY SenderKeepsOthers, Zenon
<1>2. MailType'
  BY Zenon DEF Control, MailType, mailbox
<1>3. (freed \cap pte = {})'
  BY Zenon DEF Control
<1> QED
  BY <1>1, <1>2, <1>3, Zenon DEF Control

\* The steps of a sender up to the mask keep Control.
LEMMA UnmapKeepsControl ==
    ASSUME Control, NEW c \in Cpus,
           (\E p \in Pages : StartUnmap(c, p)) \/ Acquire(c) \/ ClearPte(c) \/ ReadMask(c)
    PROVE  Control'
<1>0. /\ TaskType /\ CpuSetType /\ MailType
      /\ Holds(c) /\ Targets(c) /\ \A d \in Cpus : Holds(d) /\ UserStale(d)
  BY Zenon DEF Control
<1>1. Elsewhere(c)
  BY <1>0, SenderElsewhere, Zenon DEF SenderStep
<1>2. /\ DOMAIN pc = Cpus /\ DOMAIN page = Cpus /\ DOMAIN todo = Cpus
      /\ pc \in [Cpus -> Steps] /\ page \in [Cpus -> Pages \cup {Nobody}]
      /\ todo \in [Cpus -> SUBSET Cpus] /\ lock \in [{"User", "Kernel"} -> Cpus \cup {Nobody}]
      /\ requested \in [Cpus -> Nat] /\ ipi \in SUBSET Cpus
  BY <1>0, Domains, Zenon DEF TaskType, MailType
<1>3. \A at \in Steps : Goto(c, at) => pc' \in [Cpus -> Steps] /\ pc'[c] = at
  BY <1>2 DEF Goto
<1>4. {"Top", "LockWait", "Unmap", "Mask", "Pin"} \subseteq Steps
  BY DEF Steps, Locking, Sending
<1>5. ASSUME NEW p \in Pages, StartUnmap(c, p) PROVE Control'
  <2>1. /\ pc[c] = "Run" /\ pc'[c] = "LockWait" /\ pc' \in [Cpus -> Steps]
        /\ page'[c] = p /\ p \in pte /\ Unmapper[p] = c
        /\ UNCHANGED <<todo, pending, gen, lock, pte, freed, users, cpuset, mailbox, stale, requested, ipi>>
    BY <1>2, <1>3, <1>4, <1>5, Zenon DEF StartUnmap, At
  <2>2. page' \in [Cpus -> Pages \cup {Nobody}]
    BY <1>2, <1>5, Zenon DEF StartUnmap
  <2>3. TaskType'
    BY <1>0, <2>1, <2>2, Zenon DEF TaskType
  <2>4. p \notin freed
    BY <2>1, Zenon DEF Control
  <2>5. Holds(c)' /\ Targets(c)'
    BY <1>0, <2>1, <2>4, Zenon DEF Holds, Targets, Locking, Sending, Pinning
  <2>6. pc[c] \notin Away /\ pc'[c] \notin Away
    BY <2>1, Zenon DEF Away, GoneOffline, UserRoots
  <2> QED
    BY <1>1, <1>2, <2>1, <2>3, <2>5, <2>6, QuietSenderKeepsControl, Zenon
<1>6. CASE Acquire(c)
  <2>1. /\ pc[c] = "LockWait" /\ pc'[c] = "Unmap" /\ pc' \in [Cpus -> Steps]
        /\ UNCHANGED <<page, todo, pending, gen, pte, freed, users, cpuset, mailbox, stale, requested, ipi>>
    BY <1>3, <1>4, <1>6, Zenon DEF Acquire, At
  <2>2. lock' \in [{"User", "Kernel"} -> Cpus \cup {Nobody}]
    <3>1. Kind(page[c]) \in {"User", "Kernel"}
      BY DEF Kind
    <3> QED
      BY <1>2, <1>6, <3>1, Zenon DEF Acquire
  <2>3. TaskType'
    BY <1>0, <2>1, <2>2, Zenon DEF TaskType
  <2>4. Holds(c)' /\ Targets(c)'
    BY <1>0, <2>1, Zenon DEF Holds, Targets, Locking, Sending, Pinning
  <2>5. pc[c] \notin Away /\ pc'[c] \notin Away
    BY <2>1 DEF Away, GoneOffline, UserRoots
  <2> QED
    BY <1>1, <1>2, <2>1, <2>3, <2>4, <2>5, QuietSenderKeepsControl, Zenon
<1>7. CASE ClearPte(c)
  <2>1. /\ pc[c] = "Unmap" /\ pc'[c] = "Mask" /\ pc' \in [Cpus -> Steps]
        /\ pte' = pte \ {page[c]}
        /\ UNCHANGED <<page, todo, pending, gen, lock, freed, users, cpuset, mailbox, requested, ipi>>
    BY <1>3, <1>4, <1>7, Zenon DEF ClearPte
  <2>2. page[c] \in Pages /\ Unmapper[page[c]] = c /\ page[c] \notin freed
    BY <1>0, <2>1, Zenon DEF Holds, Locking
  <2>3. stale' \in [Cpus -> SUBSET Pages]
    BY <1>0, <1>7, <2>2, ZenonT(30) DEF ClearPte, MailType
  <2>4. pte' \in SUBSET Pages /\ (freed \cap pte = {})'
    BY <2>1, Zenon DEF Control, TaskType
  <2>5. TaskType' /\ MailType'
    BY <1>0, <2>1, <2>3, <2>4, Zenon DEF TaskType, MailType, mailbox
  <2>6. pc[c] \notin Away /\ pc'[c] \notin Away
    BY <2>1, Zenon DEF Away, GoneOffline, UserRoots
  <2>7. CpuSetType' /\ (\A d \in Cpus : Located(d)') /\ \A d \in Cpus \ {c} : Targets(d)'
    BY <1>1, <2>1, <2>6, SenderKeepsOthers, Zenon
  <2>8. \A d \in Cpus : UserStale(d)'
    <3>1. \A d \in Cpus \ {c} : stale'[d] = stale[d] \/ (Reaches(d, page[c]) /\ stale'[d] = stale[d] \cup {page[c]})
      BY <1>7, Zenon DEF ClearPte
    <3>2. stale'[c] = stale[c]
      BY <1>7, Zenon DEF ClearPte
    <3>3. UserStale(c)'
      BY <1>0, <3>2, <2>1, Zenon DEF UserStale, UserRoots
    <3>4. \A d \in Cpus \ {c} : UserStale(d)'
      BY <1>0, <1>1, <3>1, ZenonT(30) DEF UserStale, UserRoots, Reaches, Elsewhere
    <3> QED
      BY <3>3, <3>4
  <2>9. Holds(c)' /\ Targets(c)'
    BY <1>0, <2>1, <2>2, Zenon DEF Holds, Targets, Locking, Sending, Pinning
  <2>10. ASSUME NEW d \in Cpus \ {c} PROVE Holds(d)'
    <3>1. Holds(d) /\ pc'[d] = pc[d] /\ page'[d] = page[d]
      BY <1>0, <1>1, Zenon DEF Elsewhere
    <3> QED
      BY <2>1, <2>2, <3>1, Zenon DEF Holds
  <2> QED
    BY <2>4, <2>5, <2>7, <2>8, <2>9, <2>10 DEF Control
<1>8. CASE ReadMask(c)
  <2>1. /\ pc[c] = "Mask" /\ pc'[c] = "Pin" /\ pc' \in [Cpus -> Steps]
        /\ UNCHANGED <<page, pending, gen, lock, pte, freed, users, cpuset, mailbox, stale, requested, ipi>>
    BY <1>3, <1>4, <1>8, Zenon DEF ReadMask
  <2>2. todo' \in [Cpus -> SUBSET Cpus]
    BY <1>0, <1>2, <1>8, Zenon DEF ReadMask, CpuSetType
  <2>3. TaskType'
    BY <1>0, <2>1, <2>2, Zenon DEF TaskType
  <2>4. Holds(c)'
    BY <1>0, <2>1, Zenon DEF Holds, Locking, Sending
  <2>5. Targets(c)'
    BY <1>0, <2>1, Zenon DEF Targets, Sending, Pinning
  <2>6. pc[c] \notin Away /\ pc'[c] \notin Away
    BY <2>1 DEF Away, GoneOffline, UserRoots
  <2> QED
    BY <1>1, <1>2, <2>1, <2>3, <2>4, <2>5, <2>6, QuietSenderKeepsControl, Zenon
<1> QED
  BY <1>5, <1>6, <1>7, <1>8, Zenon

\* Pinning the targets and asking them keeps Control.
LEMMA PinKeepsControl ==
    ASSUME Control, NEW c \in Cpus,
           Pin(c) \/ PinUsers(c) \/ PinCheck(c) \/ Request(c) \/ SendIpi(c) \/ PinDone(c)
    PROVE  Control'
<1> DEFINE u == Candidate(c)
<1>0. TaskType /\ MailType /\ Holds(c) /\ Targets(c)
  BY Zenon DEF Control
<1>1. Elsewhere(c)
  BY <1>0, SenderElsewhere, Zenon DEF SenderStep
<1>2. /\ DOMAIN pc = Cpus /\ DOMAIN todo = Cpus /\ DOMAIN pending = Cpus /\ DOMAIN users = Cpus
      /\ pc \in [Cpus -> Steps] /\ todo \in [Cpus -> SUBSET Cpus] /\ pending \in [Cpus -> SUBSET Cpus]
      /\ users \in [Cpus -> Int] /\ gen \in [Cpus -> [Cpus -> Nat]]
      /\ requested \in [Cpus -> Nat] /\ ipi \in SUBSET Cpus
  BY <1>0, Domains, Zenon DEF TaskType, MailType
<1>3. \A at \in Steps : Goto(c, at) => pc' \in [Cpus -> Steps] /\ pc'[c] = at
  BY <1>2 DEF Goto
<1>4. Sending \subseteq Steps
  BY DEF Steps
<1>5. pc[c] \in Sending /\ UNCHANGED <<page, lock, cpuset, stale, pte, freed, mailbox>>
  BY Zenon DEF Pin, PinUsers, PinCheck, Request, SendIpi, PinDone, Sending, sender
<1>6. \A at \in Sending : at \notin Away
  BY DEF Sending, Away, GoneOffline, UserRoots
<1>7. pc'[c] \in Sending => Holds(c)'
  BY <1>0, <1>5, Zenon DEF Holds, Sending, Locking
<1>8. ASSUME TaskType', pc'[c] \in Sending, Targets(c)',
             requested' \in [Cpus -> Nat], ipi' \in SUBSET Cpus
      PROVE  Control'
  BY <1>1, <1>5, <1>6, <1>7, <1>8, QuietSenderKeepsControl, Zenon
<1>9. pc[c] \in Pinning => u \in todo[c] /\ u \in Cpus
  BY <1>0, CandidateIsIn, Zenon DEF Targets
<1> HIDE DEF u
<1>10. \A f : f \in [Cpus -> SUBSET Cpus] => [f EXCEPT ![c] = @ \ {u}] \in [Cpus -> SUBSET Cpus]
  OBVIOUS
<1>11. todo' = [todo EXCEPT ![c] = @ \ {u}] => todo'[c] = todo[c] \ {u}
  BY <1>2, Zenon
<1>12. CASE Pin(c)
  <2>1. pc[c] = "Pin" /\ UNCHANGED <<pending, gen, users, requested, ipi>>
    BY <1>12, Zenon DEF Pin
  <2>2. CASE u \in accepting
    <3>1. Goto(c, "PinUsers") /\ UNCHANGED todo /\ todo[c] # {}
      BY <1>12, <2>2, Zenon DEF Pin, u
    <3>2. pc' \in [Cpus -> Steps] /\ pc'[c] = "PinUsers"
      BY <1>3, <1>4, <3>1, Zenon DEF Sending
    <3>3. TaskType'
      BY <1>0, <1>5, <2>1, <3>1, <3>2, Zenon DEF TaskType
    <3>4. Targets(c)'
      BY <1>0, <2>1, <3>1, <3>2, Zenon DEF Targets, Sending
    <3> QED
      BY <1>2, <1>8, <2>1, <3>2, <3>3, <3>4, Zenon DEF Sending
  <2>3. CASE u \notin accepting
    <3>1. UNCHANGED pc /\ todo' = [todo EXCEPT ![c] = @ \ {u}]
      BY <1>12, <2>3, Zenon DEF Pin, u
    <3>2. TaskType'
      BY <1>0, <1>2, <1>5, <1>10, <2>1, <3>1, Zenon DEF TaskType
    <3>3. Targets(c)'
      BY <1>0, <1>11, <2>1, <3>1, Zenon DEF Targets, Sending, Pinning
    <3> QED
      BY <1>2, <1>5, <1>8, <2>1, <3>1, <3>2, <3>3, Zenon
  <2> QED
    BY <2>2, <2>3
<1>13. CASE PinUsers(c)
  <2>1. /\ pc[c] = "PinUsers" /\ Goto(c, "PinCheck") /\ UNCHANGED <<todo, pending, gen, requested, ipi>>
        /\ users' = [users EXCEPT ![u] = @ + 1]
    BY <1>13, Zenon DEF PinUsers, u
  <2>2. pc' \in [Cpus -> Steps] /\ pc'[c] = "PinCheck"
    BY <1>3, <1>4, <2>1, Zenon DEF Sending
  <2>3. users' \in [Cpus -> Int]
    BY <1>2, <1>9, <2>1 DEF Pinning
  <2>4. TaskType'
    BY <1>0, <1>5, <2>1, <2>2, <2>3, Zenon DEF TaskType
  <2>5. Targets(c)'
    BY <1>0, <2>1, <2>2, Zenon DEF Targets, Sending, Pinning
  <2> QED
    BY <1>2, <1>8, <2>1, <2>2, <2>4, <2>5, Zenon DEF Sending
<1>14. CASE PinCheck(c)
  <2>1. pc[c] = "PinCheck" /\ UNCHANGED <<pending, gen, requested, ipi>>
    BY <1>14, Zenon DEF PinCheck
  <2>2. CASE u \in accepting
    <3>1. Goto(c, "Request") /\ UNCHANGED <<todo, users>>
      BY <1>14, <2>2, Zenon DEF PinCheck, u
    <3>2. pc' \in [Cpus -> Steps] /\ pc'[c] = "Request"
      BY <1>3, <1>4, <3>1, Zenon DEF Sending
    <3>3. TaskType'
      BY <1>0, <1>5, <2>1, <3>1, <3>2, Zenon DEF TaskType
    <3>4. Targets(c)'
      BY <1>0, <2>1, <3>1, <3>2, Zenon DEF Targets, Sending, Pinning
    <3> QED
      BY <1>2, <1>8, <2>1, <3>2, <3>3, <3>4, Zenon DEF Sending
  <2>3. CASE u \notin accepting
    <3>1. /\ Goto(c, "Pin") /\ todo' = [todo EXCEPT ![c] = @ \ {u}]
          /\ users' = [users EXCEPT ![u] = @ - 1]
      BY <1>14, <2>3, Zenon DEF PinCheck, u
    <3>2. pc' \in [Cpus -> Steps] /\ pc'[c] = "Pin"
      BY <1>3, <1>4, <3>1, Zenon DEF Sending
    <3>3. users' \in [Cpus -> Int]
      BY <1>2, <1>9, <2>1, <3>1 DEF Pinning
    <3>4. TaskType'
      BY <1>0, <1>2, <1>5, <1>10, <2>1, <3>1, <3>2, <3>3, Zenon DEF TaskType
    <3>5. Targets(c)'
      BY <1>0, <1>11, <2>1, <3>1, <3>2, Zenon DEF Targets, Sending, Pinning
    <3> QED
      BY <1>2, <1>8, <2>1, <3>2, <3>4, <3>5, Zenon DEF Sending
  <2> QED
    BY <2>2, <2>3
<1>15. CASE Request(c)
  <2>1. /\ pc[c] = "Request" /\ Goto(c, "SendIpi") /\ UNCHANGED <<todo, users, ipi>>
        /\ requested' = [requested EXCEPT ![u] = @ + 1]
        /\ gen' = [gen EXCEPT ![c][u] = requested[u] + 1]
        /\ pending' = [pending EXCEPT ![c] = @ \cup {u}]
    BY <1>15, Zenon DEF Request, u
  <2>2. pc' \in [Cpus -> Steps] /\ pc'[c] = "SendIpi"
    BY <1>3, <1>4, <2>1, Zenon DEF Sending
  <2>3. u \in todo[c] /\ u \in Cpus
    BY <1>9, <2>1, Zenon DEF Pinning
  <2>4. requested' \in [Cpus -> Nat] /\ pending' \in [Cpus -> SUBSET Cpus]
    BY <1>2, <2>1, <2>3
  <2>5. gen' \in [Cpus -> [Cpus -> Nat]]
    BY <1>2, <2>1, <2>3
  <2>6. TaskType'
    BY <1>0, <1>5, <2>1, <2>2, <2>4, <2>5, Zenon DEF TaskType
  <2>7. pending'[c] = pending[c] \cup {u} /\ Candidate(c)' = u
    BY <1>2, <2>1, Zenon DEF Candidate, u
  <2>8. Targets(c)'
    BY <1>0, <2>1, <2>2, <2>3, <2>7, Zenon DEF Targets, Sending, Pinning
  <2> QED
    BY <1>2, <1>8, <2>1, <2>2, <2>4, <2>6, <2>8, Zenon DEF Sending
<1>16. CASE SendIpi(c)
  <2>1. /\ pc[c] = "SendIpi" /\ Goto(c, "Pin") /\ UNCHANGED <<pending, gen, users, requested>>
        /\ ipi' = ipi \cup {u} /\ todo' = [todo EXCEPT ![c] = @ \ {u}]
    BY <1>16, Zenon DEF SendIpi, u
  <2>2. pc' \in [Cpus -> Steps] /\ pc'[c] = "Pin"
    BY <1>3, <1>4, <2>1, Zenon DEF Sending
  <2>3. TaskType'
    BY <1>0, <1>2, <1>5, <1>10, <2>1, <2>2, Zenon DEF TaskType
  <2>4. todo[c] \cap pending[c] = {u}
    BY <1>0, <2>1, Zenon DEF Targets, u
  <2>5. Targets(c)'
    BY <1>11, <2>1, <2>2, <2>4, Zenon DEF Targets, Sending, Pinning
  <2>6. ipi' \in SUBSET Cpus
    BY <1>2, <1>9, <2>1, Zenon DEF Pinning
  <2> QED
    BY <1>2, <1>8, <2>1, <2>2, <2>3, <2>5, <2>6, Zenon DEF Sending
<1>17. CASE PinDone(c)
  <2>1. /\ pc[c] = "Pin" /\ Goto(c, "Wait") /\ todo[c] = {}
        /\ UNCHANGED <<todo, pending, gen, users, requested, ipi>>
    BY <1>17, Zenon DEF PinDone, sender
  <2>2. pc' \in [Cpus -> Steps] /\ pc'[c] = "Wait"
    BY <1>3, <1>4, <2>1, Zenon DEF Sending
  <2>3. TaskType'
    BY <1>0, <1>5, <2>1, <2>2, Zenon DEF TaskType
  <2>4. Targets(c)'
    BY <1>0, <2>1, <2>2, Zenon DEF Targets, Sending, Pinning
  <2> QED
    BY <1>2, <1>8, <2>1, <2>2, <2>3, <2>4, Zenon DEF Sending
<1> QED
  BY <1>12, <1>13, <1>14, <1>15, <1>16, <1>17, Zenon

\* Waiting for the targets and the return keep Control.
LEMMA WaitKeepsControl ==
    ASSUME Control, NEW c \in Cpus,
           Return(c) \/ \E t \in Cpus : TargetDone(c, t)
    PROVE  Control'
<1>0. TaskType /\ MailType /\ Holds(c) /\ Targets(c) /\ \A d \in Cpus : Holds(d)
  BY Zenon DEF Control
<1>1. Elsewhere(c)
  BY <1>0, SenderElsewhere, Zenon DEF SenderStep
<1>2. /\ DOMAIN pending = Cpus /\ DOMAIN page = Cpus
      /\ pc \in [Cpus -> Steps] /\ page \in [Cpus -> Pages \cup {Nobody}]
      /\ pending \in [Cpus -> SUBSET Cpus] /\ users \in [Cpus -> Int] /\ gen \in [Cpus -> [Cpus -> Nat]]
      /\ lock \in [{"User", "Kernel"} -> Cpus \cup {Nobody}]
      /\ requested \in [Cpus -> Nat] /\ ipi \in SUBSET Cpus
  BY <1>0, Domains, Zenon DEF TaskType, MailType
<1>3. ASSUME NEW t \in Cpus, TargetDone(c, t) PROVE Control'
  <2>1. /\ UNCHANGED <<pc, page, todo, lock, pte, freed, cpuset, mailbox, stale, requested, ipi>>
        /\ pc[c] = "Wait" /\ pending' = [pending EXCEPT ![c] = @ \ {t}]
    BY <1>3, Zenon DEF TargetDone, At
  <2>2. pending' \in [Cpus -> SUBSET Cpus]
    BY <1>2, <2>1, Zenon
  <2>3. gen' \in [Cpus -> [Cpus -> Nat]] /\ users' \in [Cpus -> Int]
    BY <1>2, <1>3 DEF TargetDone
  <2>4. TaskType'
    BY <1>0, <2>1, <2>2, <2>3, Zenon DEF TaskType
  <2>5. Holds(c)'
    BY <1>0, <2>1, Zenon DEF Holds
  <2>6. pending'[c] = pending[c] \ {t}
    BY <1>2, <2>1, Zenon
  <2>7. Targets(c)'
    BY <1>0, <2>1, <2>6, Zenon DEF Targets, Sending, Pinning
  <2>8. pc[c] \notin Away /\ pc'[c] \notin Away
    BY <2>1, Zenon DEF Away, GoneOffline, UserRoots
  <2> QED
    BY <1>1, <1>2, <2>1, <2>4, <2>5, <2>7, <2>8, QuietSenderKeepsControl, Zenon
<1>4. CASE Return(c)
  <2>1. /\ UNCHANGED <<todo, pending, gen, pte, users, cpuset, mailbox, stale, requested, ipi>>
        /\ pc[c] = "Wait" /\ pending[c] = {} /\ Goto(c, "Run")
        /\ freed' = freed \cup {page[c]} /\ page' = [page EXCEPT ![c] = Nobody]
    BY <1>4, Zenon DEF Return, At
  <2>2. pc' \in [Cpus -> Steps] /\ pc'[c] = "Run"
    BY <1>2, <2>1, Zenon DEF Goto, Steps
  <2>3. page[c] \in Pages /\ Unmapper[page[c]] = c /\ page[c] \notin pte
    BY <1>0, <2>1, Zenon DEF Holds, Sending, Locking
  <2>4. page' \in [Cpus -> Pages \cup {Nobody}]
    BY <1>2, <2>1, Zenon
  <2>5. lock' \in [{"User", "Kernel"} -> Cpus \cup {Nobody}]
    <3>1. Kind(page[c]) \in {"User", "Kernel"}
      BY DEF Kind
    <3> QED
      BY <1>2, <1>4, <3>1, Zenon DEF Return
  <2>6. freed' \in SUBSET Pages /\ (freed \cap pte = {})'
    BY <2>1, <2>3, ZenonT(30) DEF Control, TaskType
  <2>7. TaskType' /\ MailType'
    BY <1>0, <2>1, <2>2, <2>4, <2>5, <2>6, Zenon DEF TaskType, MailType, mailbox
  <2>8. pc[c] \notin Away /\ pc'[c] \notin Away
    BY <2>1, <2>2, Zenon DEF Away, GoneOffline, UserRoots
  <2>9. /\ CpuSetType' /\ \A d \in Cpus : Located(d)' /\ UserStale(d)'
        /\ \A d \in Cpus \ {c} : Targets(d)'
    BY <1>1, <2>1, <2>8, SenderKeepsOthers, Zenon
  <2>10. ASSUME NEW d \in Cpus \ {c} PROVE Holds(d)'
    <3>1. Holds(d) /\ pc'[d] = pc[d] /\ page'[d] = page[d]
      BY <1>0, <1>1, Zenon DEF Elsewhere
    <3> QED
      BY <2>1, <2>3, <3>1 DEF Holds
  <2>11. Holds(c)' /\ Targets(c)'
    BY <1>0, <2>1, <2>2, Zenon DEF Holds, Targets, Locking, Sending, Pinning
  <2> QED
    BY <2>6, <2>7, <2>9, <2>10, <2>11, Zenon DEF Control
<1> QED
  BY <1>3, <1>4, Zenon

\* A step is a mailbox service, a step of a shutdown, a switch of the address
\* space or a step of a sender.
LEMMA StepKinds ==
    ASSUME Next
    PROVE  \/ \E c \in Cpus : \E x \in Contexts : Poll(c) \/ Interrupt(c) \/ Service(c, x)
           \/ StartStop \/ AllStopped
           \/ \E c \in Cpus : LoopTop(c) \/ Idle(c) \/ OfflineStep(c)
           \/ \E c \in Cpus : EnterUser(c) \/ SwitchStep(c)
           \/ \E c \in Cpus : SenderStep(c) \/ \E p \in Pages : StartUnmap(c, p)
<1>1. \E x \in Contexts : TRUE
  BY DEF Contexts
<1> QED
  BY <1>1, Zenon DEF Next, CpuStep

\* Every step keeps Control.
LEMMA NextControl == Control /\ [Next]_vars => Control'
<1> SUFFICES ASSUME Control, [Next]_vars PROVE Control'
  OBVIOUS
<1>1. CASE Next
  <2>1. CASE \E c \in Cpus : \E x \in Contexts : Poll(c) \/ Interrupt(c) \/ Service(c, x)
    BY <2>1, ServiceKeepsControl, Zenon
  <2>2. CASE StartStop \/ AllStopped \/ \E c \in Cpus : LoopTop(c) \/ Idle(c) \/ OfflineStep(c)
    BY <2>2, ShutdownKeepsControl, Zenon
  <2>3. CASE \E c \in Cpus : EnterUser(c) \/ SwitchStep(c)
    BY <2>3, SwitchKeepsControl, Zenon
  <2>4. ASSUME NEW c \in Cpus, SenderStep(c) \/ \E p \in Pages : StartUnmap(c, p) PROVE Control'
    BY <2>4, UnmapKeepsControl, PinKeepsControl, WaitKeepsControl, Zenon DEF SenderStep
  <2> QED
    BY <1>1, StepKinds, <2>1, <2>2, <2>3, <2>4, Zenon
<1>2. CASE UNCHANGED vars
  <2>1. TaskType' /\ CpuSetType' /\ MailType'
    BY <1>2, Zenon DEF Control, TaskType, CpuSetType, MailType, vars, sender, cpuset, mailbox
  <2>2. \A d \in Cpus : Located(d)' /\ Holds(d)' /\ Targets(d)' /\ UserStale(d)'
    BY <1>2, ZenonT(30) DEF Control, Located, Holds, Targets, UserStale, Candidate, vars, sender, cpuset
  <2> QED
    BY <1>2, <2>1, <2>2, Zenon DEF Control, vars, sender
<1> QED
  BY <1>1, <1>2

\* The types of the state; the masks a CPU is in and the place it is at agree;
\* a sender holds a page of its own that is not freed, and pins and awaits
\* each target once (la64_pmap.rs, init.rs).
THEOREM ControlHolds == Spec => []Control
  BY InitControl, NextControl, PTL DEF Spec
-----------------------------------------------------------------------------
(* Pins.                                                                   *)

\* Nobody is pinned when the CPUs start.
LEMMA InitPins == Init => Pins
<1> SUFFICES ASSUME Init, NEW t \in Cpus PROVE Counted(t) /\ Unawaited(t)
  BY DEF Pins
<1>1. Pinners(t) = {}
  BY Zenon DEF Init, Pinners, Pinned
<1>2. Cardinality(Pinners(t)) = 0
  BY <1>1, FS_EmptySet
<1> QED
  BY <1>2, Zenon DEF Init, Counted, Unawaited, Passed

\* Only finitely many senders pin a target.
LEMMA PinnersFinite ==
    \A t : IsFiniteSet(Pinners(t))
  BY FS_Subset, ConstantsAssumption DEF Pinners

\* A step that neither counts a pin nor gives one back, and lets a CPU pass
\* its counter only at zero, keeps Pins.
LEMMA QuietKeepsPins ==
    ASSUME Control, Pins, NEW c \in Cpus, NEW at \in Steps,
           UNCHANGED <<pending, users>>, Goto(c, at),
           pc[c] \notin {"PinCheck", "Request"}, at \notin {"PinCheck", "Request"},
           at \in Passed => pc[c] \in Passed \/ users[c] = 0,
           \A d \in Cpus \ {c} : todo'[d] = todo[d]
    PROVE  Pins'
<1>1. \A d \in Cpus : d # c => pc'[d] = pc[d] /\ todo'[d] = todo[d]
  BY Zenon DEF Control, TaskType, Goto
<1>2. pc'[c] = at
  BY Zenon DEF Control, TaskType, Goto
<1>3. \A d, t \in Cpus : Pinned(d, t)' <=> Pinned(d, t)
  BY <1>1, <1>2, Zenon DEF Pinned, Candidate
<1>4. \A d, t \in Cpus : Confirmed(d, t)' => Confirmed(d, t)
  BY <1>1, <1>2, Zenon DEF Confirmed, Candidate
<1>5. ASSUME NEW t \in Cpus PROVE Counted(t)' /\ Unawaited(t)'
  <2>1. Pinners(t)' = Pinners(t)
    BY <1>3, Zenon DEF Pinners
  <2>2. Counted(t)'
    BY <2>1, Zenon DEF Pins, Counted
  <2>3. CASE pc[t] \in Passed
    BY <2>2, <2>3, <1>4, Zenon DEF Pins, Unawaited
  <2>4. CASE t = c /\ users[c] = 0
    <3>1. Pinners(t) = {}
      BY <2>4, PinnersFinite, FS_EmptySet, Zenon DEF Pins, Counted
    <3>2. \A d \in Cpus : ~Confirmed(d, t)
      BY <3>1, Zenon DEF Pinners, Pinned, Confirmed
    <3> QED
      BY <2>2, <3>2, <1>4, Zenon DEF Unawaited
  <2>5. CASE pc[t] \notin Passed /\ ~(t = c /\ users[c] = 0)
    BY <2>2, <2>5, <1>1, <1>2, Zenon DEF Unawaited
  <2> QED
    BY <2>2, <2>3, <2>4, <2>5, Zenon
<1> QED
  BY <1>5, Zenon DEF Pins

\* Counting a pin: the sender becomes one of the users.
LEMMA PinUsersKeepsPins ==
    ASSUME Control, Pins, NEW c \in Cpus, PinUsers(c)
    PROVE  Pins'
<1> DEFINE u == Candidate(c)
<1>1. pc[c] = "PinUsers" /\ todo[c] # {} /\ todo[c] \cap pending[c] = {}
  BY Zenon DEF PinUsers, Control, Targets, Pinning
<1>2. u \in Cpus /\ u \notin pending[c]
  BY <1>1, CandidateIsIn, Zenon DEF Control
<1>3. UNCHANGED <<todo, pending>> /\ users' = [users EXCEPT ![u] = @ + 1]
  BY Zenon DEF PinUsers
<1>4. \A d \in Cpus : pc'[d] = IF d = c THEN "PinCheck" ELSE pc[d]
  BY Zenon DEF PinUsers, Goto, Control, TaskType
<1>5. \A d, t \in Cpus : Pinned(d, t)' <=> Pinned(d, t) \/ (d = c /\ t = u)
  BY <1>1, <1>3, <1>4, Zenon DEF Pinned, Candidate
<1>6. \A d, t \in Cpus : Confirmed(d, t)' => Confirmed(d, t)
  BY <1>3, <1>4, Zenon DEF Confirmed, Candidate
<1>7. ~Pinned(c, u)
  BY <1>1, <1>2, Zenon DEF Pinned
<1> HIDE DEF u
<1>8. ASSUME NEW t \in Cpus PROVE Counted(t)'
  <2>1. CASE t = u
    <3>1. Pinners(t)' = Pinners(t) \cup {c} /\ c \notin Pinners(t)
      BY <2>1, <1>2, <1>5, <1>7, Zenon DEF Pinners
    <3>2. Cardinality(Pinners(t) \cup {c}) = Cardinality(Pinners(t)) + 1
      BY <3>1, PinnersFinite, FS_AddElement, Zenon
    <3>3. users'[t] = users[t] + 1
      BY <2>1, <1>2, <1>3, Zenon DEF Control, TaskType
    <3> QED
      BY <3>1, <3>2, <3>3, Zenon DEF Pins, Counted
  <2>2. CASE t # u
    <3>1. Pinners(t)' = Pinners(t)
      BY <2>2, <1>5 DEF Pinners
    <3>2. users'[t] = users[t]
      BY <2>2, <1>2, <1>3, Zenon DEF Control, TaskType
    <3> QED
      BY <3>1, <3>2, Zenon DEF Pins, Counted
  <2> QED
    BY <2>1, <2>2
<1>9. ASSUME NEW t \in Cpus PROVE Unawaited(t)'
  BY <1>4, <1>6, Zenon DEF Pins, Unawaited, Passed
<1> QED
  BY <1>8, <1>9 DEF Pins

\* The second look: a pin of a CPU that does not accept any more is given back,
\* and a CPU that accepts has not passed its counter.
LEMMA PinCheckKeepsPins ==
    ASSUME Control, Pins, NEW c \in Cpus, PinCheck(c)
    PROVE  Pins'
<1> DEFINE u == Candidate(c)
<1>1. pc[c] = "PinCheck" /\ todo[c] # {} /\ todo[c] \cap pending[c] = {}
  BY Zenon DEF PinCheck, Control, Targets, Pinning
<1>2. u \in Cpus /\ u \notin pending[c]
  BY <1>1, CandidateIsIn, Zenon DEF Control
<1>3. UNCHANGED pending
  BY Zenon DEF PinCheck
<1>4. Pinned(c, u)
  BY <1>1, Zenon DEF Pinned
<1>5. CASE u \in accepting
  <2>1. UNCHANGED <<todo, users>>
    BY <1>5, Zenon DEF PinCheck
  <2>2. \A d \in Cpus : pc'[d] = IF d = c THEN "Request" ELSE pc[d]
    BY <1>5, Zenon DEF PinCheck, Goto, Control, TaskType
  <2>3. \A d, t \in Cpus : Pinned(d, t)' <=> Pinned(d, t)
    BY <1>1, <1>3, <2>1, <2>2, Zenon DEF Pinned, Candidate
  <2>4. \A d, t \in Cpus : Confirmed(d, t)' => Confirmed(d, t) \/ t = u
    BY <1>3, <2>1, <2>2, Zenon DEF Confirmed, Candidate
  <2>5. pc[u] \notin Passed
    BY <1>2, <1>5, Zenon DEF Control, Located, Draining, Passed
  <2> HIDE DEF u
  <2>6. ASSUME NEW t \in Cpus PROVE Counted(t)' /\ Unawaited(t)'
    <3>1. Pinners(t)' = Pinners(t)
      BY <2>3 DEF Pinners
    <3>2. Counted(t)'
      BY <3>1, <2>1 DEF Pins, Counted
    <3>3. pc'[t] \in Passed => pc[t] \in Passed
      BY <2>2, Zenon DEF Passed
    <3>4. Unawaited(t)'
      BY <3>3, <2>4, <2>5, Zenon DEF Pins, Unawaited
    <3> QED
      BY <3>2, <3>4
  <2> QED
    BY <2>6 DEF Pins
<1>6. CASE u \notin accepting
  <2>1. users' = [users EXCEPT ![u] = @ - 1] /\ todo' = [todo EXCEPT ![c] = @ \ {u}]
    BY <1>6, Zenon DEF PinCheck
  <2>2. \A d \in Cpus : pc'[d] = IF d = c THEN "Pin" ELSE pc[d]
    BY <1>6, ZenonT(30) DEF PinCheck, Goto, Control, TaskType
  <2>3. \A d \in Cpus \ {c} : todo'[d] = todo[d]
    BY <2>1, Zenon DEF Control, TaskType
  <2>4. \A d, t \in Cpus : Pinned(d, t)' <=> Pinned(d, t) /\ ~(d = c /\ t = u)
    BY <1>1, <1>2, <1>3, <2>2, <2>3, ZenonT(30) DEF Pinned, Candidate
  <2>5. \A d, t \in Cpus : Confirmed(d, t)' => Confirmed(d, t)
    BY <1>1, <1>3, <2>2, <2>3, Zenon DEF Confirmed, Candidate
  <2> HIDE DEF u
  <2>6. ASSUME NEW t \in Cpus PROVE Counted(t)'
    <3>1. CASE t = u
      <4>1. Pinners(t)' = Pinners(t) \ {c} /\ c \in Pinners(t)
        BY <3>1, <2>4, <1>2, <1>4, Zenon DEF Pinners
      <4>2. Cardinality(Pinners(t) \ {c}) = Cardinality(Pinners(t)) - 1
        BY <4>1, PinnersFinite, FS_RemoveElement, Zenon
      <4>3. users'[t] = users[t] - 1
        BY <3>1, <2>1, <1>2, Zenon DEF Control, TaskType
      <4> QED
        BY <4>1, <4>2, <4>3, Zenon DEF Pins, Counted
    <3>2. CASE t # u
      <4>1. Pinners(t)' = Pinners(t)
        BY <3>2, <2>4 DEF Pinners
      <4>2. users'[t] = users[t]
        BY <3>2, <2>1, <1>2, Zenon DEF Control, TaskType
      <4> QED
        BY <4>1, <4>2, Zenon DEF Pins, Counted
    <3> QED
      BY <3>1, <3>2
  <2>7. ASSUME NEW t \in Cpus PROVE Unawaited(t)'
    BY <2>2, <2>5, Zenon DEF Pins, Unawaited, Passed
  <2> QED
    BY <2>6, <2>7 DEF Pins
<1> QED
  BY <1>5, <1>6

\* A request turns the pin into a target that is waited for.
LEMMA RequestKeepsPins ==
    ASSUME Control, Pins, NEW c \in Cpus, Request(c)
    PROVE  Pins'
<1> DEFINE u == Candidate(c)
<1>1. pc[c] = "Request" /\ todo[c] # {}
  BY Zenon DEF Request, Control, Targets, Pinning
<1>2. u \in Cpus
  BY <1>1, CandidateIsIn, Zenon DEF Control
<1>3. UNCHANGED <<todo, users>> /\ pending' = [pending EXCEPT ![c] = @ \cup {u}]
  BY Zenon DEF Request
<1>4. \A d \in Cpus : pc'[d] = IF d = c THEN "SendIpi" ELSE pc[d]
  BY Zenon DEF Request, Goto, Control, TaskType
<1>5. \A d \in Cpus : pending'[d] = IF d = c THEN pending[c] \cup {u} ELSE pending[d]
  BY <1>3, Zenon DEF Control, TaskType
<1>6. \A d, t \in Cpus : Pinned(d, t)' <=> Pinned(d, t)
  BY <1>1, <1>3, <1>4, <1>5 DEF Pinned, Candidate
<1>7. \A d, t \in Cpus : Confirmed(d, t)' => Confirmed(d, t)
  BY <1>1, <1>3, <1>4, <1>5 DEF Confirmed, Candidate
<1>8. ASSUME NEW t \in Cpus PROVE Counted(t)' /\ Unawaited(t)'
  <2>1. Pinners(t)' = Pinners(t)
    BY <1>6 DEF Pinners
  <2>2. Counted(t)'
    BY <2>1, <1>3 DEF Pins, Counted
  <2>3. Unawaited(t)'
    BY <1>4, <1>7, Zenon DEF Pins, Unawaited, Passed
  <2> QED
    BY <2>2, <2>3
<1> QED
  BY <1>8 DEF Pins

\* A target that is done is waited for no more, and its pin is given back.
LEMMA TargetDoneKeepsPins ==
    ASSUME Control, Pins, NEW c \in Cpus, NEW u \in Cpus, TargetDone(c, u)
    PROVE  Pins'
<1>1. pc[c] = "Wait" /\ u \in pending[c]
  BY Zenon DEF TargetDone, At
<1>2. UNCHANGED <<pc, todo>> /\ users' = [users EXCEPT ![u] = @ - 1]
  BY Zenon DEF TargetDone
<1>3. \A d \in Cpus : pending'[d] = IF d = c THEN pending[c] \ {u} ELSE pending[d]
  BY Zenon DEF TargetDone, Control, TaskType
<1>4. \A d, t \in Cpus : Pinned(d, t)' <=> Pinned(d, t) /\ ~(d = c /\ t = u)
  BY <1>1, <1>2, <1>3, ZenonT(30) DEF Pinned, Candidate
<1>5. \A d, t \in Cpus : Confirmed(d, t)' => Confirmed(d, t)
  BY <1>2, <1>3, Zenon DEF Confirmed, Candidate
<1>6. Pinned(c, u)
  BY <1>1, Zenon DEF Pinned
<1>7. ASSUME NEW t \in Cpus PROVE Counted(t)'
  <2>1. CASE t = u
    <3>1. Pinners(t)' = Pinners(t) \ {c} /\ c \in Pinners(t)
      BY <2>1, <1>4, <1>6 DEF Pinners
    <3>2. Cardinality(Pinners(t) \ {c}) = Cardinality(Pinners(t)) - 1
      BY <3>1, PinnersFinite, FS_RemoveElement, ZenonT(30)
    <3>3. users'[t] = users[t] - 1
      BY <2>1, <1>2, Zenon DEF Control, TaskType
    <3> QED
      BY <3>1, <3>2, <3>3, Zenon DEF Pins, Counted
  <2>2. CASE t # u
    <3>1. Pinners(t)' = Pinners(t)
      BY <2>2, <1>4 DEF Pinners
    <3>2. users'[t] = users[t]
      BY <2>2, <1>2, Zenon DEF Control, TaskType
    <3> QED
      BY <3>1, <3>2, Zenon DEF Pins, Counted
  <2> QED
    BY <2>1, <2>2
<1>8. ASSUME NEW t \in Cpus PROVE Unawaited(t)'
  BY <1>2, <1>5, Zenon DEF Pins, Unawaited
<1> QED
  BY <1>7, <1>8 DEF Pins

\* The steps of the mailbox, of the address spaces and of a shutdown keep Pins:
\* only DrainedSenders lets a CPU pass, with its counter at zero.
LEMMA OthersKeepPins ==
    ASSUME Control, Pins,
           \/ \E c \in Cpus : \E x \in Contexts : Poll(c) \/ Interrupt(c) \/ Service(c, x)
           \/ StartStop \/ AllStopped
           \/ \E c \in Cpus : LoopTop(c) \/ Idle(c) \/ OfflineStep(c)
           \/ \E c \in Cpus : EnterUser(c) \/ SwitchStep(c)
    PROVE  Pins'
<1> USE DEF Steps, GoneOffline, UserRoots, Passed, At, sender
<1>1. ASSUME NEW c \in Cpus, NEW x \in Contexts, Poll(c) \/ Interrupt(c) \/ Service(c, x) PROVE Pins'
  <2>1. UNCHANGED <<pc, sender>>
    BY <1>1, ServiceFrame, Zenon
  <2> QED
    BY <2>1, ZenonT(30) DEF Pins, Counted, Unawaited, Pinners, Pinned, Confirmed, Candidate
<1>2. CASE StartStop
  BY <1>2, QuietKeepsPins, ConstantsAssumption, Zenon DEF StartStop
<1>3. CASE AllStopped
  BY <1>3, QuietKeepsPins, ConstantsAssumption, Zenon DEF AllStopped
<1>4. ASSUME NEW c \in Cpus, LoopTop(c) \/ Idle(c) PROVE Pins'
  BY <1>4, QuietKeepsPins, Zenon DEF LoopTop, Idle
<1>5. ASSUME NEW c \in Cpus, StopAccepting(c) \/ DrainedSenders(c) PROVE Pins'
  BY <1>5, QuietKeepsPins, Zenon DEF StopAccepting, DrainedSenders
<1>6. ASSUME NEW c \in Cpus, PublishStopped(c) \/ Park(c) PROVE Pins'
  BY <1>6, QuietKeepsPins, Zenon DEF PublishStopped, Park
<1>7. ASSUME NEW c \in Cpus, EnterUser(c) \/ InstallRoot(c) PROVE Pins'
  BY <1>7, QuietKeepsPins, Zenon DEF EnterUser, InstallRoot
<1>8. ASSUME NEW c \in Cpus, FinishSwitch(c) \/ LeaveUser(c) \/ FinishLeave(c) PROVE Pins'
  BY <1>8, QuietKeepsPins, Zenon DEF FinishSwitch, LeaveUser, FinishLeave
<1> QED
  BY <1>1, <1>2, <1>3, <1>4, <1>5, <1>6, <1>7, <1>8, Zenon DEF OfflineStep, SwitchStep

\* The steps of a sender that count no pin keep Pins.
LEMMA QuietSenderKeepsPins ==
    ASSUME Control, Pins, NEW c \in Cpus,
           \/ \E p \in Pages : StartUnmap(c, p)
           \/ Acquire(c) \/ ClearPte(c) \/ ReadMask(c) \/ Pin(c) \/ SendIpi(c) \/ PinDone(c) \/ Return(c)
    PROVE  Pins'
<1> USE DEF Steps, Locking, Sending, Passed, At, sender
<1>1. ASSUME NEW p \in Pages, StartUnmap(c, p) PROVE Pins'
  BY <1>1, QuietKeepsPins, Zenon DEF StartUnmap
<1>2. CASE Acquire(c) \/ ClearPte(c) \/ PinDone(c) \/ Return(c)
  BY <1>2, QuietKeepsPins, Zenon DEF Acquire, ClearPte, PinDone, Return
<1>3. CASE ReadMask(c)
  <2>1. \A d \in Cpus \ {c} : todo'[d] = todo[d]
    BY <1>3, Zenon DEF ReadMask, Control, TaskType
  <2> QED
    BY <1>3, <2>1, QuietKeepsPins, Zenon DEF ReadMask
<1>4. CASE Pin(c)
  <2>1. \A d \in Cpus \ {c} : todo'[d] = todo[d]
    BY <1>4, ZenonT(30) DEF Pin, Control, TaskType
  <2>2. Goto(c, "Pin") \/ Goto(c, "PinUsers")
    BY <1>4, ZenonT(30) DEF Pin, Goto, Control, TaskType
  <2> QED
    BY <1>4, <2>1, <2>2, QuietKeepsPins, Zenon DEF Pin
<1>5. CASE SendIpi(c)
  <2>1. \A d \in Cpus \ {c} : todo'[d] = todo[d]
    BY <1>5, Zenon DEF SendIpi, Control, TaskType
  <2> QED
    BY <1>5, <2>1, QuietKeepsPins, Zenon DEF SendIpi
<1> QED
  BY <1>1, <1>2, <1>3, <1>4, <1>5, Zenon

\* Every step keeps Pins.
LEMMA NextPins == Control /\ Pins /\ [Next]_vars => Pins'
<1> SUFFICES ASSUME Control, Pins, [Next]_vars PROVE Pins'
  OBVIOUS
<1>1. CASE Next
  <2>1. ASSUME NEW c \in Cpus, SenderStep(c) \/ \E p \in Pages : StartUnmap(c, p) PROVE Pins'
    BY <2>1, QuietSenderKeepsPins, PinUsersKeepsPins, PinCheckKeepsPins, RequestKeepsPins,
       TargetDoneKeepsPins, Zenon DEF SenderStep
  <2> QED
    BY <1>1, <2>1, StepKinds, OthersKeepPins, Zenon
<1>2. CASE UNCHANGED vars
  BY <1>2, Zenon DEF Pins, Counted, Unawaited, Pinners, Pinned, Confirmed, Candidate, vars, sender
<1> QED
  BY <1>1, <1>2

\* The counter of a target is the number of the senders that pin it, and a CPU
\* that has seen it at zero is asked for nothing any more
\* (try_pin_la64_tlb_target, prepare_la64_tlb_cpu_offline).
THEOREM PinsHold == Spec => []Pins
<1>1. Init => Pins
  BY InitPins
<1>2. Control /\ Pins /\ [Next]_vars => Pins'
  BY NextPins
<1> QED
  BY <1>1, <1>2, ControlHolds, PTL DEF Spec

\* No sender waits for a CPU that has stopped, whatever the CPUs and the order
\* of their steps (prepare_la64_tlb_cpu_offline, try_pin_la64_tlb_target).
THEOREM StoppedAreNotAwaited == Spec => []NobodyAwaitsStopped
<1>1. Control /\ Pins => NobodyAwaitsStopped
  <2> SUFFICES ASSUME Control, Pins, NEW c \in Cpus, NEW t \in stopped PROVE t \notin pending[c]
    BY Zenon DEF NobodyAwaitsStopped
  <2>1. t \in Cpus /\ pc[t] \in Passed
    BY Zenon DEF Control, CpuSetType, Located, Passed
  <2> QED
    BY <2>1, Zenon DEF Pins, Unawaited, Confirmed
<1> QED
  BY <1>1, ControlHolds, PinsHold, PTL
-----------------------------------------------------------------------------
(* Fresh.                                                                  *)

\* The order of the generations, which are u64 counters.
LEMMA GenerationOrder ==
    /\ \A m \in Nat : m <= m
    /\ \A m, n, k \in Nat : m <= n /\ n <= k => m <= k
    /\ \A m, n \in Nat : m <= n => m < n + 1
    /\ \A m, n \in Nat : ~(m < n /\ m >= n)
  OBVIOUS

\* A request only raises the generation asked for (fetch_add of requested).
LEMMA RequestGrows ==
    ASSUME NEW u \in Cpus, requested \in [Cpus -> Nat], requested' = [requested EXCEPT ![u] = @ + 1]
    PROVE  \A d \in Cpus : requested'[d] \in Nat /\ requested[d] <= requested'[d]
  OBVIOUS

\* Nothing is stale when the CPUs start.
LEMMA InitFresh == Init => Fresh
  BY DEF Init, Fresh, Bounded, Cleared, Reached, Owed, NoStaleTranslation

\* What a mailbox service may do to the generations: no generation gets ahead
\* of the requests, a CPU that flushes has nothing stale, and one that completes
\* has flushed for the generation before (service_la64_pending_tlb_shootdown).
LEMMA ServiceGenerations ==
    ASSUME Control, Fresh, NEW c \in Cpus, NEW y \in Contexts,
           Poll(c) \/ Interrupt(c) \/ Service(c, y),
           NEW d \in Cpus
    PROVE  /\ Bounded(d)'
           /\ completed'[d] = completed[d] \/ \E x \in Contexts : svc[d][x] = "Flushed" /\ completed'[d] = seen[d][x]
           /\ stale'[d] = {} \/ \A x \in Contexts : svc'[d][x] = "Flushed" =>
                                    svc[d][x] = "Flushed" /\ seen'[d][x] = seen[d][x]
<1>0. Bounded(d)
  BY Zenon DEF Fresh
<1>1. CASE Poll(c)
  BY <1>0, <1>1, ZenonT(30) DEF Poll, Step, Control, MailType, Bounded, Contexts
<1>2. CASE Interrupt(c)
  BY <1>0, <1>2, ZenonT(30) DEF Interrupt, Step, Control, MailType, Bounded, Contexts
<1>3. CASE NothingPending(c, y)
  BY <1>0, <1>3, ZenonT(30) DEF NothingPending, Step, Control, MailType, Bounded
<1>4. CASE Claim(c, y)
  BY <1>0, <1>4, ZenonT(30) DEF Claim, Step, Control, MailType, Bounded
<1>5. CASE Flush(c, y)
  BY <1>0, <1>5 DEF Flush, Step, Control, MailType, Bounded
<1>6. CASE Complete(c, y)
  BY <1>0, <1>6 DEF Complete, Step, Control, MailType, Bounded
<1>7. CASE Drained(c, y)
  BY <1>0, <1>7, ZenonT(30) DEF Drained, Step, Control, MailType, Bounded
<1>8. CASE Release(c, y)
  BY <1>0, <1>8, ZenonT(30) DEF Release, Step, Control, MailType, Bounded
<1>9. CASE Recheck(c, y)
  BY <1>0, <1>9, ZenonT(30) DEF Recheck, Step, Control, MailType, Bounded
<1> QED
  BY <1>1, <1>2, <1>3, <1>4, <1>5, <1>6, <1>7, <1>8, <1>9, Zenon DEF Service

\* A mailbox service keeps Fresh.
LEMMA ServiceKeepsFresh ==
    ASSUME Control, Fresh, NEW c \in Cpus, NEW y \in Contexts,
           Poll(c) \/ Interrupt(c) \/ Service(c, y)
    PROVE  Fresh'
<1>1. UNCHANGED <<pc, sender, cpuset, requested>> /\ \A d \in Cpus : stale'[d] \subseteq stale[d]
  BY ServiceFrame, Zenon
<1>2. \A d \in Cpus : Bounded(d)'
  BY ServiceGenerations, Zenon
<1>3. \A d \in Cpus : Cleared(d)' /\ Reached(d)'
  BY <1>1, ZenonT(30) DEF Fresh, Cleared, Reached, sender, cpuset
<1>4. NoStaleTranslation'
  BY <1>1, Zenon DEF Fresh, NoStaleTranslation, Control, TaskType, sender, cpuset
<1>5. ASSUME NEW s \in Cpus, NEW d \in pending'[s], page'[s] \in stale'[d]
      PROVE  /\ completed'[d] < gen'[s][d]
             /\ \A x \in Contexts : svc'[d][x] = "Flushed" => seen'[d][x] < gen'[s][d]
  <2>1. UNCHANGED <<page, pending, gen>>
    BY <1>1, Zenon DEF sender
  <2>2. d \in Cpus /\ d \in pending[s] /\ page[s] \in stale[d]
    BY <1>1, <1>5, <2>1, Zenon DEF Control, TaskType
  <2>3. /\ completed[d] < gen[s][d]
        /\ \A x \in Contexts : svc[d][x] = "Flushed" => seen[d][x] < gen[s][d]
    BY <2>2, Zenon DEF Fresh, Owed
  <2>4. completed'[d] = completed[d] \/ \E x \in Contexts : svc[d][x] = "Flushed" /\ completed'[d] = seen[d][x]
    BY <2>2, ServiceGenerations, Zenon
  <2>5. \A x \in Contexts : svc'[d][x] = "Flushed" => svc[d][x] = "Flushed" /\ seen'[d][x] = seen[d][x]
    <3>1. stale'[d] # {}
      BY <1>5, Zenon
    <3> QED
      BY <3>1, <2>2, ServiceGenerations, Zenon
  <2> QED
    BY <2>1, <2>3, <2>4, <2>5, Zenon
<1>6. \A s \in Cpus : Owed(s)'
  BY <1>5, Zenon DEF Owed
<1> QED
  BY <1>2, <1>3, <1>4, <1>6, Zenon DEF Fresh

\* A step outside of a shootdown keeps Fresh.
LEMMA ElsewhereKeepsFresh ==
    ASSUME Control, Fresh, NEW c \in Cpus, NEW at \in Steps \ Busy,
           UNCHANGED <<sender, mailbox, requested>>, pc[c] \notin Busy, Goto(c, at),
           \A d \in Cpus : stale'[d] \subseteq stale[d], online' \subseteq online
    PROVE  Fresh'
<1>0. /\ UNCHANGED <<page, todo, pending, gen, pte, freed, completed, svc, seen, requested>>
      /\ \A d \in Cpus : Bounded(d) /\ Cleared(d) /\ Reached(d) /\ Owed(d) /\ pending[d] \subseteq Cpus
  BY Zenon DEF Fresh, Control, TaskType, sender, mailbox
<1>1. \A d \in Cpus : pc'[d] \in Busy => pc'[d] = pc[d]
  BY Domains, Zenon DEF Control, Goto
<1>2. \A d \in Cpus : Bounded(d)'
  BY <1>0, Zenon DEF Bounded
<1>3. \A d \in Cpus : Cleared(d)'
  BY <1>0, <1>1, Zenon DEF Cleared, Busy
<1>4. \A d \in Cpus : Reached(d)'
  BY <1>0, <1>1, Zenon DEF Reached, Busy
<1>5. \A d \in Cpus : Owed(d)'
  BY <1>0, ZenonT(30) DEF Owed
<1>6. NoStaleTranslation'
  BY <1>0, Zenon DEF Fresh, NoStaleTranslation
<1> QED
  BY <1>2, <1>3, <1>4, <1>5, <1>6, Zenon DEF Fresh

\* A step of a sender that clears no entry and frees no page need only keep
\* what it owes and is owed.
LEMMA SenderFrame ==
    ASSUME Control, Fresh, NEW c \in Cpus, Elsewhere(c),
           UNCHANGED <<mailbox, cpuset, stale, pte, freed>>,
           \A d \in Cpus : requested'[d] \in Nat /\ requested[d] <= requested'[d],
           pc'[c] # "Mask", Reached(c)', Owed(c)'
    PROVE  Fresh'
<1>0. /\ UNCHANGED <<completed, svc, seen, online>>
      /\ \A d \in Cpus : Bounded(d) /\ Cleared(d) /\ Reached(d) /\ Owed(d)
  BY Zenon DEF Fresh, mailbox, cpuset
<1>1. ASSUME NEW d \in Cpus PROVE Bounded(d)'
  <2>0. MailType
    BY Zenon DEF Control
  <2>1. completed[d] \in Nat /\ requested[d] \in Nat /\ requested'[d] \in Nat
    BY <2>0, Zenon DEF MailType
  <2>2. \A x \in Contexts : seen[d][x] \in Nat
    <3>1. seen[d] \in [Contexts -> Nat]
      BY <2>0, Zenon DEF MailType
    <3> QED
      BY <3>1, Zenon
  <2> QED
    BY <1>0, <2>1, <2>2, GenerationOrder, ZenonT(30) DEF Bounded
<1>2. \A d \in Cpus : Cleared(d)'
  BY <1>0, Zenon DEF Cleared, Elsewhere
<1>3. \A d \in Cpus \ {c} : Reached(d)'
  BY <1>0, ZenonT(30) DEF Reached, Elsewhere
<1>4. \A d \in Cpus \ {c} : Owed(d)'
  BY <1>0, ZenonT(30) DEF Owed, Elsewhere
<1>5. NoStaleTranslation'
  BY <1>0, Zenon DEF Fresh, NoStaleTranslation
<1> QED
  BY <1>1, <1>2, <1>3, <1>4, <1>5, Zenon DEF Fresh

\* A CPU that does not accept is offline, and has no user translations.
LEMMA NotAcceptingIsGone ==
    ASSUME Control, NEW d \in Cpus, d \notin accepting, NEW p \in stale[d]
    PROVE  p \in KernelPages /\ d \notin online
<1>0. Located(d) /\ UserStale(d) /\ stale[d] \subseteq Pages
  BY Zenon DEF Control, MailType
<1>1. pc[d] \in Draining /\ d \notin online
  BY <1>0, Zenon DEF Located, Draining, GoneOffline
<1>2. p \notin UserPages
  BY <1>0, <1>1, Zenon DEF UserStale, Draining, UserRoots
<1> QED
  BY <1>0, <1>1, <1>2, Zenon DEF Pages

\* Unmapping: the cleared entry is stale where its root is installed, and the
\* mask that is read afterwards has every such CPU that is not offline
\* (tx_la64_begin_pmap_switch adds a CPU before it installs the root).
LEMMA UnmapKeepsFresh ==
    ASSUME Control, Fresh, NEW c \in Cpus,
           (\E p \in Pages : StartUnmap(c, p)) \/ Acquire(c) \/ ClearPte(c) \/ ReadMask(c)
    PROVE  Fresh'
<1>0. /\ TaskType /\ Holds(c) /\ Targets(c)
      /\ \A d \in Cpus : Located(d) /\ Holds(d) /\ Targets(d) /\ UserStale(d)
      /\ \A d \in Cpus : Bounded(d) /\ Cleared(d) /\ Reached(d) /\ Owed(d)
  BY Zenon DEF Control, Fresh
<1>1. Elsewhere(c)
  BY <1>0, SenderElsewhere, Zenon DEF SenderStep
<1>2. /\ DOMAIN pc = Cpus /\ DOMAIN todo = Cpus
      /\ \A d \in Cpus : requested[d] \in Nat /\ requested[d] <= requested[d]
  BY <1>0, Domains, GenerationOrder, Zenon DEF Control, MailType
<1>3. ASSUME pc'[c] \in Locking, pending'[c] = {}, UNCHANGED requested,
             UNCHANGED <<mailbox, cpuset, stale, pte, freed>>
      PROVE  Fresh'
  <2>1. Reached(c)' /\ Owed(c)' /\ pc'[c] # "Mask"
    BY <1>3, Zenon DEF Reached, Owed, Sending, Locking
  <2> QED
    BY <1>1, <1>2, <1>3, <2>1, SenderFrame, Zenon
<1>4. ASSUME NEW p \in Pages, StartUnmap(c, p) PROVE Fresh'
  <2>1. /\ pc[c] = "Run" /\ pc'[c] = "LockWait"
        /\ UNCHANGED <<pending, mailbox, cpuset, stale, pte, freed, requested>>
    BY <1>2, <1>4, Zenon DEF StartUnmap, At, Goto
  <2>2. pending[c] = {}
    BY <1>0, <2>1, Zenon DEF Targets, Sending
  <2> QED
    BY <1>3, <2>1, <2>2, Zenon DEF Locking
<1>5. CASE Acquire(c)
  <2>1. /\ pc[c] = "LockWait" /\ pc'[c] = "Unmap"
        /\ UNCHANGED <<pending, mailbox, cpuset, stale, pte, freed, requested>>
    BY <1>2, <1>5, Zenon DEF Acquire, At, Goto
  <2>2. pending[c] = {}
    BY <1>0, <2>1, Zenon DEF Targets, Sending
  <2> QED
    BY <1>3, <2>1, <2>2, Zenon DEF Locking
<1>6. CASE ClearPte(c)
  <2>1. /\ UNCHANGED <<page, todo, pending, gen, freed, online, completed, seen, svc, requested>>
        /\ pte' = pte \ {page[c]}
    BY <1>6, Zenon DEF ClearPte, cpuset, mailbox
  <2>2. pc[c] = "Unmap" /\ pc'[c] = "Mask" /\ \A d \in Cpus : d # c => pc'[d] = pc[d]
    BY <1>1, <1>2, <1>6, Zenon DEF ClearPte, Goto, Elsewhere
  <2>3. page[c] \in pte /\ page[c] \notin freed /\ pending[c] = {}
    BY <1>0, <2>2, Zenon DEF Holds, Targets, Locking, Sending
  <2>4. /\ \A d \in Cpus : stale'[d] \subseteq stale[d] \cup {page[c]}
        /\ stale'[c] = stale[c]
    BY <1>6, Zenon DEF ClearPte
  <2>5. \A d \in Cpus : Bounded(d)'
    BY <1>0, <2>1, Zenon DEF Bounded
  <2>6. ASSUME NEW d \in Cpus, d # c, pc[d] \in Sending \cup {"Mask"} PROVE page[d] # page[c]
    <3>1. Holds(d)
      BY <1>0, Zenon
    <3> QED
      BY <2>3, <2>6, <3>1, Zenon DEF Holds, Sending, Locking
  <2>7. \A d \in Cpus : Cleared(d)'
    BY <1>0, <2>1, <2>2, <2>3, <2>4, <2>6, ZenonT(30) DEF Cleared
  <2>8. ASSUME NEW d \in Cpus PROVE Reached(d)'
    <3>1. CASE pc'[d] \notin Sending
      BY <3>1, Zenon DEF Reached
    <3>2. CASE pc'[d] \in Sending
      <4>1. d # c /\ pc[d] \in Sending
        BY <2>2, <3>2, Zenon DEF Sending
      <4>2. page[d] # page[c] /\ Reached(d)
        BY <1>0, <2>6, <4>1, Zenon
      <4> QED
        BY <2>1, <2>4, <4>1, <4>2, Zenon DEF Reached
    <3> QED
      BY <3>1, <3>2, Zenon
  <2>9. ASSUME NEW d \in Cpus PROVE Owed(d)'
    <3>1. CASE pending[d] = {}
      BY <2>1, <3>1, Zenon DEF Owed
    <3>2. CASE pending[d] # {}
      <4>1. pc[d] \in Sending /\ pending[d] \subseteq Cpus
        BY <1>0, <3>2, Zenon DEF Targets, TaskType
      <4>2. page[d] # page[c] /\ Owed(d)
        BY <1>0, <2>3, <2>6, <3>2, <4>1, Zenon
      <4> QED
        BY <2>1, <2>4, <4>1, <4>2, ZenonT(30) DEF Owed
    <3> QED
      BY <3>1, <3>2, Zenon
  <2>10. NoStaleTranslation'
    BY <2>1, <2>3, <2>4, Zenon DEF Fresh, NoStaleTranslation
  <2> QED
    BY <2>5, <2>7, <2>8, <2>9, <2>10, Zenon DEF Fresh
<1>7. CASE ReadMask(c)
  <2>1. /\ pc[c] = "Mask" /\ pc'[c] = "Pin"
        /\ UNCHANGED <<page, pending, gen, requested, mailbox, cpuset, stale, pte, freed>>
    BY <1>2, <1>7, Zenon DEF ReadMask, Goto
  <2>2. todo'[c] = (IF page[c] \in UserPages THEN resid ELSE online) \ {c}
    BY <1>2, <1>7, Zenon DEF ReadMask
  <2>3. pending[c] = {} /\ page[c] \notin stale[c] /\ page[c] \in Pages
    BY <1>0, <2>1, Zenon DEF Targets, Cleared, Holds, Sending
  <2>4. Owed(c)'
    BY <2>1, <2>3, Zenon DEF Owed
  <2>5. ASSUME NEW d \in Cpus, page[c] \in stale[d]
        PROVE  d \in todo'[c] \/ (page[c] \in KernelPages /\ d \notin online)
    <3>1. CASE page[c] \in UserPages
      <4>1. d \in resid
        BY <1>0, <2>5, <3>1, Zenon DEF UserStale, Located
      <4> QED
        BY <3>1, <4>1, <2>2, <2>3, <2>5, Zenon
    <3>2. CASE page[c] \notin UserPages
      BY <3>2, <2>2, <2>3, <2>5, Zenon DEF Pages
    <3> QED
      BY <3>1, <3>2, Zenon
  <2>6. Reached(c)'
    BY <2>1, <2>5, Zenon DEF Reached, cpuset
  <2> QED
    BY <1>1, <1>2, <2>1, <2>4, <2>6, SenderFrame, Zenon
<1> QED
  BY <1>4, <1>5, <1>6, <1>7, Zenon

\* Pinning and asking: a candidate is dropped only when it does not accept, and
\* a target is asked for a generation that nobody has flushed for
\* (la64_remote_tlb_shootdown).
LEMMA PinKeepsFresh ==
    ASSUME Control, Fresh, NEW c \in Cpus,
           Pin(c) \/ PinUsers(c) \/ PinCheck(c) \/ Request(c) \/ SendIpi(c) \/ PinDone(c)
    PROVE  Fresh'
<1> DEFINE u == Candidate(c)
<1>0. TaskType /\ Targets(c) /\ Reached(c) /\ Owed(c) /\ Elsewhere(c)
  BY SenderElsewhere, Zenon DEF Control, Fresh, SenderStep
<1>1. /\ DOMAIN pc = Cpus /\ DOMAIN todo = Cpus /\ DOMAIN pending = Cpus
      /\ gen \in [Cpus -> [Cpus -> Nat]] /\ requested \in [Cpus -> Nat]
      /\ \A d \in Cpus : requested[d] \in Nat /\ requested[d] <= requested[d]
  BY <1>0, Domains, GenerationOrder, Zenon DEF Control, TaskType, MailType
<1>2. /\ UNCHANGED <<page, mailbox, cpuset, stale, pte, freed, completed, svc, seen, online>>
      /\ pc[c] \in Sending
  BY Zenon DEF Pin, PinUsers, PinCheck, Request, SendIpi, PinDone, Sending, sender, mailbox, cpuset
<1>3. \A d \in Cpus : page[c] \in stale[d] =>
          d \in todo[c] \/ d \in pending[c] \/ (page[c] \in KernelPages /\ d \notin online)
  BY <1>0, <1>2, Zenon DEF Reached
<1>4. ASSUME UNCHANGED <<pending, gen, requested>>, pc'[c] # "Mask",
             \/ UNCHANGED todo
             \/ todo'[c] = todo[c] \ {u} /\ (u \notin accepting \/ u \in pending[c])
      PROVE  Fresh'
  <2>1. Owed(c)'
    BY <1>0, <1>2, <1>4, Zenon DEF Owed
  <2>2. \A d \in Cpus : page[c] \in stale[d] /\ d \notin accepting => page[c] \in KernelPages /\ d \notin online
    BY NotAcceptingIsGone, Zenon
  <2>3. Reached(c)'
    <3> HIDE DEF u
    <3> QED
      BY <1>2, <1>3, <1>4, <2>2, Zenon DEF Reached
  <2> QED
    BY <1>0, <1>1, <1>2, <1>4, <2>1, <2>3, SenderFrame, Zenon
<1>5. CASE Pin(c)
  <2>1. UNCHANGED <<pending, gen, requested>> /\ pc'[c] # "Mask"
    BY <1>1, <1>5, Zenon DEF Pin, Goto
  <2>2. UNCHANGED todo \/ (todo'[c] = todo[c] \ {u} /\ u \notin accepting)
    BY <1>1, <1>5, Zenon DEF Pin
  <2> QED
    BY <1>4, <2>1, <2>2, Zenon
<1>6. CASE PinUsers(c)
  <2>1. UNCHANGED <<todo, pending, gen, requested>> /\ pc'[c] # "Mask"
    BY <1>1, <1>6, Zenon DEF PinUsers, Goto
  <2> QED
    BY <1>4, <2>1, Zenon
<1>7. CASE PinCheck(c)
  <2>1. UNCHANGED <<pending, gen, requested>> /\ pc'[c] # "Mask"
    BY <1>1, <1>7, ZenonT(30) DEF PinCheck, Goto
  <2>2. UNCHANGED todo \/ (todo'[c] = todo[c] \ {u} /\ u \notin accepting)
    BY <1>1, <1>7, Zenon DEF PinCheck
  <2> QED
    BY <1>4, <2>1, <2>2, Zenon
<1>8. CASE Request(c)
  <2>1. /\ UNCHANGED todo /\ pc[c] = "Request" /\ pc'[c] # "Mask"
        /\ requested' = [requested EXCEPT ![u] = @ + 1]
        /\ gen' = [gen EXCEPT ![c][u] = requested[u] + 1]
        /\ pending'[c] = pending[c] \cup {u}
    BY <1>1, <1>8, Zenon DEF Request, Goto
  <2>2. u \in Cpus /\ pending[c] \subseteq Cpus
    BY <1>0, <2>1, CandidateIsIn, Zenon DEF Targets, Pinning, TaskType
  <2>3. /\ requested[u] \in Nat /\ completed[u] \in Nat /\ completed[u] <= requested[u]
        /\ \A x \in Contexts : seen[u][x] \in Nat /\ seen[u][x] <= requested[u]
    <3>1. Bounded(u)
      BY <2>2, Zenon DEF Fresh
    <3>2. MailType
      BY Zenon DEF Control
    <3>3. requested[u] \in Nat /\ completed[u] \in Nat /\ \A x \in Contexts : seen[u][x] \in Nat
      BY <2>2, <3>2, ZenonT(30) DEF MailType
    <3> QED
      BY <3>1, <3>3, Zenon DEF Bounded
  <2> HIDE DEF u
  <2>4. \A d \in Cpus : requested'[d] \in Nat /\ requested[d] <= requested'[d]
    BY <1>1, <2>1, <2>2, RequestGrows, Zenon
  <2>5. Reached(c)'
    BY <1>2, <1>3, <2>1, Zenon DEF Reached
  <2>6. gen'[c][u] = requested[u] + 1 /\ \A d \in Cpus : d # u => gen'[c][d] = gen[c][d]
    BY <1>1, <2>1, <2>2, Zenon
  <2>7. completed[u] < gen'[c][u] /\ \A x \in Contexts : seen[u][x] < gen'[c][u]
    <3>1. completed[u] < requested[u] + 1 /\ \A x \in Contexts : seen[u][x] < requested[u] + 1
      BY <2>3, GenerationOrder, Zenon
    <3> QED
      BY <2>6, <3>1, Zenon
  <2>8. \A d \in pending'[c] : d \in Cpus /\ (d = u \/ d \in pending[c])
    BY <2>1, <2>2, Zenon
  <2>9. Owed(c)'
    BY <1>0, <1>2, <2>6, <2>7, <2>8, ZenonT(30) DEF Owed
  <2> QED
    BY <1>0, <1>2, <2>1, <2>4, <2>5, <2>9, SenderFrame, Zenon
<1>9. CASE SendIpi(c)
  <2>1. /\ UNCHANGED <<pending, gen, requested>> /\ pc[c] = "SendIpi" /\ pc'[c] # "Mask"
        /\ todo'[c] = todo[c] \ {u}
    BY <1>1, <1>9, Zenon DEF SendIpi, Goto
  <2>2. u \in pending[c]
    BY <1>0, <2>1, Zenon DEF Targets
  <2> QED
    BY <1>4, <2>1, <2>2, Zenon
<1>10. CASE PinDone(c)
  <2>1. UNCHANGED <<todo, pending, gen, requested>> /\ pc'[c] # "Mask"
    BY <1>1, <1>10, Zenon DEF PinDone, Goto, sender
  <2> QED
    BY <1>4, <2>1, Zenon
<1> QED
  BY <1>5, <1>6, <1>7, <1>8, <1>9, <1>10, Zenon

\* Waiting: a target whose generation is reached has nothing stale of the page,
\* so that no CPU has when the shootdown returns, those offline aside
\* (la64_tlb_generation_reached).
LEMMA WaitKeepsFresh ==
    ASSUME Control, Fresh, NEW c \in Cpus,
           Return(c) \/ \E t \in Cpus : TargetDone(c, t)
    PROVE  Fresh'
<1>0. /\ TaskType /\ Targets(c) /\ Reached(c) /\ Owed(c) /\ Elsewhere(c)
      /\ \A d \in Cpus : Bounded(d) /\ Cleared(d) /\ Reached(d) /\ Owed(d)
  BY SenderElsewhere, Zenon DEF Control, Fresh, SenderStep
<1>1. /\ DOMAIN pc = Cpus /\ DOMAIN pending = Cpus /\ gen \in [Cpus -> [Cpus -> Nat]]
      /\ \A d \in Cpus : requested[d] \in Nat /\ requested[d] <= requested[d] /\ completed[d] \in Nat
  BY <1>0, Domains, GenerationOrder, Zenon DEF Control, TaskType, MailType
<1>2. ASSUME NEW t \in Cpus, TargetDone(c, t) PROVE Fresh'
  <2>1. /\ UNCHANGED <<pc, page, todo, requested, mailbox, cpuset, stale, pte, freed>>
        /\ pc[c] = "Wait" /\ t \in pending[c] /\ completed[t] >= gen[c][t]
        /\ pending'[c] = pending[c] \ {t} /\ gen' = [gen EXCEPT ![c][t] = 0]
    BY <1>1, <1>2, Zenon DEF TargetDone, At
  <2>2. UNCHANGED <<completed, svc, seen, online>>
    BY <2>1, Zenon DEF mailbox, cpuset
  <2>3. \A d \in Cpus : d # t => gen'[c][d] = gen[c][d]
    BY <1>1, <2>1, Zenon
  <2>4. page[c] \notin stale[t]
    <3>1. completed[t] \in Nat /\ gen[c][t] \in Nat
      BY <1>1, Zenon
    <3>2. page[c] \in stale[t] => completed[t] < gen[c][t]
      BY <1>0, <2>1, Zenon DEF Owed
    <3> QED
      BY <2>1, <3>1, <3>2, GenerationOrder, Zenon
  <2>5. Reached(c)'
    BY <1>0, <2>1, <2>2, <2>4, Zenon DEF Reached
  <2>6. \A d \in pending'[c] : d \in Cpus /\ d # t /\ d \in pending[c]
    BY <1>0, <2>1, Zenon DEF TaskType
  <2>7. Owed(c)'
    BY <1>0, <2>1, <2>2, <2>3, <2>6, Zenon DEF Owed
  <2>8. pc'[c] # "Mask"
    BY <2>1, Zenon
  <2> QED
    BY <1>0, <1>1, <2>1, <2>5, <2>7, <2>8, SenderFrame, Zenon
<1>3. CASE Return(c)
  <2>1. /\ UNCHANGED <<todo, pending, gen, pte, online, completed, seen, svc, stale, requested>>
        /\ freed' = freed \cup {page[c]} /\ pc[c] = "Wait" /\ pending[c] = {} /\ pc'[c] = "Run"
    BY <1>1, <1>3, Zenon DEF Return, At, Goto, cpuset, mailbox
  <2>2. todo[c] = {}
    BY <1>0, <2>1, Zenon DEF Targets
  <2>3. \A d \in Cpus : d # c => pc'[d] = pc[d] /\ page'[d] = page[d]
    BY <1>0, Zenon DEF Elsewhere
  <2>4. \A d \in Cpus : page[c] \in stale[d] => page[c] \in KernelPages /\ d \notin online
    BY <1>0, <2>1, <2>2, Zenon DEF Reached, Sending
  <2>5. \A d \in Cpus : Bounded(d)'
    BY <1>0, <2>1, Zenon DEF Bounded
  <2>6. \A d \in Cpus : Cleared(d)'
    BY <1>0, <2>1, <2>3, Zenon DEF Cleared
  <2>7. \A d \in Cpus : Reached(d)'
    BY <1>0, <2>1, <2>3, Zenon DEF Reached, Sending
  <2>8. \A d \in Cpus : Owed(d)'
    <3>1. Owed(c)'
      BY <2>1, Zenon DEF Owed
    <3>2. \A d \in Cpus : d # c => Owed(d)'
      BY <1>0, <2>1, <2>3, Zenon DEF Owed
    <3> QED
      BY <3>1, <3>2, Zenon
  <2>9. NoStaleTranslation'
    BY <2>1, <2>4, Zenon DEF Fresh, NoStaleTranslation
  <2> QED
    BY <2>5, <2>6, <2>7, <2>8, <2>9, Zenon DEF Fresh
<1> QED
  BY <1>2, <1>3, Zenon

\* The steps of the address spaces and of a shutdown keep Fresh.
LEMMA OthersKeepFresh ==
    ASSUME Control, Fresh,
           \/ StartStop \/ AllStopped
           \/ \E c \in Cpus : LoopTop(c) \/ Idle(c) \/ OfflineStep(c)
           \/ \E c \in Cpus : EnterUser(c) \/ SwitchStep(c)
    PROVE  Fresh'
<1> USE DEF Busy, Steps, Locking, Sending, GoneOffline, UserRoots, At, cpuset
<1>0. \A c, d \in Cpus : [stale EXCEPT ![c] = {}][d] \subseteq stale[d]
  BY Zenon DEF Control, MailType
<1>1. CASE StartStop
  BY <1>1, ElsewhereKeepsFresh, ConstantsAssumption, Zenon DEF StartStop
<1>2. CASE AllStopped
  BY <1>2, ElsewhereKeepsFresh, ConstantsAssumption, Zenon DEF AllStopped
<1>3. ASSUME NEW c \in Cpus, LoopTop(c) PROVE Fresh'
  BY <1>3, ElsewhereKeepsFresh, Zenon DEF LoopTop
<1>4. ASSUME NEW c \in Cpus, Idle(c) \/ StopAccepting(c) PROVE Fresh'
  BY <1>4, ElsewhereKeepsFresh, Zenon DEF Idle, StopAccepting
<1>5. ASSUME NEW c \in Cpus, DrainedSenders(c) PROVE Fresh'
  BY <1>5, ElsewhereKeepsFresh, Zenon DEF DrainedSenders
<1>6. ASSUME NEW c \in Cpus, PublishStopped(c) \/ Park(c) PROVE Fresh'
  BY <1>6, ElsewhereKeepsFresh, Zenon DEF PublishStopped, Park
<1>7. ASSUME NEW c \in Cpus, EnterUser(c) \/ InstallRoot(c) PROVE Fresh'
  BY <1>7, ElsewhereKeepsFresh, Zenon DEF EnterUser, InstallRoot
<1>8. ASSUME NEW c \in Cpus, FinishSwitch(c) \/ LeaveUser(c) PROVE Fresh'
  BY <1>0, <1>8, ElsewhereKeepsFresh, Zenon DEF FinishSwitch, LeaveUser
<1>9. ASSUME NEW c \in Cpus, FinishLeave(c) PROVE Fresh'
  BY <1>0, <1>9, ElsewhereKeepsFresh, Zenon DEF FinishLeave
<1> QED
  BY <1>1, <1>2, <1>3, <1>4, <1>5, <1>6, <1>7, <1>8, <1>9, Zenon DEF OfflineStep, SwitchStep

\* Every step keeps Fresh.
LEMMA NextFresh == Control /\ Fresh /\ [Next]_vars => Fresh'
<1> SUFFICES ASSUME Control, Fresh, [Next]_vars PROVE Fresh'
  OBVIOUS
<1>1. CASE Next
  <2>1. ASSUME NEW c \in Cpus, SenderStep(c) \/ \E p \in Pages : StartUnmap(c, p) PROVE Fresh'
    BY <2>1, UnmapKeepsFresh, PinKeepsFresh, WaitKeepsFresh, Zenon DEF SenderStep
  <2>2. ASSUME NEW c \in Cpus, NEW x \in Contexts, Poll(c) \/ Interrupt(c) \/ Service(c, x) PROVE Fresh'
    BY <2>2, ServiceKeepsFresh, Zenon
  <2> QED
    BY <1>1, <2>1, <2>2, StepKinds, OthersKeepFresh, Zenon
<1>2. CASE UNCHANGED vars
  <2>1. \A d \in Cpus : Bounded(d)' /\ Cleared(d)' /\ Reached(d)' /\ Owed(d)'
    BY <1>2, ZenonT(30) DEF Fresh, Bounded, Cleared, Reached, Owed, vars, sender, cpuset, mailbox
  <2> QED
    BY <1>2, <2>1, Zenon DEF Fresh, NoStaleTranslation, vars, sender, cpuset
<1> QED
  BY <1>1, <1>2

\* A freed frame is reachable through no TLB of an online CPU, whatever the CPUs,
\* the pages and the order in which interrupts, polls, address space switches and
\* the way offline interleave with the shootdown (la64_remote_tlb_shootdown).
THEOREM FreedIsFlushed == Spec => []NoStaleTranslation
<1>1. Init => Fresh
  BY InitFresh
<1>2. Control /\ Fresh /\ [Next]_vars => Fresh'
  BY NextFresh
<1>3. Fresh => NoStaleTranslation
  BY DEF Fresh
<1> QED
  BY <1>1, <1>2, <1>3, ControlHolds, PTL DEF Spec
-----------------------------------------------------------------------------
(* Heard.                                                                  *)

\* A mailbox in service has an owner that has yet to release it.
Owned(t) == t \in servicing => \E x \in Contexts : svc[t][x] \in {"Loop", "Flushed", "Release"}

Called(t) == \E x \in Contexts : svc[t][x] # "None"
Announced(t) == \E c \in Cpus : pc[c] = "SendIpi" /\ Candidate(c) = t
HeardBy(t) == requested[t] # completed[t] => t \in ipi \/ Called(t) \/ Announced(t)

Heard == \A t \in Cpus : Owned(t) /\ HeardBy(t)

\* A step that touches no mailbox keeps Heard when no announced request is dropped.
LEMMA QuietKeepsHeard ==
    ASSUME Heard, UNCHANGED <<mailbox, requested, ipi>>,
           \A d \in Cpus : pc[d] = "SendIpi" => pc'[d] = "SendIpi" /\ todo'[d] = todo[d]
    PROVE  Heard'
<1>1. \A t \in Cpus : Announced(t) => Announced(t)'
  BY Zenon DEF Announced, Candidate
<1> QED
  BY <1>1, Zenon DEF Heard, Owned, Called, HeardBy, mailbox

\* A service of the mailbox of c keeps Heard when it leaves c heard.
LEMMA MailboxOf ==
    ASSUME Heard, NEW c \in Cpus, UNCHANGED <<pc, sender, requested>>,
           \A t \in Cpus \ {c} : /\ completed'[t] = completed[t] /\ svc'[t] = svc[t]
                                 /\ t \in servicing' <=> t \in servicing
                                 /\ t \in ipi' <=> t \in ipi,
           Owned(c)', HeardBy(c)'
    PROVE  Heard'
<1>1. \A t \in Cpus : Announced(t) => Announced(t)'
  BY Zenon DEF Announced, Candidate, sender
<1>2. ASSUME NEW t \in Cpus, t # c PROVE Owned(t)' /\ HeardBy(t)'
  <2>1. /\ completed'[t] = completed[t] /\ svc'[t] = svc[t] /\ requested'[t] = requested[t]
        /\ t \in servicing' <=> t \in servicing
        /\ t \in ipi' <=> t \in ipi
        /\ Owned(t) /\ HeardBy(t) /\ (Announced(t) => Announced(t)')
    BY <1>1, <1>2, Zenon DEF Heard
  <2>2. Called(t)' <=> Called(t)
    BY <2>1, Zenon DEF Called
  <2> QED
    BY <2>1, <2>2, Zenon DEF Owned, HeardBy
<1> QED
  BY <1>2, Zenon DEF Heard

\* The polls, the interrupts and the services keep Heard: a context that leaves
\* the mailbox to its owner knows the owner to be the other context, and the
\* owner looks once more after it has released the mailbox.
LEMMA ServiceKeepsHeard ==
    ASSUME Control, Heard, NEW c \in Cpus, NEW x \in Contexts,
           Poll(c) \/ Interrupt(c) \/ Service(c, x)
    PROVE  Heard'
<1>0. /\ UNCHANGED <<pc, sender, requested>>
      /\ Owned(c) /\ HeardBy(c)
      /\ svc \in [Cpus -> [Contexts -> {"None", "Claim", "Loop", "Flushed", "Release", "Recheck"}]]
      /\ completed \in [Cpus -> Nat] /\ servicing \in SUBSET Cpus /\ ipi \in SUBSET Cpus
  BY ServiceFrame, Zenon DEF Control, MailType, Heard
<1>1. \A y \in Contexts : \A at : Step(c, y, at) =>
          /\ \A t \in Cpus \ {c} : svc'[t] = svc[t]
          /\ svc'[c][y] = at /\ \A z \in Contexts \ {y} : svc'[c][z] = svc[c][z]
  BY <1>0 DEF Step
<1>2. CASE Poll(c) \/ Interrupt(c)
  <2>1. PICK y \in Contexts : svc[c][y] = "None" /\ Step(c, y, "Claim")
    BY <1>2, Zenon DEF Poll, Interrupt, Contexts
  <2>2. /\ \A t \in Cpus \ {c} : svc'[t] = svc[t]
        /\ svc'[c][y] = "Claim" /\ \A z \in Contexts \ {y} : svc'[c][z] = svc[c][z]
    BY <1>1, <2>1, Zenon
  <2>3. UNCHANGED <<completed, servicing>> /\ \A t \in Cpus \ {c} : t \in ipi' <=> t \in ipi
    BY <1>2, Zenon DEF Poll, Interrupt
  <2>4. Owned(c)' /\ HeardBy(c)'
    BY <1>0, <2>1, <2>2, <2>3, ZenonT(30) DEF Owned, HeardBy, Called
  <2> QED
    BY <1>0, <2>2, <2>3, <2>4, MailboxOf, Zenon
<1>3. CASE NothingPending(c, x)
  <2>1. /\ requested[c] = completed[c] /\ svc[c][x] = "Claim"
        /\ UNCHANGED <<completed, servicing, ipi>> /\ Step(c, x, "None")
    BY <1>3, Zenon DEF NothingPending
  <2>2. Owned(c)' /\ HeardBy(c)'
    BY <1>0, <1>1, <2>1, ZenonT(30) DEF Owned, HeardBy
  <2> QED
    BY <1>0, <1>1, <2>1, <2>2, MailboxOf, Zenon
<1>4. CASE Claim(c, x)
  <2>1. /\ svc[c][x] = "Claim" /\ servicing' = servicing \cup {c}
        /\ UNCHANGED <<completed, ipi>>
    BY <1>4, Zenon DEF Claim
  <2>2. CASE c \in servicing
    <3>1. Step(c, x, "None")
      BY <1>4, <2>2, Zenon DEF Claim
    <3>2. \E z \in Contexts \ {x} : svc[c][z] \in {"Loop", "Flushed", "Release"}
      BY <1>0, <2>1, <2>2, Zenon DEF Owned
    <3>3. Owned(c)' /\ HeardBy(c)'
      BY <1>1, <3>1, <3>2, ZenonT(30) DEF Owned, HeardBy, Called
    <3> QED
      BY <1>0, <1>1, <2>1, <3>1, <3>3, MailboxOf, Zenon
  <2>3. CASE c \notin servicing
    <3>1. Step(c, x, "Loop")
      BY <1>4, <2>3, Zenon DEF Claim
    <3>2. Owned(c)' /\ HeardBy(c)'
      BY <1>1, <3>1, ZenonT(30) DEF Owned, HeardBy, Called
    <3> QED
      BY <1>0, <1>1, <2>1, <3>1, <3>2, MailboxOf, Zenon
  <2> QED
    BY <2>2, <2>3
<1>5. CASE Flush(c, x) \/ Complete(c, x) \/ Drained(c, x)
  <2>1. /\ UNCHANGED <<servicing, ipi>> /\ \A t \in Cpus \ {c} : completed'[t] = completed[t]
        /\ Step(c, x, "Flushed") \/ Step(c, x, "Loop") \/ Step(c, x, "Release")
    BY <1>0, <1>5, Zenon DEF Flush, Complete, Drained
  <2>2. /\ \A t \in Cpus \ {c} : svc'[t] = svc[t]
        /\ svc'[c][x] \in {"Loop", "Flushed", "Release"}
    BY <1>1, <2>1, Zenon
  <2>3. Owned(c)' /\ HeardBy(c)'
    BY <2>2, ZenonT(30) DEF Owned, HeardBy, Called
  <2> QED
    BY <1>0, <2>1, <2>2, <2>3, MailboxOf, Zenon
<1>6. CASE Release(c, x)
  <2>1. UNCHANGED <<completed, ipi>> /\ servicing' = servicing \ {c} /\ Step(c, x, "Recheck")
    BY <1>6, Zenon DEF Release
  <2>2. c \notin servicing' /\ svc'[c][x] = "Recheck"
    BY <1>1, <2>1, Zenon
  <2>3. Owned(c)' /\ HeardBy(c)'
    BY <2>2, Zenon DEF Owned, HeardBy, Called
  <2> QED
    BY <1>0, <1>1, <2>1, <2>3, MailboxOf, Zenon
<1>7. CASE Recheck(c, x)
  <2>1. svc[c][x] = "Recheck" /\ UNCHANGED <<completed, ipi>>
    BY <1>7, Zenon DEF Recheck
  <2>2. CASE requested[c] # completed[c] /\ c \notin servicing
    <3>1. Step(c, x, "Loop") /\ servicing' = servicing \cup {c}
      BY <1>7, <2>2, Zenon DEF Recheck
    <3>2. Owned(c)' /\ HeardBy(c)'
      BY <1>1, <3>1, ZenonT(30) DEF Owned, HeardBy, Called
    <3> QED
      BY <1>0, <1>1, <2>1, <3>1, <3>2, MailboxOf, Zenon
  <2>3. CASE ~(requested[c] # completed[c] /\ c \notin servicing)
    <3>1. Step(c, x, "None") /\ servicing' = servicing
      BY <1>7, <2>3, Zenon DEF Recheck
    <3>2. c \in servicing => \E z \in Contexts \ {x} : svc[c][z] \in {"Loop", "Flushed", "Release"}
      BY <1>0, <2>1, Zenon DEF Owned
    <3>3. Owned(c)' /\ HeardBy(c)'
      BY <1>0, <1>1, <2>1, <2>3, <3>1, <3>2, ZenonT(30) DEF Owned, HeardBy, Called
    <3> QED
      BY <1>0, <1>1, <2>1, <3>1, <3>3, MailboxOf, Zenon
  <2> QED
    BY <2>2, <2>3
<1> QED
  BY <1>2, <1>3, <1>4, <1>5, <1>6, <1>7, Zenon DEF Service

\* The steps of a sender keep Heard: a request is announced until its interrupt
\* is sent.
LEMMA SenderKeepsHeard ==
    ASSUME Control, Heard, NEW c \in Cpus, SenderStep(c) \/ \E p \in Pages : StartUnmap(c, p)
    PROVE  Heard'
<1>0. Elsewhere(c) /\ TaskType
  BY SenderElsewhere, Zenon DEF Control
<1>1. \A d \in Cpus \ {c} : pc'[d] = pc[d] /\ todo'[d] = todo[d]
  BY <1>0, Zenon DEF Elsewhere
<1>2. CASE Request(c)
  <2>1. /\ pc[c] = "Request" /\ pc'[c] = "SendIpi" /\ todo' = todo /\ UNCHANGED <<mailbox, ipi>>
        /\ requested' = [requested EXCEPT ![Candidate(c)] = @ + 1]
    BY <1>0, <1>2, Zenon DEF Request, Goto, TaskType
  <2>2. \A t \in Cpus : Announced(t) => Announced(t)'
    BY <1>1, <2>1, Zenon DEF Announced, Candidate
  <2>3. \A t \in Cpus : t = Candidate(c) => Announced(t)'
    BY <2>1, Zenon DEF Announced, Candidate
  <2>4. \A t \in Cpus : t # Candidate(c) => requested'[t] = requested[t]
    BY <2>1, Zenon DEF Control, MailType
  <2>5. \A t \in Cpus : Owned(t)' /\ (Called(t)' <=> Called(t))
    BY <2>1, Zenon DEF Heard, Owned, Called, mailbox
  <2>6. \A t \in Cpus : HeardBy(t)'
    BY <2>1, <2>2, <2>3, <2>4, <2>5, Zenon DEF Heard, HeardBy, mailbox
  <2> QED
    BY <2>5, <2>6, Zenon DEF Heard
<1>3. CASE SendIpi(c)
  <2>1. UNCHANGED <<mailbox, requested>> /\ ipi' = ipi \cup {Candidate(c)}
    BY <1>3, Zenon DEF SendIpi
  <2>2. \A t \in Cpus : Announced(t) => Announced(t)' \/ t \in ipi'
    BY <1>1, <2>1, Zenon DEF Announced, Candidate
  <2> QED
    BY <2>1, <2>2, ZenonT(30) DEF Heard, Owned, Called, HeardBy, mailbox
<1>4. CASE \/ \E p \in Pages : StartUnmap(c, p)
           \/ Acquire(c) \/ ClearPte(c) \/ ReadMask(c) \/ Pin(c) \/ PinUsers(c) \/ PinCheck(c)
           \/ PinDone(c) \/ Return(c) \/ \E t \in Cpus : TargetDone(c, t)
  <2>1. pc[c] # "SendIpi" /\ UNCHANGED <<mailbox, requested, ipi>>
    BY <1>4, ZenonT(30) DEF StartUnmap, Acquire, ClearPte, ReadMask, Pin, PinUsers, PinCheck,
       PinDone, Return, TargetDone, At
  <2> QED
    BY <1>1, <2>1, QuietKeepsHeard, Zenon
<1> QED
  BY <1>2, <1>3, <1>4, Zenon DEF SenderStep

\* The steps of the address spaces and of a shutdown keep Heard.
LEMMA OthersKeepHeard ==
    ASSUME Control, Heard,
           \/ StartStop \/ AllStopped
           \/ \E c \in Cpus : LoopTop(c) \/ Idle(c) \/ OfflineStep(c)
           \/ \E c \in Cpus : EnterUser(c) \/ SwitchStep(c)
    PROVE  Heard'
<1>0. DOMAIN pc = Cpus
  BY Domains, Zenon DEF Control
<1>1. UNCHANGED <<mailbox, requested, ipi, sender>>
  BY ZenonT(30) DEF StartStop, AllStopped, LoopTop, Idle, OfflineStep, StopAccepting, DrainedSenders,
     PublishStopped, Park, EnterUser, SwitchStep, InstallRoot, FinishSwitch, LeaveUser, FinishLeave
<1>2. \E c \in Cpus : \E at : pc[c] # "SendIpi" /\ Goto(c, at)
  <2>1. CASE StartStop \/ AllStopped
    BY <2>1, ConstantsAssumption, ZenonT(30) DEF StartStop, AllStopped, At
  <2>2. ASSUME NEW c \in Cpus, LoopTop(c) \/ Idle(c) \/ OfflineStep(c)
        PROVE  \E at : pc[c] # "SendIpi" /\ Goto(c, at)
    BY <2>2, ZenonT(30) DEF LoopTop, Idle, OfflineStep, StopAccepting, DrainedSenders, PublishStopped, Park, At
  <2>3. ASSUME NEW c \in Cpus, EnterUser(c) \/ SwitchStep(c)
        PROVE  \E at : pc[c] # "SendIpi" /\ Goto(c, at)
    BY <2>3, ZenonT(30) DEF EnterUser, SwitchStep, InstallRoot, FinishSwitch, LeaveUser, FinishLeave, At
  <2> QED
    BY <2>1, <2>2, <2>3, Zenon
<1>3. \A d \in Cpus : pc[d] = "SendIpi" => pc'[d] = "SendIpi" /\ todo'[d] = todo[d]
  BY <1>0, <1>1, <1>2, Zenon DEF Goto, sender
<1> QED
  BY <1>1, <1>3, QuietKeepsHeard, Zenon

\* Every step keeps Heard.
LEMMA NextHeard == Control /\ Heard /\ [Next]_vars => Heard'
<1> SUFFICES ASSUME Control, Heard, [Next]_vars PROVE Heard'
  OBVIOUS
<1>1. CASE Next
  BY <1>1, StepKinds, ServiceKeepsHeard, SenderKeepsHeard, OthersKeepHeard, Zenon
<1>2. CASE UNCHANGED vars
  BY <1>2, QuietKeepsHeard, Zenon DEF vars, sender
<1> QED
  BY <1>1, <1>2

\* A request is being served, or its interrupt is pending or about to be sent,
\* whatever the CPUs: an interrupt that nests into a service and leaves the
\* request to it loses nothing (service_la64_pending_tlb_shootdown).
THEOREM RequestsAreHeard == Spec => []RequestIsHeard
<1>1. Init => Heard
  BY Zenon DEF Init, Heard, Owned, HeardBy
<1>2. Control /\ Heard /\ [Next]_vars => Heard'
  BY NextHeard
<1>3. Heard => RequestIsHeard
  BY Zenon DEF Heard, HeardBy, Called, Announced, RequestIsHeard
<1> QED
  BY <1>1, <1>2, <1>3, ControlHolds, PTL DEF Spec
=============================================================================
