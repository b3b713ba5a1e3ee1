------------------------------ MODULE Delegate ------------------------------
(***************************************************************************)
(* Delegation to a userspace agent: the DelegateRegistry of tx-substrate   *)
(* (step/agent.rs) and the wait for the reply (resolve_on_agent in         *)
(* tx-scripts drive.rs), with the deadline that may time the token out.    *)
(*                                                                         *)
(* Every transition of a token is one critical section of the slots lock;  *)
(* the event for the waiter is posted after it.  ReplyInstalling is set    *)
(* and left inside that section, so nobody else sees it.                   *)
(***************************************************************************)
EXTENDS Integers, Sequences, FiniteSets

CONSTANTS
    Tasks,
    Endpoints,    \* endpoint markers
    MaxTokens,    \* bound: requests installed
    Bound,        \* MAILBOX_QUEUE_BOUND
    Signals,      \* what classify_signal_wake may say: "Interrupt" (or Kill), "Retry"
    MaxSignals    \* bound: signal hints posted

ASSUME DelegateAssumption ==
    /\ MaxTokens \in Nat /\ MaxSignals \in Nat /\ Bound \in Nat \ {0}
    /\ Signals \subseteq {"Interrupt", "Retry"}

VARIABLES
    token,     \* the slots: state, reply, endpoint marker and bound task
    posts,     \* applied transitions whose event is not posted yet
    dying,     \* ids mark_endpoint_died still has to visit, by marker
    timers,    \* tokens with a DelegateTimeout registered
    mail,      \* the mailbox queue of each task
    overflow,  \* its overflow flag
    woken,     \* its waker fired since the last poll
    pc,        \* where each task is in resolve_on_agent
    mine,      \* the token each task waits for
    result,    \* the ResumeOutcome of each token
    signals,   \* history: signal hints posted
    hurried    \* history: tokens whose wait an overflow or a masked hint ended

registryVars == <<token, posts, dying>>
mailVars == <<mail, overflow, woken>>
history == <<signals, hurried>>
vars == <<registryVars, timers, mailVars, pc, mine, result, history>>

Ids == 1..MaxTokens
Installed == 1..Len(token)
SignalDelivered == 0    \* the events of tokens are their ids
Terminal == {"Replied", "Canceled", "AgentDied", "TimedOut"}

Init ==
    /\ token = <<>>
    /\ posts = {}
    /\ dying = [e \in Endpoints |-> {}]
    /\ timers = {}
    /\ mail = [t \in Tasks |-> <<>>]
    /\ overflow = [t \in Tasks |-> FALSE]
    /\ woken = [t \in Tasks |-> FALSE]
    /\ pc = [t \in Tasks |-> "Call"]
    /\ mine = [t \in Tasks |-> 0]
    /\ result = [i \in Ids |-> "None"]
    /\ signals = 0
    /\ hurried = {}

Go(t, location) == pc' = [pc EXCEPT ![t] = location]

\* Mutant: an event that finds the queue full wakes nobody.
PostQuietly(t, ev) ==
    /\ mail' = [mail EXCEPT ![t] = IF Len(@) < Bound THEN Append(@, ev) ELSE @]
    /\ overflow' = [overflow EXCEPT ![t] = @ \/ Len(mail[t]) >= Bound]
    /\ woken' = [woken EXCEPT ![t] = @ \/ Len(mail[t]) < Bound]

\* TaskMailbox::post for events that do not coalesce (WaitSource has the rest):
\* append or latch the overflow flag, and wake the owner either way.
Post(t, ev) ==
    /\ mail' = [mail EXCEPT ![t] = IF Len(@) < Bound THEN Append(@, ev) ELSE @]
    /\ overflow' = [overflow EXCEPT ![t] = @ \/ Len(mail[t]) >= Bound]
    /\ woken' = [woken EXCEPT ![t] = TRUE]

-----------------------------------------------------------------------------
(* The registry.                                                           *)

\* Mutant: the last writer wins.
ApplyLast(i, target) ==
    /\ token' = [token EXCEPT ![i].state = target, ![i].reply = (target = "Replied")]
    /\ posts' = posts \cup {i}

\* mark_replied_with_post and cas_terminal_with_post on a pending token; a
\* late writer changes nothing.
Apply(i, target) ==
    /\ token[i].state = "Pending"
    /\ token' = [token EXCEPT ![i].state = target, ![i].reply = (target = "Replied")]
    /\ posts' = posts \cup {i}

\* Mutant: the post waits for room in the mailbox.
PostEventWaits(i) ==
    /\ i \in posts /\ token[i].state # "Canceled" /\ Len(mail[token[i].task]) < Bound
    /\ posts' = posts \ {i}
    /\ Post(token[i].task, i)
    /\ UNCHANGED <<token, dying, timers, pc, mine, result, history>>

\* The post of the winner, after the lock is released.
PostEvent(i) ==
    /\ i \in posts /\ token[i].state # "Canceled"
    /\ posts' = posts \ {i}
    /\ Post(token[i].task, i)
    /\ UNCHANGED <<token, dying, timers, pc, mine, result, history>>

MarkReplied(i) ==
    /\ Apply(i, "Replied")
    /\ UNCHANGED <<dying, timers, mailVars, pc, mine, result, history>>

\* route_expired_timer: the deadline leaves the registry and fires.
MarkTimedOut(i) ==
    /\ i \in timers
    /\ timers' = timers \ {i}
    /\ IF token[i].state = "Pending" THEN Apply(i, "TimedOut") ELSE UNCHANGED <<token, posts>>
    /\ UNCHANGED <<dying, mailVars, pc, mine, result, history>>

\* mark_endpoint_died: the ids are collected under the lock ...
EndpointDies(e) ==
    /\ dying[e] = {}
    /\ dying' = [dying EXCEPT ![e] = {i \in Installed : token[i].marker = e}]
    /\ UNCHANGED <<token, posts, timers, mailVars, pc, mine, result, history>>

\* ... and each is marked under the lock again.
MarkAgentDied(e) ==
    /\ \E i \in dying[e] :
          /\ IF token[i].state = "Pending" THEN Apply(i, "AgentDied") ELSE UNCHANGED <<token, posts>>
          /\ dying' = [dying EXCEPT ![e] = @ \ {i}]
    /\ UNCHANGED <<timers, mailVars, pc, mine, result, history>>

-----------------------------------------------------------------------------
(* The waiting task.                                                       *)

\* install_request
InstallRequest(t) ==
    /\ pc[t] = "Call" /\ Len(token) < MaxTokens
    /\ \E e \in Endpoints :
          token' = Append(token, [state |-> "Pending", reply |-> FALSE, marker |-> e, task |-> t])
    /\ mine' = [mine EXCEPT ![t] = Len(token) + 1]
    /\ Go(t, "Deadline")
    /\ UNCHANGED <<posts, dying, timers, mailVars, result, history>>

\* A request may have no deadline; one the registrar refuses ends the wait.
RegisterDeadline(t) ==
    /\ pc[t] = "Deadline"
    /\ \/ timers' \in {timers, timers \cup {mine[t]}} /\ Go(t, "Poll") /\ UNCHANGED result
       \/ Go(t, "Drop") /\ result' = [result EXCEPT ![mine[t]] = "TimedOut"] /\ UNCHANGED timers
    /\ UNCHANGED <<registryVars, mailVars, mine, history>>

\* Mutant: the event of any token matches.
EndsAny(t, ev) == TRUE

\* agent_event_matches, or a signal hint.
Ends(t, ev) == ev \in {mine[t], SignalDelivered}
Hits(t) == {n \in 1..Len(mail[t]) : Ends(t, mail[t][n])}

\* q.remove(index): the other events keep their order.
Remove(q, index) == SubSeq(q, 1, index - 1) \o SubSeq(q, index + 1, Len(q))

\* A poll that takes an event; others stay in the queue.  A signal hint is
\* classified when it is taken.
PollEvent(t) ==
    /\ pc[t] = "Poll"
    /\ \E first \in Hits(t) :
          /\ \A n \in Hits(t) : first <= n
          /\ mail' = [mail EXCEPT ![t] = Remove(@, first)]
          /\ \/ /\ mail[t][first] = SignalDelivered /\ "Interrupt" \in Signals
                /\ Go(t, "Drop")
                /\ result' = [result EXCEPT ![mine[t]] = "Interrupted"]
                /\ UNCHANGED hurried
             \/ /\ mail[t][first] = SignalDelivered /\ "Retry" \in Signals
                /\ Go(t, "TakeReply")
                /\ hurried' = hurried \cup {mine[t]}
                /\ UNCHANGED result
             \/ /\ mail[t][first] # SignalDelivered
                /\ Go(t, "TakeReply")
                /\ UNCHANGED <<result, hurried>>
    /\ UNCHANGED <<registryVars, timers, overflow, woken, mine, signals>>

\* A latched overflow resolves the wait like a matching event.
PollOverflow(t) ==
    /\ pc[t] = "Poll" /\ Hits(t) = {} /\ overflow[t]
    /\ overflow' = [overflow EXCEPT ![t] = FALSE]
    /\ hurried' = hurried \cup {mine[t]}
    /\ Go(t, "TakeReply")
    /\ UNCHANGED <<registryVars, timers, mail, woken, mine, result, signals>>

PollPending(t) ==
    /\ pc[t] = "Poll" /\ Hits(t) = {} /\ ~overflow[t]
    /\ Go(t, "Parked")
    /\ UNCHANGED <<registryVars, timers, mailVars, mine, result, history>>

Repoll(t) ==
    /\ pc[t] = "Parked" /\ woken[t]
    /\ woken' = [woken EXCEPT ![t] = FALSE]
    /\ Go(t, "Poll")
    /\ UNCHANGED <<registryVars, timers, mail, overflow, mine, result, history>>

\* Mutant: the outcome is that of the state seen before the wait.
TakeReplyStale(t) ==
    /\ pc[t] = "TakeReply"
    /\ result' = [result EXCEPT ![mine[t]] = "Canceled"]
    /\ Go(t, "Drop")
    /\ UNCHANGED <<registryVars, timers, mailVars, mine, history>>

\* take_reply: without a reply the outcome is Aborted(Canceled).
TakeReply(t) ==
    LET i == mine[t] IN
    /\ pc[t] = "TakeReply"
    /\ result' = [result EXCEPT ![i] = IF token[i].reply THEN "Reply" ELSE "Canceled"]
    /\ token' = [token EXCEPT ![i].reply = FALSE]
    /\ Go(t, "Drop")
    /\ UNCHANGED <<posts, dying, timers, mailVars, mine, history>>

\* The deadline guard is dropped first, then the token guard (CancelOnDrop),
\* whose event goes to the task's own mailbox.  A Canceled
\* token was always cancelled here: no other code cancels one.
DropDeadline(t) ==
    /\ pc[t] = "Drop"
    /\ timers' = timers \ {mine[t]}
    /\ Go(t, "DropToken")
    /\ UNCHANGED <<registryVars, mailVars, mine, result, history>>

DropToken(t) ==
    LET i == mine[t] IN
    /\ pc[t] = "DropToken"
    /\ IF token[i].state = "Pending"
       THEN Apply(i, "Canceled") /\ Go(t, "PostCancel")
       ELSE Go(t, "Call") /\ UNCHANGED <<token, posts>>
    /\ UNCHANGED <<dying, timers, mailVars, mine, result, history>>

PostCancel(t) ==
    /\ pc[t] = "PostCancel"
    /\ posts' = posts \ {mine[t]}
    /\ Post(t, mine[t])
    /\ Go(t, "Call")
    /\ UNCHANGED <<token, dying, timers, mine, result, history>>

\* A signal hint for the thread.
Signal(t) ==
    /\ signals < MaxSignals
    /\ Post(t, SignalDelivered)
    /\ signals' = signals + 1
    /\ UNCHANGED <<registryVars, timers, pc, mine, result, hurried>>

-----------------------------------------------------------------------------
TaskStep(t) ==
    \/ InstallRequest(t) \/ RegisterDeadline(t)
    \/ PollEvent(t) \/ PollOverflow(t) \/ PollPending(t) \/ Repoll(t)
    \/ TakeReply(t) \/ DropDeadline(t) \/ DropToken(t) \/ PostCancel(t)

Next ==
    \/ \E t \in Tasks : TaskStep(t) \/ Signal(t)
    \/ \E i \in Installed : PostEvent(i) \/ MarkReplied(i) \/ MarkTimedOut(i)
    \/ \E e \in Endpoints : EndpointDies(e) \/ MarkAgentDied(e)

Spec == Init /\ [][Next]_vars

\* Tasks run when woken, a transition that was applied posts its event.
FairSpec ==
    /\ Spec
    /\ \A t \in Tasks : WF_vars(TaskStep(t))
    /\ \A i \in Ids : WF_vars(i \in Installed /\ PostEvent(i))

-----------------------------------------------------------------------------
(* Properties.                                                             *)

\* DTOK-1, first writer wins: reply, timeout, cancellation and endpoint death
\* race for the token, and the one that comes first is never overridden.
FirstWriterWins ==
    [][\A i \in Installed : token[i].state \in Terminal => token'[i].state = token[i].state]_vars

\* DTOK-2: the task that sleeps on a token that became terminal has been
\* woken, or the winner's event is still to be posted.
WinnerWakes ==
    \A t \in Tasks :
        pc[t] = "Parked" /\ token[mine[t]].state \in Terminal => woken[t] \/ mine[t] \in posts

\* A reply that was applied reaches the task: it is taken by the wait, unless
\* a signal interrupted the wait, an overflow or a masked hint hurried it, or
\* the deadline was refused first.
AppliedReplyIsTaken ==
    \A i \in Installed \ hurried :
        token[i].state = "Replied" /\ result[i] # "None" => result[i] \in {"Reply", "Interrupted", "TimedOut"}

GivenUp(t) == pc[t] \in {"Drop", "DropToken"} /\ result[mine[t]] = "Canceled"

\* A wait whose matching event was taken is given up only when the token is
\* terminal: the leftover event of an earlier token never ends it.
AbortIsTerminal ==
    \A t \in Tasks : GivenUp(t) /\ mine[t] \notin hurried => token[mine[t]].state # "Pending"

\* The task whose token became terminal resumes.
TerminalResumes ==
    \A t \in Tasks :
        (pc[t] = "Parked" /\ token[mine[t]].state \in Terminal) ~> (pc[t] # "Parked")
=============================================================================
