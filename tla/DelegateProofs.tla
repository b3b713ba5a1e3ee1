--------------------------- MODULE DelegateProofs ---------------------------
(***************************************************************************)
(* Proofs about Delegate for any number of tasks, endpoints and tokens,    *)
(* and any mailbox bound.                                                  *)
(*                                                                         *)
(* The inductive invariant Inv follows the event of a token: a token that  *)
(* is terminal is still to be posted, its event is in the mailbox of the   *)
(* task that waits for it, or the mailbox has overflowed (Announced); an   *)
(* event in a mailbox is about a token that is terminal (EventIsTerminal). *)
(* Both need that a token has one waiter (OwnsToken).                      *)
(***************************************************************************)
EXTENDS Delegate, TLAPS

States == {"Pending"} \cup Terminal
Token == [state : States, reply : BOOLEAN, marker : Endpoints, task : Tasks]
Locations == {"Call", "Deadline", "Poll", "Parked", "TakeReply", "Drop", "DropToken", "PostCancel"}
Events == Nat
Results == {"None", "Reply", "Canceled", "Interrupted", "TimedOut"}

TypeOK ==
    /\ token \in Seq(Token) /\ Len(token) <= MaxTokens
    /\ posts \subseteq Installed
    /\ dying \in [Endpoints -> SUBSET Installed]
    /\ timers \subseteq Installed
    /\ mail \in [Tasks -> Seq(Events)]
    /\ overflow \in [Tasks -> BOOLEAN]
    /\ woken \in [Tasks -> BOOLEAN]
    /\ pc \in [Tasks -> Locations]
    /\ mine \in [Tasks -> Nat]
    /\ result \in [Ids -> Results]
    /\ hurried \subseteq Installed

\* A task outside "Call" waits for a token that is installed and bound to it.
OwnsToken ==
    \A t \in Tasks : pc[t] # "Call" => mine[t] \in Installed /\ token[mine[t]].task = t

InMail(t, ev) == \E n \in 1..Len(mail[t]) : mail[t][n] = ev

Waiting(t) == pc[t] \in {"Deadline", "Poll", "Parked"}

\* Only the waiting task cancels its token, when its wait is over.
CanceledByOwner ==
    \A t \in Tasks :
        /\ pc[t] \notin {"Call", "PostCancel"} => token[mine[t]].state # "Canceled"
        /\ pc[t] = "PostCancel" => token[mine[t]].state = "Canceled"

\* The event of a terminal token is on its way to the task that waits for it.
Announced ==
    \A t \in Tasks :
        Waiting(t) /\ token[mine[t]].state # "Pending"
            => mine[t] \in posts \/ InMail(t, mine[t]) \/ overflow[t]

\* A task that has parked over something to take is woken.
ParkedIsWoken ==
    \A t \in Tasks :
        pc[t] = "Parked" => woken[t] \/ (~overflow[t] /\ ~InMail(t, mine[t]))

\* What is posted, and what is to be posted, is about a terminal token.
EventIsTerminal ==
    /\ \A i \in posts : token[i].state # "Pending"
    /\ \A t \in Tasks : \A n \in 1..Len(mail[t]) :
          mail[t][n] # SignalDelivered
              => mail[t][n] \in Installed /\ token[mail[t][n]].state # "Pending"

\* A wait that nothing hurried takes the reply of a token that is terminal.
TakesTerminal ==
    \A t \in Tasks :
        pc[t] = "TakeReply" /\ mine[t] \notin hurried => token[mine[t]].state # "Pending"

\* The result of a wait is open until the wait ends, and so is its reply.
ResultOpen ==
    /\ \A t \in Tasks : Waiting(t) \/ pc[t] = "TakeReply" => result[mine[t]] = "None"
    /\ \A i \in Ids : i > Len(token) => result[i] = "None"
    /\ \A i \in Installed : token[i].state = "Replied" /\ result[i] = "None" => token[i].reply
    /\ \A i \in Installed : token[i].state # "Replied" => ~token[i].reply

\* A wait that nothing hurried is given up for a token that ended without reply.
GivenUpIsTerminal ==
    \A i \in Installed \ hurried :
        result[i] = "Canceled" => token[i].state \in {"Canceled", "AgentDied", "TimedOut"}

Inv == /\ TypeOK /\ OwnsToken /\ CanceledByOwner /\ Announced /\ ParkedIsWoken
       /\ EventIsTerminal /\ TakesTerminal /\ ResultOpen /\ GivenUpIsTerminal
-----------------------------------------------------------------------------
(* The operators of the model.                                             *)

\* Removing an element leaves only elements that were there.
LEMMA RemoveElements ==
  ASSUME NEW s \in Seq(Events), NEW k \in 1..Len(s)
  PROVE  /\ Remove(s, k) \in Seq(Events)
         /\ \A n \in 1..Len(Remove(s, k)) : \E m \in 1..Len(s) : Remove(s, k)[n] = s[m]
<1> DEFINE a == SubSeq(s, 1, k - 1)
           b == SubSeq(s, k + 1, Len(s))
<1>1. a \in Seq(Events) /\ Len(a) = k - 1 /\ \A n \in 1..Len(a) : a[n] = s[n]
  OBVIOUS
<1>2. b \in Seq(Events) /\ Len(b) = Len(s) - k /\ \A n \in 1..Len(b) : b[n] = s[n + k]
  OBVIOUS
<1>3. Remove(s, k) = a \o b
  BY DEF Remove
<1> HIDE DEF a, b
<1>4. ASSUME NEW n \in 1..Len(a \o b) PROVE \E m \in 1..Len(s) : (a \o b)[n] = s[m]
  <2>1. CASE n <= Len(a)
    BY <2>1, <1>1, <1>2
  <2>2. CASE n > Len(a)
    <3>1. (a \o b)[n] = b[n - Len(a)] /\ n - Len(a) \in 1..Len(b)
      BY <2>2, <1>1, <1>2
    <3> QED BY <3>1, <1>1, <1>2
  <2> QED BY <2>1, <2>2, <1>1
<1> QED BY <1>1, <1>2, <1>3, <1>4

\* The record a transition leaves.
LEMMA TokenUpdate ==
  \A r \in Token : \A s \in States : \A b \in BOOLEAN :
      [r EXCEPT !.state = s, !.reply = b] = [state |-> s, reply |-> b, marker |-> r.marker, task |-> r.task]
<1> TAKE r \in Token
<1> TAKE s \in States
<1> TAKE b \in BOOLEAN
<1> DEFINE q == [state |-> s, reply |-> r.reply, marker |-> r.marker, task |-> r.task]
<1>1. [r EXCEPT !.state = s] = q
  BY DEF Token
<1>2. q \in Token
  BY DEF Token
<1>3. \A x \in Token : [x EXCEPT !.reply = b] = [state |-> x.state, reply |-> b, marker |-> x.marker, task |-> x.task]
  BY DEF Token
<1>4. [q EXCEPT !.reply = b] = [state |-> q.state, reply |-> b, marker |-> q.marker, task |-> q.task]
  BY <1>2, <1>3
<1>5. q.state = s /\ q.marker = r.marker /\ q.task = r.task
  OBVIOUS
<1> QED BY <1>1, <1>4, <1>5, Zenon

\* What a transition of token i under the slots lock does: it was pending, and
\* nothing but its state and its reply changes.
LEMMA ApplyEffect ==
  ASSUME TypeOK, NEW i \in Installed, NEW target \in Terminal, Apply(i, target)
  PROVE  /\ token' \in Seq(Token) /\ Len(token') = Len(token)
         /\ token[i].state = "Pending" /\ token'[i].state = target
         /\ token'[i].reply = (target = "Replied") /\ token'[i].task = token[i].task
         /\ \A j \in Installed : j # i => token'[j] = token[j]
         /\ posts' = posts \cup {i}
<1> DEFINE new == [state |-> target, reply |-> (target = "Replied"),
                   marker |-> token[i].marker, task |-> token[i].task]
<1>1. i \in 1..Len(token) /\ token \in Seq(Token) /\ token[i] \in Token
  BY DEF TypeOK, Installed
<1>2. target \in States /\ (target = "Replied") \in BOOLEAN
  BY DEF States
<1>3. [token[i] EXCEPT !.state = target, !.reply = (target = "Replied")] = new
  BY <1>1, <1>2, TokenUpdate, Zenon
<1>4. token' = [token EXCEPT ![i] = [token[i] EXCEPT !.state = target, !.reply = (target = "Replied")]]
  BY Zenon DEF Apply
<1>5. token' = [token EXCEPT ![i] = new]
  BY <1>3, <1>4, Zenon
<1>6. new \in Token
  BY <1>1, <1>2 DEF Token
<1> HIDE DEF new
<1>7. /\ token' \in Seq(Token) /\ Len(token') = Len(token) /\ token'[i] = new
      /\ \A j \in Installed : j # i => token'[j] = token[j]
  BY <1>1, <1>5, <1>6 DEF Installed
<1>8. token[i].state = "Pending" /\ posts' = posts \cup {i}
  BY DEF Apply
<1> QED BY <1>7, <1>8 DEF new

\* What a post does: the event is in the mailbox or the overflow is latched, and
\* the owner is woken.
LEMMA PostEffect ==
  ASSUME TypeOK, NEW t \in Tasks, NEW ev \in Events, Post(t, ev)
  PROVE  /\ mail' \in [Tasks -> Seq(Events)]
         /\ overflow' \in [Tasks -> BOOLEAN] /\ woken' \in [Tasks -> BOOLEAN]
         /\ \A u \in Tasks : u # t => mail'[u] = mail[u] /\ overflow'[u] = overflow[u] /\ woken'[u] = woken[u]
         /\ woken'[t] /\ (overflow[t] => overflow'[t])
         /\ \A n \in 1..Len(mail'[t]) : mail'[t][n] = ev \/ InMail(t, mail'[t][n])
         /\ \A e : InMail(t, e) => InMail(t, e)'
         /\ InMail(t, ev)' \/ overflow'[t]
<1>1. mail[t] \in Seq(Events) /\ Len(mail[t]) \in Nat
  BY DEF TypeOK
<1>2. CASE Len(mail[t]) < Bound
  <2>1. mail' = [mail EXCEPT ![t] = Append(mail[t], ev)] /\ mail'[t] = Append(mail[t], ev)
    BY <1>2 DEF Post, TypeOK
  <2>2. /\ mail'[t] \in Seq(Events) /\ Len(mail'[t]) = Len(mail[t]) + 1
        /\ mail'[t][Len(mail[t]) + 1] = ev
        /\ \A n \in 1..Len(mail[t]) : mail'[t][n] = mail[t][n]
    BY <2>1, <1>1
  <2>3. InMail(t, ev)'
    BY <2>2, <1>1 DEF InMail
  <2>4. overflow' = overflow
    BY <1>1, <1>2, DelegateAssumption DEF Post, TypeOK
  <2> QED BY <2>1, <2>2, <2>3, <2>4, <1>1 DEF Post, TypeOK, InMail
<1>3. CASE ~(Len(mail[t]) < Bound)
  <2>0. Len(mail[t]) >= Bound
    BY <1>1, <1>3, DelegateAssumption
  <2>1. mail' = mail /\ overflow' = [overflow EXCEPT ![t] = TRUE]
    <3>1. mail' = mail
      BY <1>3 DEF Post, TypeOK
    <3>2. (overflow[t] \/ Len(mail[t]) >= Bound) = TRUE
      BY <2>0, Zenon
    <3> QED BY <3>1, <3>2, Zenon DEF Post
  <2>2. overflow' \in [Tasks -> BOOLEAN] /\ overflow'[t] /\ \A u \in Tasks : u # t => overflow'[u] = overflow[u]
    BY <2>1 DEF TypeOK
  <2>3. woken' \in [Tasks -> BOOLEAN] /\ woken'[t] /\ \A u \in Tasks : u # t => woken'[u] = woken[u]
    BY DEF TypeOK, Post
  <2> QED BY <2>1, <2>2, <2>3, <1>1 DEF TypeOK, InMail
<1> QED BY <1>2, <1>3

-----------------------------------------------------------------------------
(* Every step preserves the invariant.                                     *)

\* The location of one task changes.
LEMMA GoEffect ==
  ASSUME TypeOK, NEW t \in Tasks, NEW l \in Locations, Go(t, l)
  PROVE  /\ pc' \in [Tasks -> Locations] /\ pc'[t] = l
         /\ \A u \in Tasks : u # t => pc'[u] = pc[u]
  BY DEF TypeOK, Go

\* A transition of a token: the waiter, if it still waits, has its event to
\* come.  A cancellation comes from the waiter, whose wait is over.
LEMMA ApplyInv ==
  ASSUME Inv, NEW i \in Installed, NEW target \in Terminal, Apply(i, target),
         target # "Canceled" => pc' = pc,
         target = "Canceled" => \E t \in Tasks : /\ mine[t] = i /\ pc[t] = "DropToken"
                                                 /\ Go(t, "PostCancel"),
         dying' \in [Endpoints -> SUBSET Installed], timers' \subseteq timers,
         UNCHANGED <<mailVars, mine, result, hurried>>
  PROVE  Inv'
<1> USE DEF Inv
<1>1. /\ token' \in Seq(Token) /\ Len(token') = Len(token)
      /\ token[i].state = "Pending" /\ token'[i].state = target
      /\ token'[i].reply = (target = "Replied") /\ token'[i].task = token[i].task
      /\ \A j \in Installed : j # i => token'[j] = token[j]
      /\ posts' = posts \cup {i}
  BY ApplyEffect
<1>2. /\ Installed' = Installed /\ Installed = 1..Len(token)
      /\ \A j \in Installed : token'[j].task = token[j].task
      /\ \A j \in Installed : token[j].state # "Pending" => token'[j] = token[j]
  BY <1>1 DEF Installed
<1>3. /\ pc' \in [Tasks -> Locations]
      /\ \A t \in Tasks : /\ pc'[t] = pc[t] \/ (pc[t] = "DropToken" /\ pc'[t] = "PostCancel" /\ mine[t] = i)
                          /\ target = "Canceled" /\ mine[t] = i /\ pc[t] # "Call" => pc'[t] = "PostCancel"
                          /\ pc'[t] # pc[t] => target = "Canceled"
  <2>1. CASE target # "Canceled"
    BY <2>1 DEF TypeOK
  <2>2. CASE target = "Canceled"
    <3>1. PICK t \in Tasks : mine[t] = i /\ pc[t] = "DropToken" /\ Go(t, "PostCancel")
      BY <2>2
    <3>2. /\ pc' \in [Tasks -> Locations] /\ pc'[t] = "PostCancel"
          /\ \A u \in Tasks : u # t => pc'[u] = pc[u]
      BY <3>1, GoEffect DEF Locations
    <3>3. \A u \in Tasks : mine[u] = i /\ pc[u] # "Call" => u = t
      BY <3>1 DEF OwnsToken
    <3> QED BY <3>1, <3>2, <3>3, <2>2
  <2> QED BY <2>1, <2>2
<1>4. /\ mail' = mail /\ overflow' = overflow /\ woken' = woken /\ mine' = mine
      /\ result' = result /\ hurried' = hurried
  BY DEF mailVars
<1>5. TypeOK'
  BY <1>1, <1>2, <1>3, <1>4, ZenonT(30) DEF TypeOK
<1>6. OwnsToken'
  <2> SUFFICES ASSUME NEW t \in Tasks, pc'[t] # "Call"
               PROVE  mine'[t] \in Installed' /\ token'[mine'[t]].task = t
    BY Zenon DEF OwnsToken
  <2>1. pc[t] # "Call"
    BY <1>3
  <2> QED BY <2>1, <1>2, <1>4 DEF OwnsToken
<1>7. CanceledByOwner'
  BY <1>1, <1>2, <1>3, <1>4 DEF CanceledByOwner, OwnsToken, Terminal
<1>8. Announced' /\ ParkedIsWoken'
  <2>1. \A t \in Tasks : Waiting(t)' => Waiting(t)
    BY <1>3 DEF Waiting
  <2>2. \A t \in Tasks : \A e : InMail(t, e)' = InMail(t, e)
    BY <1>4, Zenon DEF InMail
  <2>3. \A t \in Tasks : Waiting(t) => mine[t] \in Installed
    BY Zenon DEF OwnsToken, Waiting
  <2>4. Announced'
    BY <2>1, <2>2, <2>3, <1>1, <1>4, ZenonT(30) DEF Announced
  <2>5. ParkedIsWoken'
    BY <2>2, <1>3, <1>4, Zenon DEF ParkedIsWoken
  <2> QED BY <2>4, <2>5
<1>9. EventIsTerminal'
  BY <1>1, <1>2, <1>3, <1>4, ZenonT(30) DEF EventIsTerminal, TypeOK, Terminal
<1>10. TakesTerminal'
  BY <1>1, <1>2, <1>3, <1>4 DEF TakesTerminal, OwnsToken, Terminal
<1>11. ResultOpen'
  <2>1. \A t \in Tasks : (Waiting(t) \/ pc[t] = "TakeReply")' => Waiting(t) \/ pc[t] = "TakeReply"
    BY <1>3 DEF Waiting
  <2>2. \A j \in Installed' : token'[j].state = "Replied" /\ result'[j] = "None" => token'[j].reply
    <3> SUFFICES ASSUME NEW j \in Installed, token'[j].state = "Replied", result'[j] = "None"
                 PROVE  token'[j].reply
      BY <1>2, Zenon
    <3>1. CASE j = i
      BY <3>1, <1>1, Zenon
    <3>2. CASE j # i
      BY <3>2, <1>1, <1>4, ZenonT(30) DEF ResultOpen
    <3> QED BY <3>1, <3>2
  <2>3. \A j \in Installed' : token'[j].state # "Replied" => ~token'[j].reply
    <3> SUFFICES ASSUME NEW j \in Installed, token'[j].state # "Replied"
                 PROVE  ~token'[j].reply
      BY <1>2
    <3>1. CASE j = i
      BY <3>1, <1>1, Zenon
    <3>2. CASE j # i
      BY <3>2, <1>1, ZenonT(30) DEF ResultOpen
    <3> QED BY <3>1, <3>2
  <2> QED BY <2>1, <2>2, <2>3, <1>1, <1>4 DEF ResultOpen, Ids
<1>12. GivenUpIsTerminal'
  BY <1>1, <1>2, <1>3, <1>4, ZenonT(30) DEF GivenUpIsTerminal, Terminal
<1> QED BY <1>5, <1>6, <1>7, <1>8, <1>9, <1>10, <1>11, <1>12

\* A post to the mailbox of t: of the event of a terminal token of t, which is
\* then no longer to be posted, or of a signal hint.
LEMMA PostInv ==
  ASSUME Inv, NEW t \in Tasks, NEW ev \in Events, Post(t, ev),
         \/ ev = SignalDelivered /\ posts' = posts
         \/ /\ ev \in Installed /\ token[ev].state # "Pending" /\ token[ev].task = t
            /\ posts' = posts \ {ev},
         pc' = pc \/ Go(t, "Call"),
         UNCHANGED <<token, dying, timers, mine, result, hurried>>
  PROVE  Inv'
<1> USE DEF Inv
<1>1. /\ mail' \in [Tasks -> Seq(Events)]
      /\ overflow' \in [Tasks -> BOOLEAN] /\ woken' \in [Tasks -> BOOLEAN]
      /\ \A u \in Tasks : u # t => mail'[u] = mail[u] /\ overflow'[u] = overflow[u] /\ woken'[u] = woken[u]
      /\ woken'[t] /\ (overflow[t] => overflow'[t])
      /\ \A n \in 1..Len(mail'[t]) : mail'[t][n] = ev \/ InMail(t, mail'[t][n])
      /\ \A e : InMail(t, e) => InMail(t, e)'
      /\ InMail(t, ev)' \/ overflow'[t]
  BY PostEffect, Zenon
<1>2. /\ token' = token /\ dying' = dying /\ timers' = timers /\ mine' = mine
      /\ result' = result /\ hurried' = hurried /\ Installed' = Installed
  BY DEF Installed
<1>3. /\ pc' \in [Tasks -> Locations]
      /\ \A u \in Tasks : pc'[u] = pc[u] \/ pc'[u] = "Call"
  BY GoEffect, Zenon DEF Locations, TypeOK
<1>4. posts' \subseteq posts
  OBVIOUS
<1>5. TypeOK'
  BY <1>1, <1>2, <1>3, <1>4, ZenonT(30) DEF TypeOK
<1>6. OwnsToken' /\ CanceledByOwner' /\ TakesTerminal'
  BY <1>2, <1>3, ZenonT(30) DEF OwnsToken, CanceledByOwner, TakesTerminal
<1>7. \A u \in Tasks : \A e : u # t => InMail(u, e)' = InMail(u, e)
  BY <1>1 DEF InMail
<1>8. Announced'
  <2> SUFFICES ASSUME NEW u \in Tasks, Waiting(u)', token'[mine'[u]].state # "Pending"
               PROVE  mine'[u] \in posts' \/ InMail(u, mine[u])' \/ overflow'[u]
    BY Zenon DEF Announced
  <2>1. Waiting(u) /\ pc[u] # "Call"
    BY <1>3 DEF Waiting
  <2>2. mine[u] \in posts \/ InMail(u, mine[u]) \/ overflow[u]
    BY <2>1, <1>2, SMTT(30) DEF Announced
  <2>3. CASE u # t
    <3>1. mine[u] \in posts => mine[u] \in posts'
      BY <2>1, <2>3, Zenon DEF OwnsToken
    <3> QED BY <3>1, <2>2, <2>3, <1>1, <1>2, <1>7
  <2>4. CASE u = t
    BY <2>2, <2>4, <1>1, <1>2, ZenonT(30)
  <2> QED BY <2>3, <2>4
<1>9. ParkedIsWoken'
  <2> SUFFICES ASSUME NEW u \in Tasks, pc'[u] = "Parked", u # t
               PROVE  woken'[u] \/ (~overflow'[u] /\ ~InMail(u, mine[u])')
    BY <1>1, Zenon DEF ParkedIsWoken
  <2>1. pc[u] = "Parked"
    BY <1>3
  <2> QED BY <2>1, <1>1, <1>2, <1>7, ZenonT(30) DEF ParkedIsWoken
<1>10. EventIsTerminal'
  <2>1. \A i \in posts' : token'[i].state # "Pending"
    BY <1>2, <1>4, Zenon DEF EventIsTerminal
  <2> SUFFICES ASSUME NEW u \in Tasks, NEW n \in 1..Len(mail'[u]), mail'[u][n] # SignalDelivered
               PROVE  mail'[u][n] \in Installed' /\ token'[mail'[u][n]].state # "Pending"
    BY <2>1, Zenon DEF EventIsTerminal
  <2>2. CASE u # t
    BY <2>2, <1>1, <1>2 DEF EventIsTerminal
  <2>3. CASE u = t
    <3>1. CASE mail'[u][n] = ev
      BY <3>1, <1>2, Zenon
    <3>2. CASE InMail(t, mail'[t][n])
      <4>1. PICK m \in 1..Len(mail[t]) : mail[t][m] = mail'[t][n]
        BY <3>2, Zenon DEF InMail
      <4> QED BY <4>1, <2>3, <1>2, Zenon DEF EventIsTerminal
    <3> QED BY <3>1, <3>2, <2>3, <1>1, Zenon
  <2> QED BY <2>2, <2>3
<1>11. ResultOpen'
  <2>1. \A u \in Tasks : (Waiting(u) \/ pc[u] = "TakeReply")' => Waiting(u) \/ pc[u] = "TakeReply"
    BY <1>3 DEF Waiting
  <2> QED BY <2>1, <1>2 DEF ResultOpen, Ids
<1>12. GivenUpIsTerminal'
  BY <1>2, Zenon DEF GivenUpIsTerminal
<1> QED BY <1>5, <1>6, <1>8, <1>9, <1>10, <1>11, <1>12

\* The wait of t takes a step of its own, to l: it takes from its own mailbox at
\* most, parks only over nothing to take, and takes the reply of a token that is
\* terminal unless it is hurried.
Control(t, l) ==
    /\ l \in Locations \ {"Call", "PostCancel"} /\ pc[t] \notin {"Call", "PostCancel"} /\ Go(t, l)
    /\ l \in {"Deadline", "Poll", "Parked", "TakeReply"} => Waiting(t) /\ result' = result
    /\ l \in {"Deadline", "Poll", "Parked"} => mail' = mail /\ overflow' = overflow
    /\ l = "Parked" => ~overflow[t] /\ ~InMail(t, mine[t])
    /\ l = "TakeReply" => mine[t] \in hurried' \/ token[mine[t]].state # "Pending"

OwnMail(t) ==
    /\ \A u \in Tasks : u # t => mail'[u] = mail[u] /\ overflow'[u] = overflow[u] /\ woken'[u] = woken[u]
    /\ \A n \in 1..Len(mail'[t]) : InMail(t, mail'[t][n])
    /\ mail' \in [Tasks -> Seq(Events)] /\ overflow' \in [Tasks -> BOOLEAN] /\ woken' \in [Tasks -> BOOLEAN]

OwnResult(t) ==
    /\ \/ result' = result
       \/ \E r \in {"Interrupted", "TimedOut"} : result' = [result EXCEPT ![mine[t]] = r]
    /\ timers' \subseteq timers \cup {mine[t]}
    /\ hurried \subseteq hurried' /\ hurried' \subseteq hurried \cup {mine[t]}

\* A step of t that takes nothing from the mailbox.
LEMMA KeepsMail ==
  ASSUME Inv, NEW t \in Tasks, mail' = mail,
         overflow' = overflow \/ overflow' = [overflow EXCEPT ![t] = FALSE],
         woken' = woken \/ woken' = [woken EXCEPT ![t] = FALSE]
  PROVE  OwnMail(t)
<1>1. /\ mail \in [Tasks -> Seq(Events)]
      /\ overflow \in [Tasks -> BOOLEAN] /\ woken \in [Tasks -> BOOLEAN]
  BY Zenon DEF Inv, TypeOK
<1>2. \A n \in 1..Len(mail'[t]) : InMail(t, mail'[t][n])
  BY <1>1 DEF InMail
<1> QED BY <1>1, <1>2, Zenon DEF OwnMail

\* The invariant holds after a step of the wait.
LEMMA WaitInv ==
  ASSUME Inv, NEW t \in Tasks, NEW l, Control(t, l), OwnMail(t), OwnResult(t),
         UNCHANGED <<registryVars, mine>>
  PROVE  Inv'
<1> USE DEF Inv
<1>1. /\ token' = token /\ posts' = posts /\ dying' = dying /\ mine' = mine /\ Installed' = Installed
      /\ mine[t] \in Installed /\ mine[t] \in Ids /\ Installed \subseteq Ids
  <2>1. token' = token /\ posts' = posts /\ dying' = dying /\ mine' = mine /\ Installed' = Installed
    BY DEF registryVars, Installed
  <2>2. mine[t] \in Installed
    BY Zenon DEF OwnsToken, Control
  <2>3. Installed \subseteq Ids
    BY DelegateAssumption DEF TypeOK, Installed, Ids
  <2> QED BY <2>1, <2>2, <2>3
<1>2. /\ pc' \in [Tasks -> Locations] /\ pc'[t] = l /\ pc[t] \notin {"Call", "PostCancel"}
      /\ l \notin {"Call", "PostCancel"} /\ \A u \in Tasks : u # t => pc'[u] = pc[u]
  BY GoEffect, Zenon DEF Control
<1>3. \A u \in Tasks : pc[u] # "Call" /\ mine[u] = mine[t] => u = t
  BY <1>2, ZenonT(30) DEF OwnsToken
<1>4. result' \in [Ids -> Results] /\ \A i \in Ids : i # mine[t] => result'[i] = result[i]
  <2>1. CASE result' = result
    BY <2>1 DEF TypeOK
  <2>2. CASE result' # result
    <3>1. PICK r \in {"Interrupted", "TimedOut"} : result' = [result EXCEPT ![mine[t]] = r]
      BY <2>2 DEF OwnResult
    <3>2. r \in Results
      BY DEF Results
    <3> QED BY <3>1, <3>2, <1>1 DEF TypeOK
  <2> QED BY <2>1, <2>2
<1>5. TypeOK'
  BY <1>1, <1>2, <1>4, ZenonT(30) DEF TypeOK, OwnMail, OwnResult
<1>6. OwnsToken' /\ CanceledByOwner'
  <2>1. \A u \in Tasks : (pc'[u] # "Call") = (pc[u] # "Call") /\ (pc'[u] = "PostCancel") = (pc[u] = "PostCancel")
    BY <1>2
  <2>2. OwnsToken'
    BY <2>1, <1>1, Zenon DEF OwnsToken
  <2>3. CanceledByOwner'
    BY <2>1, <1>1, ZenonT(30) DEF CanceledByOwner
  <2> QED BY <2>2, <2>3
<1>7. \A u \in Tasks : \A e : u # t => InMail(u, e)' = InMail(u, e)
  BY Zenon DEF InMail, OwnMail
<1>8. l \in {"Deadline", "Poll", "Parked"} => \A e : InMail(t, e)' = InMail(t, e)
  BY Zenon DEF InMail, Control
<1>9. Announced'
  <2> SUFFICES ASSUME NEW u \in Tasks, Waiting(u)', token'[mine'[u]].state # "Pending"
               PROVE  mine'[u] \in posts' \/ InMail(u, mine[u])' \/ overflow'[u]
    BY <1>1, Zenon DEF Announced
  <2>1. CASE u # t
    <3>1. Waiting(u)
      BY <2>1, <1>2, Zenon DEF Waiting
    <3> QED BY <3>1, <2>1, <1>1, <1>7, Zenon DEF Announced, OwnMail
  <2>2. CASE u = t
    <3>1. l \in {"Deadline", "Poll", "Parked"}
      BY <2>2, <1>2, Zenon DEF Waiting
    <3> QED BY <3>1, <2>2, <1>1, <1>8, Zenon DEF Announced, Control
  <2> QED BY <2>1, <2>2
<1>10. ParkedIsWoken'
  <2> SUFFICES ASSUME NEW u \in Tasks, pc'[u] = "Parked"
               PROVE  woken'[u] \/ (~overflow'[u] /\ ~InMail(u, mine[u])')
    BY <1>1, Zenon DEF ParkedIsWoken
  <2>1. CASE u # t
    BY <2>1, <1>2, <1>7, ZenonT(30) DEF ParkedIsWoken, OwnMail
  <2>2. CASE u = t
    BY <2>2, <1>2, <1>8, Zenon DEF Control
  <2> QED BY <2>1, <2>2, Zenon
<1>11. EventIsTerminal'
  <2>1. \A i \in posts' : token'[i].state # "Pending"
    BY <1>1, Zenon DEF EventIsTerminal
  <2> SUFFICES ASSUME NEW u \in Tasks, NEW n \in 1..Len(mail'[u]), mail'[u][n] # SignalDelivered
               PROVE  mail'[u][n] \in Installed' /\ token'[mail'[u][n]].state # "Pending"
    BY <2>1, Zenon DEF EventIsTerminal
  <2>2. PICK m \in 1..Len(mail[u]) : mail[u][m] = mail'[u][n]
    BY ZenonT(30) DEF InMail, OwnMail
  <2> QED BY <2>2, <1>1 DEF EventIsTerminal
<1>12. TakesTerminal'
  BY <1>1, <1>2, <1>3, ZenonT(30) DEF TakesTerminal, Control, OwnResult
<1>13. ResultOpen'
  <2>1. ASSUME NEW u \in Tasks, (Waiting(u) \/ pc[u] = "TakeReply")' PROVE result'[mine'[u]] = "None"
    <3>1. CASE u # t
      <4>1. pc[u] # "Call" /\ (Waiting(u) \/ pc[u] = "TakeReply")
        BY <2>1, <3>1, <1>2 DEF Waiting
      <4>2. mine[u] # mine[t] /\ mine[u] \in Ids
        BY <4>1, <3>1, <1>1, <1>3, Zenon DEF OwnsToken
      <4> QED BY <4>1, <4>2, <1>1, <1>4 DEF ResultOpen
    <3>2. CASE u = t
      <4>1. Waiting(t) /\ result' = result
        BY <2>1, <3>2, <1>2, Zenon DEF Waiting, Control
      <4> QED BY <4>1, <3>2, <1>1, Zenon DEF ResultOpen
    <3> QED BY <3>1, <3>2
  <2>2. \A i \in Ids : i > Len(token') => result'[i] = "None"
    BY <1>1, <1>4 DEF ResultOpen, Installed, TypeOK
  <2>3. \A i \in Installed' : result'[i] = "None" => result[i] = "None"
    <3>1. result' # result => result'[mine[t]] # "None"
      BY <1>1, Zenon DEF TypeOK, OwnResult
    <3> QED BY <3>1, <1>1, <1>4
  <2> QED BY <2>1, <2>2, <2>3, <1>1 DEF ResultOpen
<1>14. GivenUpIsTerminal'
  <2>1. \A i \in Installed : result'[i] = "Canceled" => result[i] = "Canceled"
    <3>1. result' # result => result'[mine[t]] # "Canceled"
      BY <1>1, Zenon DEF TypeOK, OwnResult
    <3> QED BY <3>1, <1>1, <1>4
  <2> QED BY <2>1, <1>1 DEF GivenUpIsTerminal, OwnResult
<1> QED BY <1>5, <1>6, <1>9, <1>10, <1>11, <1>12, <1>13, <1>14

\* A request is installed: the token is new, and so are its result and its waiter.
LEMMA InstallInv ==
  ASSUME Inv, NEW t \in Tasks, InstallRequest(t)
  PROVE  Inv'
<1> USE DEF Inv
<1> DEFINE n == Len(token) + 1
<1>1. PICK e \in Endpoints :
          token' = Append(token, [state |-> "Pending", reply |-> FALSE, marker |-> e, task |-> t])
  BY Zenon DEF InstallRequest
<1>2. [state |-> "Pending", reply |-> FALSE, marker |-> e, task |-> t] \in Token
  BY DEF Token, States
<1>3. /\ token' \in Seq(Token) /\ Len(token') = n /\ n \in Nat /\ n \in Ids /\ Len(token) \in Nat
      /\ token'[n] = [state |-> "Pending", reply |-> FALSE, marker |-> e, task |-> t]
      /\ \A i \in Installed : token'[i] = token[i]
  BY <1>1, <1>2, DelegateAssumption DEF TypeOK, InstallRequest, Installed, Ids
<1>4. Installed' = Installed \cup {n} /\ n \notin Installed /\ Installed = 1..Len(token) /\ 0 \notin Installed
  BY <1>3, SMTT(30) DEF Installed
<1>5. /\ pc[t] = "Call" /\ mine' = [mine EXCEPT ![t] = n] /\ mine' \in [Tasks -> Nat]
      /\ posts' = posts /\ dying' = dying /\ timers' = timers /\ mail' = mail /\ overflow' = overflow
      /\ woken' = woken /\ result' = result /\ hurried' = hurried
  BY <1>3, Zenon DEF InstallRequest, mailVars, history, TypeOK
<1>6. /\ pc' \in [Tasks -> Locations] /\ pc'[t] = "Deadline"
      /\ \A u \in Tasks : u # t => pc'[u] = pc[u]
  BY GoEffect, Zenon DEF InstallRequest, Locations
<1>7. mine'[t] = n /\ \A u \in Tasks : u # t => mine'[u] = mine[u]
  BY <1>5 DEF TypeOK
<1>8. TypeOK'
  <2>1. Len(token') <= MaxTokens
    BY <1>3 DEF Ids
  <2>2. dying' \in [Endpoints -> SUBSET Installed']
    BY <1>4, <1>5, Zenon DEF TypeOK
  <2> QED BY <2>1, <2>2, <1>3, <1>4, <1>5, <1>6, Zenon DEF TypeOK
<1>9. \A u \in Tasks : u # t /\ pc'[u] # "Call" => mine'[u] = mine[u] /\ mine[u] \in Installed /\ pc[u] # "Call"
  BY <1>6, <1>7, Zenon DEF OwnsToken
<1>10. token'[n].state = "Pending" /\ token'[n].task = t /\ token'[n].reply = FALSE
  BY <1>3
<1>11. OwnsToken'
  <2> SUFFICES ASSUME NEW u \in Tasks, pc'[u] # "Call"
               PROVE  mine'[u] \in Installed' /\ token'[mine'[u]].task = u
    BY Zenon DEF OwnsToken
  <2>1. CASE u = t
    BY <2>1, <1>4, <1>7, <1>10, Zenon
  <2>2. CASE u # t
    BY <2>2, <1>3, <1>4, <1>9, ZenonT(30) DEF OwnsToken
  <2> QED BY <2>1, <2>2
<1>12. CanceledByOwner' /\ TakesTerminal'
  BY <1>3, <1>5, <1>6, <1>7, <1>9, <1>10 DEF CanceledByOwner, TakesTerminal
<1>14. Announced'
  <2> SUFFICES ASSUME NEW u \in Tasks, Waiting(u)', token'[mine'[u]].state # "Pending"
               PROVE  \/ mine'[u] \in posts' \/ overflow'[u]
                      \/ \E m \in 1..Len(mail'[u]) : mail'[u][m] = mine'[u]
    BY Zenon DEF Announced, InMail
  <2>1. u # t
    BY <1>7, <1>10, Zenon
  <2>2. Waiting(u) /\ pc'[u] # "Call"
    BY <2>1, <1>6, Zenon DEF Waiting
  <2> QED BY <2>1, <2>2, <1>3, <1>5, <1>9, ZenonT(30) DEF Announced, InMail
<1>15. ParkedIsWoken'
  BY <1>5, <1>6, <1>7, ZenonT(30) DEF ParkedIsWoken, InMail
<1>16. EventIsTerminal'
  BY <1>3, <1>4, <1>5, ZenonT(30) DEF EventIsTerminal, TypeOK
<1>17. ResultOpen'
  <2>1. ASSUME NEW u \in Tasks, (Waiting(u) \/ pc[u] = "TakeReply")' PROVE result'[mine'[u]] = "None"
    <3>1. CASE u = t
      BY <3>1, <1>3, <1>5, <1>7 DEF ResultOpen
    <3>2. CASE u # t
      BY <2>1, <3>2, <1>5, <1>6, <1>7, SMTT(30) DEF ResultOpen, Waiting
    <3> QED BY <3>1, <3>2
  <2>2. \A i \in Ids : i > Len(token') => result'[i] = "None"
    BY <1>3, <1>5 DEF ResultOpen, Ids
  <2>3. \A i \in Installed' : token'[i].state = "Replied" /\ result'[i] = "None" => token'[i].reply
    BY <1>3, <1>4, <1>5, <1>10, ZenonT(30) DEF ResultOpen
  <2>4. \A i \in Installed' : token'[i].state # "Replied" => ~token'[i].reply
    BY <1>3, <1>4, <1>10, ZenonT(30) DEF ResultOpen
  <2> QED BY <2>1, <2>2, <2>3, <2>4, Zenon DEF ResultOpen, Ids
<1>18. GivenUpIsTerminal'
  BY <1>3, <1>4, <1>5, <1>10 DEF GivenUpIsTerminal, ResultOpen
<1> QED BY <1>8, <1>11, <1>12, <1>14, <1>15, <1>16, <1>17, <1>18

\* What take_reply does to the tokens: only the reply of the token is gone.
LEMMA TakeReplyEffect ==
  ASSUME TypeOK, OwnsToken, NEW t \in Tasks, TakeReply(t)
  PROVE  /\ mine[t] \in Installed /\ pc[t] = "TakeReply"
         /\ token' \in Seq(Token) /\ Len(token') = Len(token)
         /\ \A j \in Installed : /\ token'[j].state = token[j].state /\ token'[j].task = token[j].task
                                 /\ j # mine[t] => token'[j] = token[j]
         /\ token'[mine[t]].reply = FALSE
<1> DEFINE i == mine[t]
           new == [state |-> token[i].state, reply |-> FALSE, marker |-> token[i].marker, task |-> token[i].task]
<1>1. /\ i \in Installed /\ i \in Ids /\ i \in 1..Len(token) /\ token[i] \in Token /\ Installed \subseteq Ids
      /\ pc[t] = "TakeReply"
  <2>1. pc[t] = "TakeReply"
    BY Zenon DEF TakeReply
  <2>2. i \in Installed
    BY <2>1 DEF OwnsToken
  <2> QED BY <2>1, <2>2, DelegateAssumption DEF TypeOK, Installed, Ids
<1>2. \A r \in Token : \A b \in BOOLEAN :
          [r EXCEPT !.reply = b] = [state |-> r.state, reply |-> b, marker |-> r.marker, task |-> r.task]
  BY DEF Token
<1>3. token' = [token EXCEPT ![i] = new]
  <2>1. token' = [token EXCEPT ![i] = [token[i] EXCEPT !.reply = FALSE]]
    BY Zenon DEF TakeReply
  <2>2. [token[i] EXCEPT !.reply = FALSE] = new
    BY <1>1, <1>2, Zenon
  <2> QED BY <2>1, <2>2, Zenon
<1>4. new \in Token
  BY <1>1, Zenon DEF Token
<1>5. /\ token' \in Seq(Token) /\ Len(token') = Len(token)
      /\ \A j \in Installed : /\ token'[j].state = token[j].state /\ token'[j].task = token[j].task
                              /\ j # i => token'[j] = token[j]
      /\ token'[i].reply = FALSE
  <2> HIDE DEF new
  <2>1. /\ token' \in Seq(Token) /\ Len(token') = Len(token) /\ token'[i] = new
        /\ \A j \in Installed : j # i => token'[j] = token[j]
    BY <1>1, <1>3, <1>4 DEF TypeOK, Installed
  <2> QED BY <2>1 DEF new
<1> QED BY <1>1, <1>5, Zenon

\* take_reply: the result is given, and the reply is gone.
LEMMA TakeReplyInv ==
  ASSUME Inv, NEW t \in Tasks, TakeReply(t)
  PROVE  Inv'
<1> USE DEF Inv
<1> DEFINE i == mine[t]
<1>1. /\ i \in Installed /\ i \in Ids /\ Installed \subseteq Ids /\ pc[t] = "TakeReply"
      /\ token[i] \in Token
  <2>1. i \in Installed /\ pc[t] = "TakeReply"
    BY TakeReplyEffect, Zenon
  <2> QED BY <2>1, DelegateAssumption DEF TypeOK, Installed, Ids
<1>5. /\ token' \in Seq(Token) /\ Len(token') = Len(token)
      /\ \A j \in Installed : /\ token'[j].state = token[j].state /\ token'[j].task = token[j].task
                              /\ j # i => token'[j] = token[j]
      /\ token'[i].reply = FALSE
  BY TakeReplyEffect, Zenon
<1>6. Installed' = Installed
  BY <1>5 DEF Installed
<1>7. result' = [result EXCEPT ![i] = IF token[i].reply THEN "Reply" ELSE "Canceled"]
  BY DEF TakeReply
<1>8. /\ result' \in [Ids -> Results] /\ \A j \in Ids : j # i => result'[j] = result[j]
      /\ result'[i] = IF token[i].reply THEN "Reply" ELSE "Canceled"
  BY <1>1, <1>7, Zenon DEF TypeOK, Results
<1> HIDE DEF i
<1>9. /\ mine' = mine /\ posts' = posts /\ dying' = dying /\ timers' = timers /\ mail' = mail
      /\ overflow' = overflow /\ woken' = woken /\ hurried' = hurried
  BY DEF TakeReply, mailVars, history
<1>10. /\ pc' \in [Tasks -> Locations] /\ pc'[t] = "Drop"
       /\ \A u \in Tasks : u # t => pc'[u] = pc[u]
  BY GoEffect, SMTT(30) DEF TakeReply, Locations
<1>11. TypeOK'
  BY <1>5, <1>6, <1>8, <1>9, <1>10, Zenon DEF TypeOK
<1>12. \A u \in Tasks : pc'[u] # "Call" => /\ pc[u] # "Call" /\ mine[u] \in Installed
                                           /\ pc'[u] = "PostCancel" => pc[u] = "PostCancel"
                                           /\ pc[u] = "PostCancel" => pc'[u] = "PostCancel"
  BY <1>1, <1>10, Zenon DEF OwnsToken
<1>13. OwnsToken' /\ CanceledByOwner'
  BY <1>5, <1>6, <1>9, <1>12, ZenonT(30) DEF OwnsToken, CanceledByOwner
<1>14. Announced'
  BY <1>5, <1>9, <1>10, <1>12, ZenonT(30) DEF Announced, Waiting, InMail
<1>15. ParkedIsWoken'
  BY <1>9, <1>10, Zenon DEF ParkedIsWoken, InMail
<1>16. EventIsTerminal'
  <2>1. \A j \in posts' : token'[j].state # "Pending"
    BY <1>5, <1>9, Zenon DEF EventIsTerminal, TypeOK
  <2> SUFFICES ASSUME NEW u \in Tasks, NEW n \in 1..Len(mail'[u]), mail'[u][n] # SignalDelivered
               PROVE  mail'[u][n] \in Installed' /\ token'[mail'[u][n]].state # "Pending"
    BY <2>1, Zenon DEF EventIsTerminal
  <2>2. mail[u][n] \in Installed /\ token[mail[u][n]].state # "Pending"
    BY <1>9, Zenon DEF EventIsTerminal
  <2> QED BY <2>2, <1>5, <1>6, <1>9, Zenon
<1>17. TakesTerminal'
  BY <1>5, <1>9, <1>10, <1>12, ZenonT(30) DEF TakesTerminal
<1>18. \A u \in Tasks : u # t /\ pc[u] # "Call" => mine[u] # i
  BY <1>1, ZenonT(30) DEF OwnsToken, i
<1>19. result'[i] # "None"
  BY <1>8, Zenon
<1>20. ResultOpen'
  <2>1. ASSUME NEW u \in Tasks, (Waiting(u) \/ pc[u] = "TakeReply")' PROVE result'[mine'[u]] = "None"
    <3>1. u # t /\ (Waiting(u) \/ pc[u] = "TakeReply") /\ pc[u] # "Call"
      BY <2>1, <1>10 DEF Waiting
    <3>2. mine[u] # i /\ mine[u] \in Ids
      BY <3>1, <1>1, <1>18, Zenon DEF OwnsToken
    <3> QED BY <3>1, <3>2, <1>8, <1>9, ZenonT(30) DEF ResultOpen
  <2>2. \A j \in Ids : j > Len(token') => result'[j] = "None"
    <3>1. \A j \in Ids : j > Len(token) => j # i
      BY <1>1 DEF Installed
    <3>2. \A j \in Ids : j > Len(token) => result[j] = "None"
      BY Zenon DEF ResultOpen
    <3> QED
      BY <1>5, <1>8, <3>1, <3>2, Zenon
  <2>3. \A j \in Installed' : token'[j].state = "Replied" /\ result'[j] = "None" => token'[j].reply
    BY <1>1, <1>5, <1>6, <1>8, <1>19, ZenonT(30) DEF ResultOpen
  <2>4. \A j \in Installed' : token'[j].state # "Replied" => ~token'[j].reply
    <3> SUFFICES ASSUME NEW j \in Installed, token'[j].state # "Replied" PROVE ~token'[j].reply
      BY <1>6, Zenon
    <3>1. CASE j = i
      BY <3>1, <1>5, Zenon
    <3>2. CASE j # i
      BY <3>2, <1>5, Zenon DEF ResultOpen
    <3> QED BY <3>1, <3>2
  <2> QED BY <2>1, <2>2, <2>3, <2>4 DEF ResultOpen, Ids
<1>21. GivenUpIsTerminal'
  <2> SUFFICES ASSUME NEW j \in Installed \ hurried, result'[j] = "Canceled"
               PROVE  token[j].state \in {"Canceled", "AgentDied", "TimedOut"}
    BY <1>5, <1>6, <1>9, Zenon DEF GivenUpIsTerminal
  <2>1. CASE j # i
    BY <2>1, <1>1, <1>8, Zenon DEF GivenUpIsTerminal
  <2>2. CASE j = i
    <3>1. ~token[i].reply
      BY <2>2, <1>8, Zenon
    <3>2. token[i].state # "Replied"
      BY <3>1, <1>1, Zenon DEF ResultOpen, i
    <3>3. token[i].state # "Pending"
      BY <2>2, <1>1, Zenon DEF TakesTerminal, i
    <3> QED BY <3>2, <3>3, <2>2, <1>1 DEF Token, States, Terminal
  <2> QED BY <2>1, <2>2
<1> QED BY <1>11, <1>13, <1>14, <1>15, <1>16, <1>17, <1>20, <1>21

\* A poll that takes an event.
LEMMA PollEventInv ==
  ASSUME Inv, NEW t \in Tasks, PollEvent(t)
  PROVE  Inv'
<1> USE DEF Inv
<1>1. PICK k \in Hits(t) :
          /\ mail' = [mail EXCEPT ![t] = Remove(mail[t], k)]
          /\ \/ Go(t, "Drop") /\ result' = [result EXCEPT ![mine[t]] = "Interrupted"] /\ hurried' = hurried
             \/ Go(t, "TakeReply") /\ hurried' = hurried \cup {mine[t]} /\ result' = result
             \/ /\ mail[t][k] # SignalDelivered
                /\ Go(t, "TakeReply") /\ hurried' = hurried /\ result' = result
  BY Zenon DEF PollEvent
<1> DEFINE ev == mail[t][k]
<1>2. pc[t] = "Poll" /\ k \in 1..Len(mail[t]) /\ ev \in {mine[t], SignalDelivered}
  BY Zenon DEF Hits, Ends, PollEvent
<1>3. mail[t] \in Seq(Events)
  BY Zenon DEF TypeOK
<1>4. /\ Remove(mail[t], k) \in Seq(Events)
      /\ \A n \in 1..Len(Remove(mail[t], k)) : \E m \in 1..Len(mail[t]) : Remove(mail[t], k)[n] = mail[t][m]
  BY <1>2, <1>3, RemoveElements, Zenon
<1>5. /\ mail' \in [Tasks -> Seq(Events)] /\ \A u \in Tasks : u # t => mail'[u] = mail[u]
      /\ \A n \in 1..Len(mail'[t]) : InMail(t, mail'[t][n])
  <2> DEFINE rest == Remove(mail[t], k)
  <2>1. rest \in Seq(Events) /\ \A n \in 1..Len(rest) : \E m \in 1..Len(mail[t]) : rest[n] = mail[t][m]
    BY <1>4, Zenon
  <2>2. mail' = [mail EXCEPT ![t] = rest]
    BY <1>1, Zenon
  <2> HIDE DEF rest
  <2> QED BY <2>1, <2>2 DEF TypeOK, InMail
<1>6. /\ token' = token /\ posts' = posts /\ dying' = dying /\ timers' = timers /\ overflow' = overflow
      /\ woken' = woken /\ mine' = mine
  BY Zenon DEF PollEvent, registryVars
<1>7. ev = mine[t] /\ ev # SignalDelivered => token[mine[t]].state # "Pending"
  BY <1>2, Zenon DEF EventIsTerminal
<1> HIDE DEF ev
<1>9. OwnMail(t)
  BY <1>5, <1>6, Zenon DEF OwnMail, TypeOK
<1>10. CASE Go(t, "Drop") /\ result' = [result EXCEPT ![mine[t]] = "Interrupted"] /\ hurried' = hurried
  <2>1. Control(t, "Drop") /\ OwnResult(t)
    BY <1>2, <1>6, <1>10, Zenon DEF Control, OwnResult, Locations
  <2> QED BY <2>1, <1>6, <1>9, WaitInv DEF registryVars
<1>11. CASE Go(t, "TakeReply") /\ hurried' = hurried \cup {mine[t]} /\ result' = result
  <2>1. Control(t, "TakeReply") /\ OwnResult(t)
    BY <1>2, <1>6, <1>11, Zenon DEF Control, OwnResult, Locations, Waiting
  <2> QED BY <2>1, <1>6, <1>9, WaitInv DEF registryVars
<1>12. CASE ev # SignalDelivered /\ Go(t, "TakeReply") /\ hurried' = hurried /\ result' = result
  <2>1. token[mine[t]].state # "Pending"
    BY <1>2, <1>7, <1>12, Zenon
  <2>2. Control(t, "TakeReply") /\ OwnResult(t)
    BY <2>1, <1>2, <1>6, <1>12, Zenon DEF Control, OwnResult, Locations, Waiting
  <2> QED BY <2>2, <1>6, <1>9, WaitInv DEF registryVars
<1> QED BY <1>1, <1>10, <1>11, <1>12 DEF ev

\* The step leaves the tokens, their waiters and their events alone.
LEMMA FrameInv ==
  ASSUME Inv, dying' \in [Endpoints -> SUBSET Installed], timers' \subseteq timers,
         UNCHANGED <<token, posts, mailVars, pc, mine, result, hurried>>
  PROVE  Inv'
<1>1. /\ token' = token /\ posts' = posts /\ mail' = mail /\ overflow' = overflow /\ woken' = woken
      /\ pc' = pc /\ mine' = mine /\ result' = result /\ hurried' = hurried /\ Installed' = Installed
  BY DEF mailVars, Installed
<1>2. TypeOK'
  BY <1>1, Zenon DEF Inv, TypeOK
<1>3. OwnsToken' /\ CanceledByOwner' /\ TakesTerminal' /\ GivenUpIsTerminal'
  BY <1>1, Zenon DEF Inv, OwnsToken, CanceledByOwner, TakesTerminal, GivenUpIsTerminal
<1>4. Announced' /\ ParkedIsWoken'
  BY <1>1, Zenon DEF Inv, Announced, ParkedIsWoken, Waiting, InMail
<1>5. EventIsTerminal' /\ ResultOpen'
  BY <1>1, ZenonT(30) DEF Inv, EventIsTerminal, ResultOpen, Waiting, Ids
<1> QED BY <1>2, <1>3, <1>4, <1>5 DEF Inv

\* A wait ends, and leaves everything as it is.
LEMMA EndInv ==
  ASSUME Inv, NEW t \in Tasks, Go(t, "Call"),
         UNCHANGED <<registryVars, timers, mailVars, mine, result, hurried>>
  PROVE  Inv'
<1>1. /\ token' = token /\ posts' = posts /\ mail' = mail /\ overflow' = overflow /\ woken' = woken
      /\ mine' = mine /\ result' = result /\ hurried' = hurried /\ Installed' = Installed
      /\ timers' = timers /\ dying' = dying
  BY DEF mailVars, registryVars, Installed
<1>2. /\ pc' \in [Tasks -> Locations]
      /\ \A u \in Tasks : pc'[u] = pc[u] \/ pc'[u] = "Call"
  BY GoEffect, Zenon DEF Locations, Inv
<1>3. TypeOK'
  BY <1>1, <1>2, Zenon DEF Inv, TypeOK
<1>4. OwnsToken' /\ CanceledByOwner' /\ TakesTerminal'
  BY <1>1, <1>2, ZenonT(30) DEF Inv, OwnsToken, CanceledByOwner, TakesTerminal
<1>5. Announced' /\ ParkedIsWoken'
  BY <1>1, <1>2, ZenonT(30) DEF Inv, Announced, ParkedIsWoken, Waiting, InMail
<1>6. EventIsTerminal' /\ GivenUpIsTerminal'
  BY <1>1, Zenon DEF Inv, EventIsTerminal, GivenUpIsTerminal
<1>7. ResultOpen'
  BY <1>1, <1>2, ZenonT(30) DEF Inv, ResultOpen, Waiting, Ids
<1> QED BY <1>3, <1>4, <1>5, <1>6, <1>7 DEF Inv

\* Inv is inductive.
LEMMA NextInv == Inv /\ [Next]_vars => Inv'
<1> SUFFICES ASSUME Inv, [Next]_vars PROVE Inv'
  OBVIOUS
<1>0. dying \in [Endpoints -> SUBSET Installed]
  BY Zenon DEF Inv, TypeOK
<1>1. ASSUME NEW t \in Tasks, InstallRequest(t) PROVE Inv'
  BY <1>1, InstallInv
<1>2. ASSUME NEW t \in Tasks, RegisterDeadline(t) PROVE Inv'
  <2>1. /\ pc[t] = "Deadline" /\ UNCHANGED <<registryVars, mine>>
        /\ mail' = mail /\ overflow' = overflow /\ woken' = woken /\ hurried' = hurried
    BY <1>2, Zenon DEF RegisterDeadline, mailVars, history
  <2>2. OwnMail(t)
    BY <2>1, KeepsMail
  <2>3. CASE timers' \in {timers, timers \cup {mine[t]}} /\ Go(t, "Poll") /\ result' = result
    <3>1. Control(t, "Poll") /\ OwnResult(t)
      BY <2>1, <2>3, Zenon DEF Control, OwnResult, Waiting, Locations
    <3> QED BY <3>1, <2>1, <2>2, WaitInv
  <2>4. CASE Go(t, "Drop") /\ result' = [result EXCEPT ![mine[t]] = "TimedOut"] /\ timers' = timers
    <3>1. Control(t, "Drop") /\ OwnResult(t)
      BY <2>1, <2>4, Zenon DEF Control, OwnResult, Locations
    <3> QED BY <3>1, <2>1, <2>2, WaitInv
  <2> QED BY <1>2, <2>3, <2>4 DEF RegisterDeadline
<1>3. ASSUME NEW t \in Tasks, PollEvent(t) PROVE Inv'
  BY <1>3, PollEventInv
<1>4. ASSUME NEW t \in Tasks, PollOverflow(t) PROVE Inv'
  <2>1. /\ Control(t, "TakeReply") /\ OwnResult(t) /\ UNCHANGED <<registryVars, mine>>
        /\ mail' = mail /\ woken' = woken /\ overflow' = [overflow EXCEPT ![t] = FALSE]
    BY <1>4, Zenon DEF PollOverflow, Control, OwnResult, Waiting, Locations
  <2> QED BY <2>1, KeepsMail, WaitInv, Zenon
<1>5. ASSUME NEW t \in Tasks, PollPending(t) PROVE Inv'
  <2>1. ~InMail(t, mine[t])
    BY <1>5, Zenon DEF PollPending, InMail, Hits, Ends
  <2>2. /\ Control(t, "Parked") /\ OwnResult(t) /\ UNCHANGED <<registryVars, mine>>
        /\ mail' = mail /\ woken' = woken /\ overflow' = overflow
    BY <1>5, <2>1, Zenon DEF PollPending, Control, OwnResult, Waiting, Locations, mailVars, history
  <2> QED BY <2>2, KeepsMail, WaitInv
<1>6. ASSUME NEW t \in Tasks, Repoll(t) PROVE Inv'
  <2>1. /\ Control(t, "Poll") /\ OwnResult(t) /\ UNCHANGED <<registryVars, mine>>
        /\ mail' = mail /\ woken' = [woken EXCEPT ![t] = FALSE] /\ overflow' = overflow
    BY <1>6, Zenon DEF Repoll, Control, OwnResult, Waiting, Locations, history
  <2> QED BY <2>1, KeepsMail, WaitInv, Zenon
<1>7. ASSUME NEW t \in Tasks, TakeReply(t) PROVE Inv'
  BY <1>7, TakeReplyInv, Zenon
<1>8. ASSUME NEW t \in Tasks, DropDeadline(t) PROVE Inv'
  <2>1. /\ Control(t, "DropToken") /\ OwnResult(t) /\ UNCHANGED <<registryVars, mine>>
        /\ mail' = mail /\ woken' = woken /\ overflow' = overflow
    BY <1>8, Zenon DEF DropDeadline, Control, OwnResult, Waiting, Locations, mailVars, history
  <2> QED BY <2>1, KeepsMail, WaitInv
<1>9. ASSUME NEW t \in Tasks, DropToken(t) PROVE Inv'
  <2>1. pc[t] = "DropToken" /\ mine[t] \in Installed
    BY <1>9, Zenon DEF DropToken, Inv, OwnsToken
  <2>2. CASE token[mine[t]].state = "Pending"
    <3>1. Apply(mine[t], "Canceled") /\ Go(t, "PostCancel")
      BY <1>9, <2>2, Zenon DEF DropToken
    <3>2. dying' = dying /\ timers' \subseteq timers /\ UNCHANGED <<mailVars, mine, result, hurried>>
      BY <1>9, Zenon DEF DropToken, history
    <3> QED BY <2>1, <3>1, <3>2, <1>0, ApplyInv, Zenon DEF Terminal
  <2>3. CASE token[mine[t]].state # "Pending"
    <3>1. Go(t, "Call") /\ UNCHANGED <<registryVars, timers, mailVars, mine, result, hurried>>
      BY <1>9, <2>3, Zenon DEF DropToken, registryVars, history
    <3> QED BY <2>1, <2>3, <3>1, EndInv
  <2> QED BY <2>2, <2>3
<1>10. ASSUME NEW t \in Tasks, PostCancel(t) PROVE Inv'
  <2>1. /\ mine[t] \in Events /\ mine[t] \in Installed /\ token[mine[t]].task = t
        /\ token[mine[t]].state # "Pending"
    BY <1>10, Zenon DEF PostCancel, Inv, OwnsToken, CanceledByOwner, TypeOK, Events
  <2> QED BY <1>10, <2>1, PostInv, Zenon DEF PostCancel, history
<1>11. ASSUME NEW t \in Tasks, Signal(t) PROVE Inv'
  BY <1>11, PostInv, SMTT(30) DEF Signal, registryVars, SignalDelivered, Events
<1>12. ASSUME NEW i \in Installed, PostEvent(i) PROVE Inv'
  <2>1. token[i] \in Token /\ i \in Events
    BY SMTT(30) DEF Inv, TypeOK, Installed, Events
  <2>2. token[i].task \in Tasks /\ token[i].state # "Pending"
    BY <1>12, <2>1, Zenon DEF PostEvent, Inv, EventIsTerminal, Token
  <2> QED BY <1>12, <2>1, <2>2, PostInv DEF PostEvent, history
<1>13. ASSUME NEW i \in Installed, MarkReplied(i) PROVE Inv'
  <2>1. /\ Apply(i, "Replied") /\ timers' \subseteq timers /\ dying' = dying /\ pc' = pc
        /\ UNCHANGED <<mailVars, mine, result, hurried>>
    BY <1>13 DEF MarkReplied, history
  <2> QED BY <2>1, <1>0, ApplyInv, Zenon DEF Terminal
<1>14. ASSUME NEW i \in Installed, MarkTimedOut(i) PROVE Inv'
  <2>1. CASE token[i].state = "Pending"
    <3>1. /\ Apply(i, "TimedOut") /\ timers' \subseteq timers /\ dying' = dying /\ pc' = pc
          /\ UNCHANGED <<mailVars, mine, result, hurried>>
      BY <1>14, <2>1, Zenon DEF MarkTimedOut, history
    <3> QED BY <3>1, <1>0, ApplyInv DEF Terminal
  <2>2. CASE token[i].state # "Pending"
    <3>1. /\ timers' \subseteq timers /\ dying' = dying
          /\ UNCHANGED <<token, posts, mailVars, pc, mine, result, hurried>>
      BY <1>14, <2>2, Zenon DEF MarkTimedOut, history
    <3> QED BY <3>1, <1>0, FrameInv
  <2> QED BY <2>1, <2>2
<1>15. ASSUME NEW e \in Endpoints, EndpointDies(e) PROVE Inv'
  <2>1. dying' \in [Endpoints -> SUBSET Installed]
    BY <1>15, <1>0, Zenon DEF EndpointDies
  <2> QED BY <1>15, <2>1, FrameInv DEF EndpointDies, history
<1>16. ASSUME NEW e \in Endpoints, MarkAgentDied(e) PROVE Inv'
  <2>1. PICK i \in dying[e] :
            /\ IF token[i].state = "Pending" THEN Apply(i, "AgentDied") ELSE UNCHANGED <<token, posts>>
            /\ dying' = [dying EXCEPT ![e] = @ \ {i}]
    BY <1>16, Zenon DEF MarkAgentDied
  <2>2. i \in Installed /\ dying' \in [Endpoints -> SUBSET Installed]
    BY <2>1, <1>0, Zenon
  <2>3. CASE token[i].state = "Pending"
    BY <1>16, <2>1, <2>2, <2>3, ApplyInv, Zenon DEF MarkAgentDied, history, Terminal
  <2>4. CASE token[i].state # "Pending"
    BY <1>16, <2>1, <2>2, <2>4, FrameInv, Zenon DEF MarkAgentDied, history
  <2> QED BY <2>3, <2>4
<1>17. CASE UNCHANGED vars
  <2>1. /\ timers' \subseteq timers /\ dying' = dying
        /\ UNCHANGED <<token, posts, mailVars, pc, mine, result, hurried>>
    BY <1>17, Zenon DEF vars, registryVars, history
  <2> QED BY <2>1, <1>0, FrameInv
<1> QED
  BY <1>1, <1>2, <1>3, <1>4, <1>5, <1>6, <1>7, <1>8, <1>9, <1>10, <1>11, <1>12, <1>13, <1>14,
     <1>15, <1>16, <1>17, Zenon DEF Next, TaskStep

\* No token exists and nobody waits when the system starts.
LEMMA InitInv == Init => Inv
<1> SUFFICES ASSUME Init PROVE Inv
  OBVIOUS
<1>1. token = <<>> /\ Len(token) = 0 /\ Installed = {}
  BY DEF Init, Installed
<1>2. TypeOK
  BY <1>1, DelegateAssumption DEF Init, TypeOK, Locations, Results, Events
<1>3. \A t \in Tasks : pc[t] = "Call" /\ Len(mail[t]) = 0
  BY Zenon DEF Init
<1>4. posts = {} /\ \A i \in Ids : result[i] = "None"
  BY Zenon DEF Init
<1>5. OwnsToken /\ CanceledByOwner /\ Announced /\ ParkedIsWoken /\ TakesTerminal
  BY <1>3, Zenon DEF OwnsToken, CanceledByOwner, Announced, ParkedIsWoken, TakesTerminal, Waiting
<1>6. EventIsTerminal
  BY <1>3, <1>4 DEF EventIsTerminal
<1>7. ResultOpen /\ GivenUpIsTerminal
  BY <1>1, <1>3, <1>4, Zenon DEF ResultOpen, GivenUpIsTerminal, Waiting
<1> QED BY <1>2, <1>5, <1>6, <1>7 DEF Inv

\* The inductive invariant holds in every reachable state.
LEMMA InvHolds == Spec => []Inv
  BY InitInv, NextInv, PTL DEF Spec
-----------------------------------------------------------------------------
(* What it implies.                                                        *)

\* DTOK-2 (step/agent.rs, TaskMailbox::post): whatever the races and however
\* full the mailbox, a task parked on a token that is terminal has been woken or
\* the winner is still to post the event.
THEOREM WinnerAlwaysWakes == Spec => []WinnerWakes
<1>1. Inv => WinnerWakes
  BY Zenon DEF Inv, WinnerWakes, Announced, ParkedIsWoken, Waiting, Terminal
<1> QED BY <1>1, InvHolds, PTL

\* resolve_on_agent gives up a wait that nothing hurried only when its own token
\* is terminal.
THEOREM AbortOnlyWhenTerminal == Spec => []AbortIsTerminal
<1>1. Inv => AbortIsTerminal
  BY Zenon DEF Inv, AbortIsTerminal, GivenUp, GivenUpIsTerminal, OwnsToken
<1> QED BY <1>1, InvHolds, PTL

\* A reply that wins the token is what take_reply returns, unless the wait was
\* interrupted, hurried, or refused its deadline.
THEOREM ReplyIsTaken == Spec => []AppliedReplyIsTaken
<1>1. Inv => AppliedReplyIsTaken
  <2> SUFFICES ASSUME Inv, NEW i \in Installed \ hurried, token[i].state = "Replied", result[i] # "None"
               PROVE  result[i] \in {"Reply", "Interrupted", "TimedOut"}
    BY Zenon DEF AppliedReplyIsTaken
  <2>1. result[i] # "Canceled"
    BY Zenon DEF Inv, GivenUpIsTerminal
  <2>2. i \in Ids /\ result \in [Ids -> Results]
    BY DelegateAssumption DEF Inv, TypeOK, Installed, Ids
  <2> QED BY <2>1, <2>2 DEF Results
<1> QED BY <1>1, InvHolds, PTL

\* The transition that comes first decides the token.
LEMMA ApplyKeeps ==
  ASSUME TypeOK, NEW i \in Installed, NEW target \in Terminal, Apply(i, target)
  PROVE  \A j \in Installed : token[j].state \in Terminal => token'[j].state = token[j].state
  BY ApplyEffect, SMTT(30) DEF Terminal

\* No step of a task, an agent, a timer or a dying endpoint undoes a decision.
LEMMA NextKeepsTerminal ==
  ASSUME Inv, Next
  PROVE  \A j \in Installed : token[j].state \in Terminal => token'[j].state = token[j].state
<1> DEFINE Kept == \A j \in Installed : token[j].state \in Terminal => token'[j].state = token[j].state
<1> USE DEF Inv
<1>1. ASSUME token' = token PROVE Kept
  BY <1>1
<1>2. ASSUME NEW i \in Installed, NEW target \in Terminal, Apply(i, target) PROVE Kept
  BY <1>2, ApplyKeeps, Zenon
<1> HIDE DEF Kept
<1>3. ASSUME NEW t \in Tasks, InstallRequest(t) PROVE Kept
  BY <1>3 DEF InstallRequest, Installed, TypeOK, Kept
<1>4. ASSUME NEW t \in Tasks, TakeReply(t) PROVE Kept
  BY <1>4, TakeReplyEffect, Zenon DEF Kept
<1>5. ASSUME NEW t \in Tasks, DropToken(t) PROVE Kept
  <2>1. mine[t] \in Installed
    BY <1>5, SMTT(30) DEF DropToken, OwnsToken
  <2> QED BY <1>1, <1>2, <1>5, <2>1 DEF DropToken, Terminal
<1>6. ASSUME NEW t \in Tasks, \/ RegisterDeadline(t) \/ PollEvent(t) \/ PollOverflow(t) \/ PollPending(t)
                              \/ Repoll(t) \/ DropDeadline(t) \/ PostCancel(t) \/ Signal(t)
      PROVE  Kept
  BY <1>1, <1>6, Zenon DEF RegisterDeadline, PollEvent, PollOverflow, PollPending, Repoll, DropDeadline,
                    PostCancel, Signal, registryVars
<1>7. ASSUME NEW i \in Installed, PostEvent(i) \/ MarkReplied(i) \/ MarkTimedOut(i) PROVE Kept
  BY <1>1, <1>2, <1>7, Zenon DEF PostEvent, MarkReplied, MarkTimedOut, Terminal
<1>8. ASSUME NEW e \in Endpoints, EndpointDies(e) PROVE Kept
  BY <1>1, <1>8, Zenon DEF EndpointDies
<1>9. ASSUME NEW e \in Endpoints, MarkAgentDied(e) PROVE Kept
  <2>1. dying[e] \subseteq Installed
    BY Zenon DEF TypeOK
  <2> QED BY <1>1, <1>2, <1>9, <2>1 DEF MarkAgentDied, Terminal
<1> QED
  BY <1>3, <1>4, <1>5, <1>6, <1>7, <1>8, <1>9, Zenon DEF Next, TaskStep, Kept

\* DTOK-1 (mark_replied_with_post, cas_terminal_with_post): the state of a
\* terminal token never changes again.
THEOREM FirstWriterAlwaysWins == Spec => FirstWriterWins
<1>1. Inv /\ [Next]_vars
        => [\A i \in Installed : token[i].state \in Terminal => token'[i].state = token[i].state]_vars
  BY NextKeepsTerminal, Zenon DEF vars
<1> QED BY <1>1, InvHolds, PTL DEF Spec, FirstWriterWins
=============================================================================
