------------------------ MODULE ClientPromiseProofs ------------------------
(***************************************************************************)
(* ClientTransport implements RequestReply, for every set of tasks and     *)
(* tokens.  What a task takes out of its channel carries its token         *)
(* (TokensAgree) and answers something that has been sent (AnswersSent),   *)
(* because what has been sent stays sent.                                  *)
(***************************************************************************)
EXTENDS ClientTransportProofs

\* What has been sent stays sent.
LEMMA SentStays ==
    ASSUME TypeOK, [Next]_vars, NEW x \in Task, Sent(x)
    PROVE  Sent(x)'
<1>1. Request \cap Receiver = {} /\ Task = Request \cup Receiver
  BY ClientTransportAssumption DEF Task
<1>2. CASE x \in Request
  <2>1. attempts \in [Request -> Nat]
    BY DEF TypeOK
  <2>2. CASE UNCHANGED attempts
    BY <1>2, <2>2 DEF Sent
  <2>3. ASSUME NEW r \in Request, attempts' = [attempts EXCEPT ![r] = @ + 1]
        PROVE  Sent(x)'
    BY <1>2, <2>1, <2>3 DEF Sent
  <2> QED
    BY <2>2, <2>3
       DEF Next, vars, RequestStep, ReceiverStep, LoopStep, Environment,
           CheckForError, Insert, Send, SendFails, Take, AttemptFails, GiveUp,
           Finish, Cancel, ReceiveNext, ReceiveClosed, Drop, RemoveDropped, Receive,
           AckFails, GetSender, Deliver, SetError, FailAll, DropClient, UpgradeFails
<1>3. CASE x \in Receiver
  <2>1. pc[x] \notin {"start", "checked"}
    BY <1>1, <1>3 DEF Sent
  <2>2. pc = [t \in Task |-> pc[t]]
    BY Typed
  <2>3. CASE UNCHANGED pc
    BY <1>1, <1>3, <2>3 DEF Sent
  <2>4. ASSUME NEW t \in Task, CheckForError(t) PROVE Sent(x)'
    BY <1>1, <1>3, <2>1, <2>2, <2>4 DEF CheckForError, Goto, Sent
  <2>5. ASSUME NEW t \in Task, NEW l \in {"registered", "waiting", "finished", "done",
                                          "cancelled", "dropped"}, Goto(t, l)
        PROVE  Sent(x)'
    BY <1>1, <1>3, <2>1, <2>2, <2>5 DEF Goto, Sent
  <2> QED
    BY <2>3, <2>4, <2>5, <1>1
       DEF Next, vars, RequestStep, ReceiverStep, LoopStep, Environment,
           Insert, Send, SendFails, Take, AttemptFails, GiveUp,
           Finish, Cancel, ReceiveNext, ReceiveClosed, Drop, RemoveDropped, Receive,
           AckFails, GetSender, Deliver, SetError, FailAll, DropClient, UpgradeFails
<1> QED
  BY <1>1, <1>2, <1>3

\* The two parts of AnswersSent.
PacketSent == packet # None => Sent(packet)
QueuedSent == \A t \in Task : \A n \in 1 .. Len(channel[t]) :
                channel[t][n] # Error => Sent(channel[t][n])

\* The receive loop takes in only what has been sent.
LEMMA PacketStep ==
    ASSUME TypeOK, [Next]_vars, PacketSent
    PROVE  PacketSent'
<1>0. packet \in Task \cup {None}
  BY DEF TypeOK
<1>1. CASE UNCHANGED packet
  BY <1>0, <1>1, SentStays DEF PacketSent
<1>2. CASE packet' = None
  BY <1>2 DEF PacketSent
<1>3. ASSUME NEW t \in Task, Receive(t) PROVE PacketSent'
  BY <1>3, SentStays DEF Receive, PacketSent
<1> QED
  BY <1>1, <1>2, <1>3
     DEF Next, vars, loopVars, RequestStep, ReceiverStep, LoopStep, Environment,
         CheckForError, Insert, Send, SendFails, Take, AttemptFails, GiveUp, Finish,
         Cancel, ReceiveNext, ReceiveClosed, Drop, RemoveDropped, AckFails,
         GetSender, Deliver, SetError, FailAll, DropClient, UpgradeFails

\* Whatever a step leaves in a channel was there before, is an error, or is the
\* packet.
FromBefore(u, n) ==
    \/ \E k \in 1 .. Len(channel[u]) : channel'[u][n] = channel[u][k]
    \/ channel'[u][n] = Error
    \/ packet \in Task /\ channel'[u][n] = packet

LEMMA ChannelStep ==
    ASSUME TypeOK, [Next]_vars, NEW u \in Task, NEW n \in 1 .. Len(channel'[u])
    PROVE  FromBefore(u, n)
<1> USE ClientTransportAssumption
<1>0. channel[u] \in Seq(Task \cup {Error})
  BY Typed
<1>1. CASE channel'[u] = channel[u]
  BY <1>1 DEF FromBefore
<1>2. ASSUME NEW x \in Task \cup {Error}, x = Error \/ (packet \in Task /\ x = packet),
             channel'[u] = Append(channel[u], x)
      PROVE  FromBefore(u, n)
  BY <1>0, <1>2, AppendFacts DEF FromBefore
<1>3. ASSUME channel[u] # <<>>, channel'[u] = Tail(channel[u]) PROVE FromBefore(u, n)
  BY <1>0, <1>3, TailFacts DEF FromBefore
<1>4. ASSUME NEW t \in Task, NEW x \in Task \cup {Error},
             x = Error \/ (packet \in Task /\ x = packet), channel' = Push(t, x)
      PROVE  FromBefore(u, n)
  <2>1. channel'[u] = channel[u] \/ channel'[u] = Append(channel[u], x)
    BY <1>4, Typed DEF Push
  <2> QED
    BY <1>1, <1>2, <1>4, <2>1 DEF FromBefore
<1>5. ASSUME NEW t \in Task, CheckForError(t) PROVE FromBefore(u, n)
  BY <1>1, <1>4, <1>5 DEF CheckForError, FromBefore
<1>6. ASSUME NEW t \in Task, Take(t) \/ ReceiveNext(t) PROVE FromBefore(u, n)
  <2>1. channel[t] # <<>> /\ channel' = [channel EXCEPT ![t] = Tail(@)]
    BY <1>6 DEF Take, ReceiveNext
  <2>2. channel'[u] = channel[u] \/ (channel[u] # <<>> /\ channel'[u] = Tail(channel[u]))
    BY <2>1, Typed
  <2> QED
    BY <1>1, <1>3, <2>2 DEF FromBefore
<1>7. CASE Deliver
  <2>1. sender \in Task /\ packet \in Task
    BY <1>7, Typed DEF Deliver
  <2> QED
    BY <1>1, <1>4, <1>7, <2>1 DEF Deliver, FromBefore
<1>8. CASE FailAll
  <2>1. channel'[u] = channel[u] \/ channel'[u] = Append(channel[u], Error)
    BY <1>8 DEF FailAll
  <2> QED
    BY <1>1, <1>2, <2>1 DEF FromBefore
<1>9. CASE UNCHANGED channel
  BY <1>1, <1>9 DEF FromBefore
<1> QED
  <2>1. \/ \E t \in Task : CheckForError(t) \/ Take(t) \/ ReceiveNext(t)
        \/ Deliver \/ FailAll \/ UNCHANGED channel
    BY Typed
       DEF Next, vars, RequestStep, ReceiverStep, LoopStep, Environment,
           Insert, Send, SendFails, AttemptFails, GiveUp, Finish, Cancel,
           ReceiveClosed, Drop, RemoveDropped, Receive, AckFails,
           GetSender, SetError, DropClient, UpgradeFails
  <2>2. CASE \E t \in Task : CheckForError(t) \/ Take(t) \/ ReceiveNext(t)
    <3>1. PICK t \in Task : CheckForError(t) \/ Take(t) \/ ReceiveNext(t)
      BY <2>2
    <3> QED
      BY <1>5, <1>6, <3>1
  <2> QED
    BY <1>7, <1>8, <1>9, <2>1, <2>2 DEF FromBefore

\* AnswersSent is inductive.
LEMMA AnswersSentStep ==
    TypeOK /\ AnswersSent /\ [Next]_vars => AnswersSent'
<1> SUFFICES ASSUME TypeOK, AnswersSent, [Next]_vars PROVE AnswersSent'
  OBVIOUS
<1>1. PacketSent /\ QueuedSent
  BY DEF AnswersSent, PacketSent, QueuedSent
<1>2. PacketSent'
  BY <1>1, PacketStep
<1>3. QueuedSent'
  <2> SUFFICES ASSUME NEW u \in Task, NEW n \in 1 .. Len(channel'[u]),
                      channel'[u][n] # Error
               PROVE  Sent(channel[u][n])'
    BY DEF QueuedSent
  <2>1. CASE \E k \in 1 .. Len(channel[u]) : channel'[u][n] = channel[u][k]
    <3>1. PICK k \in 1 .. Len(channel[u]) : channel'[u][n] = channel[u][k]
      BY <2>1
    <3>2. PICK x : x = channel[u][k]
      OBVIOUS
    <3>3. x \in Task
      <4>1. channel[u] \in Seq(Task \cup {Error})
        BY Typed
      <4>2. channel[u][k] \in Task \cup {Error}
        BY <4>1, <3>1
      <4> QED
        BY <3>1, <3>2, <4>2
    <3>4. Sent(x)
      BY <1>1, <3>1, <3>2 DEF QueuedSent
    <3>5. Sent(x)'
      BY <3>3, <3>4, SentStays
    <3> QED
      BY <3>1, <3>2, <3>5 DEF Sent
  <2>2. CASE packet \in Task /\ channel'[u][n] = packet
    <3>1. PICK x : x = packet
      OBVIOUS
    <3>2. Sent(x) /\ x \in Task
      BY <1>1, <2>2, <3>1, ClientTransportAssumption DEF PacketSent
    <3>3. Sent(x)'
      BY <3>2, SentStays
    <3> QED
      BY <2>2, <3>1, <3>3 DEF Sent
  <2> QED
    BY <2>1, <2>2, ChannelStep DEF FromBefore
<1> QED
  BY <1>2, <1>3 DEF AnswersSent, PacketSent, QueuedSent

-----------------------------------------------------------------------------
(* The refinement.                                                         *)

\* The view follows the label of the task that moves.
LEMMA ViewGoto ==
    ASSUME TypeOK, NEW t \in Task, NEW l, Goto(t, l)
    PROVE  View' = [View EXCEPT ![t] = Phase(l)]
BY DEF TypeOK, Goto, View

\* A move between labels a user cannot tell apart is not seen.
LEMMA ViewSame ==
    ASSUME TypeOK, NEW t \in Task, NEW l, Goto(t, l), Phase(l) = Phase(pc[t])
    PROVE  View' = View
BY DEF TypeOK, Goto, View

\* Initially nobody has asked for anything.
LEMMA PromiseInit == Init => Promised!Init
BY DEF Init, Promised!Init, Promised!User, Task, View, Phase

\* A task that becomes registered has started.
LEMMA StartStep ==
    ASSUME TypeOK, NEW t \in Task, pc[t] \in {"start", "checked"},
           Goto(t, "registered"), UNCHANGED <<attempts, result>>
    PROVE  Promised!Start(t)
BY ViewGoto DEF Promised!Start, View, Phase

\* Leaving is what finishing, abandoning and dropping are.
LEMMA LeaveStep ==
    ASSUME TypeOK, NEW t \in Task, NEW l \in {"done", "cancelled", "dropped"},
           pc[t] \in {"start", "checked", "registered", "waiting", "finished"},
           Goto(t, l), UNCHANGED <<attempts, result>>
    PROVE  Promised!Leave(t)
<1>1. Phase(pc[t]) # "left" /\ Phase(l) = "left"
  BY DEF Phase
<1>2. View[t] = Phase(pc[t])
  BY DEF View
<1> QED
  BY <1>1, <1>2, ViewGoto DEF Promised!Leave

\* An attempt, sent or refused by the transport.
LEMMA TryStep ==
    ASSUME TypeOK, NEW r \in Request, Send(r) \/ SendFails(r)
    PROVE  Promised!Try(r)
<1>1. r \in Task /\ View[r] = "open"
  BY DEF Task, Send, SendFails, View, Phase
<1>2. View' = View
  <2>1. CASE Send(r)
    BY <1>1, <2>1, ViewSame DEF Send, Phase
  <2>2. CASE SendFails(r)
    BY <2>2 DEF SendFails, View
  <2> QED
    BY <2>1, <2>2
<1> QED
  BY <1>1, <1>2 DEF Send, SendFails, Promised!Try

\* What stands first in a channel is an error, or an answer to something sent
\* under the token of the task.
LEMMA HeadIsAnswer ==
    ASSUME TypeOK, TokensAgree, AnswersSent, NEW t \in Task, channel[t] # <<>>,
           Head(channel[t]) # Error
    PROVE  /\ Head(channel[t]) \in Task
           /\ Sent(Head(channel[t]))
           /\ TokenOf[Head(channel[t])] = TokenOf[t]
<1>1. /\ Head(channel[t]) \in Task \cup {Error}
      /\ 1 \in 1 .. Len(channel[t]) /\ Head(channel[t]) = channel[t][1]
  BY Typed, TailFacts
<1> QED
  BY <1>1 DEF TokensAgree, AnswersSent

\* What may be answered has been asked.
LEMMA SentIsAsked ==
    ASSUME NEW x \in Task, Sent(x)
    PROVE  Promised!Asked(x)
<1>1. CASE x \in Request
  BY <1>1 DEF Sent, Promised!Asked
<1>2. CASE x \notin Request
  <2>1. pc[x] \notin {"start", "checked"}
    BY <1>2 DEF Sent
  <2>2. Phase(pc[x]) # "idle"
    BY <2>1 DEF Phase
  <2> QED
    BY <1>2, <2>2 DEF Promised!Asked, View
<1> QED
  BY <1>1, <1>2

\* Taking an answer out of the channel gives it, whether a request ends with
\* it or a receiver goes on.
LEMMA AnswerIsGiven ==
    ASSUME TypeOK, TokensAgree, AnswersSent, NEW t \in Task, channel[t] # <<>>,
           Head(channel[t]) # Error, Promised!Give(t, Head(channel[t]))
    PROVE  Promised!Answer(t)
<1>1. PICK x : x = Head(channel[t])
  OBVIOUS
<1>2. x \in Task /\ TokenOf[x] = TokenOf[t] /\ Promised!Asked(x)
  BY <1>1, HeadIsAnswer, SentIsAsked
<1>3. Promised!Give(t, x)
  BY <1>1
<1> QED
  BY <1>2, <1>3 DEF Promised!Answer, Promised!User, Task

\* Every step of the transport is one of the promise, or is not seen.
LEMMA PromiseStep ==
    ASSUME TypeOK, TokensAgree, AnswersSent, [Next]_vars
    PROVE  [Promised!Next]_Promised!state
<1> USE ClientTransportAssumption
<1>0. Request \subseteq Task /\ Receiver \subseteq Task /\ Promised!User = Task
  BY DEF Task, Promised!User
<1>1. ASSUME UNCHANGED <<View, attempts, result>> PROVE [Promised!Next]_Promised!state
  BY <1>1 DEF Promised!state
<1>2. ASSUME NEW t \in Task,
             Promised!Start(t) \/ Promised!Answer(t) \/ Promised!Fail(t)
               \/ Promised!Leave(t)
      PROVE  [Promised!Next]_Promised!state
  BY <1>0, <1>2 DEF Promised!Next
<1>3. ASSUME NEW t \in Task, CheckForError(t) PROVE [Promised!Next]_Promised!state
  <2>1. CASE failError
    BY <1>2, <1>3, <2>1, StartStep DEF CheckForError
  <2>2. CASE ~failError
    BY <1>1, <1>3, <2>2, ViewSame DEF CheckForError, Phase
  <2> QED
    BY <2>1, <2>2
<1>4. ASSUME NEW t \in Task, Insert(t) PROVE [Promised!Next]_Promised!state
  BY <1>2, <1>4, StartStep DEF Insert
<1>5. ASSUME NEW r \in Request, Send(r) \/ SendFails(r)
      PROVE  [Promised!Next]_Promised!state
  BY <1>5, TryStep DEF Promised!Next
<1>6. ASSUME NEW r \in Request, Take(r) PROVE [Promised!Next]_Promised!state
  <2>1. CASE Head(channel[r]) = Error
    BY <1>0, <1>1, <1>6, <2>1, ViewSame DEF Take, Phase
  <2>2. CASE Head(channel[r]) # Error
    <3>1. Promised!Give(r, Head(channel[r]))
      <4>1. View[r] = "open" /\ View' = [View EXCEPT ![r] = "answered"]
        BY <1>0, <1>6, <2>2, ViewGoto DEF Take, View, Phase
      <4> QED
        BY <1>6, <2>2, <4>1 DEF Take, Promised!Give
    <3> QED
      BY <1>0, <1>2, <1>6, <2>2, <3>1, AnswerIsGiven DEF Take
  <2> QED
    BY <2>1, <2>2
<1>7. ASSUME NEW r \in Request, AttemptFails(r) PROVE [Promised!Next]_Promised!state
  BY <1>0, <1>1, <1>7, ViewSame DEF AttemptFails, Phase
<1>8. ASSUME NEW r \in Request, GiveUp(r) PROVE [Promised!Next]_Promised!state
  <2>1. View[r] = "open" /\ View' = [View EXCEPT ![r] = "answered"]
    BY <1>0, <1>8, ViewGoto DEF GiveUp, View, Phase
  <2>2. Promised!Fail(r)
    BY <1>8, <2>1 DEF GiveUp, Promised!Fail, Promised!Give
  <2> QED
    BY <1>0, <1>2, <2>2
<1>9. ASSUME NEW r \in Request, Finish(r) \/ Cancel(r)
      PROVE  [Promised!Next]_Promised!state
  BY <1>0, <1>2, <1>9, LeaveStep DEF Finish, Cancel
<1>10. ASSUME NEW v \in Receiver, ReceiveNext(v) \/ ReceiveClosed(v)
       PROVE  [Promised!Next]_Promised!state
  <2>1. v \notin Request /\ View[v] = "open" /\ View' = View
    BY <1>0, <1>10 DEF ReceiveNext, ReceiveClosed, View, Phase
  <2>2. CASE ReceiveNext(v) /\ Head(channel[v]) # Error
    <3>1. Promised!Give(v, Head(channel[v]))
      BY <2>1, <2>2 DEF ReceiveNext, Promised!Give
    <3> QED
      BY <1>0, <1>2, <2>2, <3>1, AnswerIsGiven DEF ReceiveNext
  <2>3. CASE result' = [result EXCEPT ![v] = Error]
    <3>1. Promised!Fail(v)
      BY <1>10, <2>1, <2>3 DEF ReceiveNext, ReceiveClosed, Promised!Fail, Promised!Give
    <3> QED
      BY <1>0, <1>2, <3>1
  <2> QED
    BY <1>10, <2>2, <2>3 DEF ReceiveNext, ReceiveClosed
<1>11. ASSUME NEW v \in Receiver, Drop(v) PROVE [Promised!Next]_Promised!state
  BY <1>0, <1>2, <1>11, LeaveStep DEF Drop
<1>12. ASSUME NEW v \in Receiver, RemoveDropped(v) PROVE [Promised!Next]_Promised!state
  BY <1>0, <1>1, <1>12, ViewSame DEF RemoveDropped, Phase
<1>13. ASSUME UNCHANGED <<pc, attempts, result>> PROVE [Promised!Next]_Promised!state
  BY <1>1, <1>13 DEF View
<1>14. CASE LoopStep
  BY <1>13, <1>14 DEF LoopStep, GetSender, Deliver, FailAll, UpgradeFails
<1>15. CASE Environment
  <2>1. CASE \E t \in Task : Receive(t) \/ AckFails(t)
    BY <1>13, <2>1 DEF Receive, AckFails
  <2>2. CASE SetError \/ DropClient
    BY <1>13, <2>2 DEF SetError, DropClient
  <2> QED
    BY <1>3, <1>9, <1>11, <1>15, <2>1, <2>2 DEF Environment
<1>16. CASE UNCHANGED vars
  BY <1>13, <1>16 DEF vars
<1> QED
  BY <1>0, <1>4, <1>5, <1>6, <1>7, <1>8, <1>9, <1>10, <1>12, <1>14, <1>15, <1>16
     DEF Next, RequestStep, ReceiverStep

\* Whatever tokens tasks share, and whatever the network does: a request ends
\* once, with an answer to something sent under its token or with an error after
\* its last attempt.
THEOREM KeepsPromiseCorrect == Spec => KeepsPromise
<1>1. Init => TypeOK /\ TokensAgree /\ AnswersSent
  BY TypeInit, TokensInit, ClientTransportAssumption DEF Init, AnswersSent
<1>2. TypeOK /\ TokensAgree /\ AnswersSent /\ [Next]_vars
        => (TypeOK /\ TokensAgree /\ AnswersSent)'
  BY TypeStep, TokensStep, AnswersSentStep
<1>3. TypeOK /\ TokensAgree /\ AnswersSent /\ [Next]_vars
        => [Promised!Next]_Promised!state
  BY PromiseStep
<1> QED
  BY <1>1, <1>2, <1>3, PromiseInit, PTL DEF Spec, KeepsPromise, Promised!Spec
=============================================================================
