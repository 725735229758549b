----------------------- MODULE ClientTransportProofs -----------------------
(***************************************************************************)
(* What holds of a client's transport for every set of tasks, tokens and   *)
(* retries.  TypeOK is inductive on its own.  AnswerHasToken rests on      *)
(* TokensAgree: the registry binds a token to a task with that token, and  *)
(* so does every answer under way from the registry to a task.             *)
(* NoStaleSender needs TokensAgree too, since remove_sender goes by token. *)
(* StaysRegistered needs of other tasks only that they use other tokens.   *)
(***************************************************************************)
EXTENDS ClientTransport, TLAPS

-----------------------------------------------------------------------------
(* Helpers.                                                                *)

\* Bind adds or replaces one argument.
LEMMA BindFacts ==
    ASSUME NEW f, NEW x, NEW v
    PROVE  /\ DOMAIN Bind(f, x, v) = DOMAIN f \cup {x}
           /\ \A y \in DOMAIN f \cup {x} :
                 Bind(f, x, v)[y] = IF y = x THEN v ELSE f[y]
           /\ Bind(f, x, v) = [y \in DOMAIN Bind(f, x, v) |-> Bind(f, x, v)[y]]
BY DEF Bind

\* Unbind removes one argument.
LEMMA UnbindFacts ==
    ASSUME NEW f, NEW x
    PROVE  /\ DOMAIN Unbind(f, x) = DOMAIN f \ {x}
           /\ \A y \in DOMAIN f \ {x} : Unbind(f, x)[y] = f[y]
           /\ Unbind(f, x) = [y \in DOMAIN Unbind(f, x) |-> Unbind(f, x)[y]]
BY DEF Unbind, Restrict

\* The elements of a sequence to which one is appended.
LEMMA AppendFacts ==
    ASSUME NEW S, NEW s \in Seq(S), NEW x \in S
    PROVE  /\ Append(s, x) \in Seq(S)
           /\ \A n \in 1 .. Len(Append(s, x)) :
                 Append(s, x)[n] = x \/ (n \in 1 .. Len(s) /\ Append(s, x)[n] = s[n])
OBVIOUS

\* The head and the elements of the tail of a sequence are elements of it.
LEMMA TailFacts ==
    ASSUME NEW S, NEW s \in Seq(S), s # <<>>
    PROVE  /\ Tail(s) \in Seq(S)
           /\ Head(s) \in S
           /\ 1 \in 1 .. Len(s) /\ Head(s) = s[1]
           /\ \A n \in 1 .. Len(Tail(s)) :
                 n + 1 \in 1 .. Len(s) /\ Tail(s)[n] = s[n + 1]
OBVIOUS

\* Binding a value of S keeps a function into S one, and so does unbinding.
LEMMA BindType ==
    ASSUME NEW S, NEW f, f \in [DOMAIN f -> S], NEW x, NEW v \in S
    PROVE  Bind(f, x, v) \in [DOMAIN Bind(f, x, v) -> S]
BY DEF Bind

LEMMA UnbindType ==
    ASSUME NEW S, NEW f, f \in [DOMAIN f -> S], NEW x
    PROVE  Unbind(f, x) \in [DOMAIN Unbind(f, x) -> S]
BY DEF Unbind, Restrict

-----------------------------------------------------------------------------
(* Types.                                                                  *)

\* Types hold initially.
LEMMA TypeInit == Init => TypeOK
<1> SUFFICES ASSUME Init PROVE TypeOK
  OBVIOUS
<1> USE ClientTransportAssumption
<1>1. /\ outgoing \in [DOMAIN outgoing -> Task]
      /\ DOMAIN outgoing \subseteq Token
  BY DEF Init
<1>2. /\ attempts \in [Request -> Nat]
      /\ \A r \in Request : attempts[r] <= Limit(r)
  BY DEF Init, Limit
<1>3. channel \in [Task -> Seq(Task \cup {Error})]
  BY DEF Init
<1> QED
  BY <1>1, <1>2, <1>3 DEF Init, TypeOK

\* Every action keeps the types.
LEMMA TypeStep == TypeOK /\ [Next]_vars => TypeOK'
<1> SUFFICES ASSUME TypeOK, [Next]_vars PROVE TypeOK'
  OBVIOUS
<1> USE ClientTransportAssumption
<1>0. /\ Request \subseteq Task /\ Receiver \subseteq Task
      /\ \A t \in Task : TokenOf[t] \in Token
      /\ \A t \in Task : channel[t] \in Seq(Task \cup {Error})
  BY DEF Task, Token, TypeOK
<1>1. ASSUME NEW t \in Task, CheckForError(t) PROVE TypeOK'
  <2>1. Append(channel[t], Error) \in Seq(Task \cup {Error})
    BY <1>0, AppendFacts
  <2>2. channel' \in [Task -> Seq(Task \cup {Error})]
    BY <1>1, <2>1 DEF CheckForError, Push, TypeOK
  <2> QED
    BY <1>1, <2>2 DEF CheckForError, TypeOK, Goto, loopVars, Limit
<1>2. ASSUME NEW t \in Task, Insert(t) PROVE TypeOK'
  <2>1. outgoing' \in [DOMAIN outgoing' -> Task]
    BY <1>2, BindType DEF Insert, TypeOK
  <2>2. DOMAIN outgoing' \subseteq Token
    <3>1. outgoing' = Bind(outgoing, TokenOf[t], t) /\ TokenOf[t] \in Token
      BY <1>0, <1>2 DEF Insert
    <3> QED
      BY <3>1 DEF Bind, TypeOK
  <2> QED
    BY <1>2, <2>1, <2>2 DEF Insert, TypeOK, Goto, loopVars, Limit
<1>3. ASSUME NEW r \in Request, Send(r) \/ SendFails(r) PROVE TypeOK'
  <2>1. /\ attempts' \in [Request -> Nat]
        /\ \A q \in Request : attempts'[q] <= Limit(q)
    <3>1. /\ attempts[r] < Limit(r)
          /\ attempts' = [attempts EXCEPT ![r] = @ + 1]
      BY <1>3 DEF Send, SendFails
    <3>2. \A q \in Request : Limit(q) \in Nat /\ attempts[q] \in Nat /\ attempts[q] <= Limit(q)
      BY DEF TypeOK, Limit
    <3> QED
      BY <3>1, <3>2 DEF TypeOK
  <2>2. pc' \in [Task -> {"start", "checked", "registered", "waiting", "finished",
                          "done", "dropped", "cancelled"}]
    BY <1>0, <1>3 DEF Send, SendFails, TypeOK, Goto
  <2>3. UNCHANGED <<outgoing, failError, channel, result, loopVars, client>>
    BY <1>3 DEF Send, SendFails
  <2> QED
    BY <2>1, <2>2, <2>3 DEF TypeOK, loopVars, Limit
<1>4. ASSUME NEW r \in Request, Take(r) PROVE TypeOK'
  <2>1. /\ Head(channel[r]) \in Task \cup {Error}
        /\ Tail(channel[r]) \in Seq(Task \cup {Error})
    BY <1>0, <1>4, TailFacts DEF Take
  <2>2. /\ channel' \in [Task -> Seq(Task \cup {Error})]
        /\ result' \in [Task -> Task \cup {Error, None}]
    BY <1>0, <1>4, <2>1 DEF Take, TypeOK
  <2> QED
    <3>1. pc' \in [Task -> {"start", "checked", "registered", "waiting", "finished",
                            "done", "dropped", "cancelled"}]
      BY <1>0, <1>4 DEF Take, TypeOK, Goto
    <3>2. UNCHANGED <<outgoing, failError, attempts, loopVars, client>>
      BY <1>4 DEF Take
    <3> QED
      BY <2>2, <3>1, <3>2 DEF TypeOK, loopVars, Limit
<1>5. ASSUME NEW r \in Request, AttemptFails(r) \/ Cancel(r) PROVE TypeOK'
  BY <1>0, <1>5 DEF AttemptFails, Cancel, TypeOK, Goto, loopVars, Limit
<1>6. ASSUME NEW r \in Request, GiveUp(r) PROVE TypeOK'
  BY <1>0, <1>6 DEF GiveUp, TypeOK, Goto, loopVars, Limit
<1>7. ASSUME NEW t \in Task, Finish(t) \/ RemoveDropped(t) PROVE TypeOK'
  <2>1. outgoing' = Unbind(outgoing, TokenOf[t])
    BY <1>7 DEF Finish, RemoveDropped, RemoveSender
  <2>2. outgoing' \in [DOMAIN outgoing' -> Task]
    BY <2>1, UnbindType DEF TypeOK
  <2>3. DOMAIN outgoing' \subseteq Token
    BY <2>1 DEF Unbind, Restrict, TypeOK
  <2> QED
    BY <1>7, <2>2, <2>3 DEF Finish, RemoveDropped, TypeOK, Goto, loopVars, Limit
<1>8. ASSUME NEW v \in Receiver, ReceiveNext(v) PROVE TypeOK'
  <2>1. /\ Head(channel[v]) \in Task \cup {Error}
        /\ Tail(channel[v]) \in Seq(Task \cup {Error})
    BY <1>0, <1>8, TailFacts DEF ReceiveNext
  <2>2. /\ channel' \in [Task -> Seq(Task \cup {Error})]
        /\ result' \in [Task -> Task \cup {Error, None}]
    BY <1>0, <1>8, <2>1 DEF ReceiveNext, TypeOK
  <2> QED
    BY <1>8, <2>2 DEF ReceiveNext, TypeOK, loopVars, Limit
<1>9. ASSUME NEW v \in Receiver, ReceiveClosed(v) \/ Drop(v) PROVE TypeOK'
  BY <1>0, <1>9 DEF ReceiveClosed, Drop, TypeOK, Goto, loopVars, Limit
<1>10. ASSUME NEW t \in Task, Receive(t) \/ AckFails(t) PROVE TypeOK'
  BY <1>10 DEF Receive, AckFails, TypeOK, Limit
<1>11. ASSUME GetSender PROVE TypeOK'
  BY <1>11 DEF GetSender, TypeOK, Limit
<1>12. ASSUME Deliver PROVE TypeOK'
  <2>1. packet \in Task /\ sender \in Task
    BY <1>12 DEF Deliver, TypeOK
  <2>2. Append(channel[sender], packet) \in Seq(Task \cup {Error})
    BY <1>0, <2>1, AppendFacts
  <2>3. channel' \in [Task -> Seq(Task \cup {Error})]
    BY <1>12, <2>2 DEF Deliver, Push, TypeOK
  <2> QED
    BY <1>12, <2>3 DEF Deliver, TypeOK, Limit
<1>13. ASSUME SetError PROVE TypeOK'
  BY <1>13 DEF SetError, TypeOK, Limit
<1>14. ASSUME FailAll PROVE TypeOK'
  <2>1. \A t \in Task : Append(channel[t], Error) \in Seq(Task \cup {Error})
    BY <1>0, AppendFacts
  <2>2. channel' \in [Task -> Seq(Task \cup {Error})]
    BY <1>0, <1>14, <2>1 DEF FailAll
  <2> QED
    BY <1>14, <2>2 DEF FailAll, TypeOK, Limit
<1>15. ASSUME DropClient \/ UpgradeFails PROVE TypeOK'
  BY <1>15 DEF DropClient, UpgradeFails, TypeOK, loopVars, Limit
<1>16. ASSUME UNCHANGED vars PROVE TypeOK'
  BY <1>16 DEF vars, TypeOK, Limit
<1> QED
  BY <1>0, <1>1, <1>2, <1>3, <1>4, <1>5, <1>6, <1>7, <1>8, <1>9, <1>10, <1>11,
     <1>12, <1>13, <1>14, <1>15, <1>16
     DEF Next, RequestStep, ReceiverStep, LoopStep, Environment

\* Types hold, and no request is sent more often than its limit.
THEOREM TypeCorrect == Spec => []TypeOK
BY TypeInit, TypeStep, PTL DEF Spec

-----------------------------------------------------------------------------
(* Tokens.                                                                 *)

\* What a task is given carries the token of its own request, though the
\* sender is used after the lock on the registry has been released.
AnswerHasToken ==
    \A t \in Task : result[t] \in Task => TokenOf[result[t]] = TokenOf[t]

\* The parts of TokensAgree and what the tasks have been given.
Registry == \A k \in DOMAIN outgoing : TokenOf[outgoing[k]] = k
Carried == loop = "delivering" => TokenOf[packet] = TokenOf[sender]
Queued == \A t \in Task : \A n \in 1 .. Len(channel[t]) :
            channel[t][n] # Error => TokenOf[channel[t][n]] = TokenOf[t]

\* What the previous lemmas give of the types.
LEMMA Typed ==
    ASSUME TypeOK
    PROVE  /\ Request \subseteq Task /\ Receiver \subseteq Task
           /\ \A t \in Task : channel[t] \in Seq(Task \cup {Error})
           /\ channel = [t \in Task |-> channel[t]]
           /\ result = [t \in Task |-> result[t]]
           /\ pc = [t \in Task |-> pc[t]]
           /\ \A k \in DOMAIN outgoing : outgoing[k] \in Task
           /\ loop = "delivering" => sender \in Task /\ packet \in Task
           /\ loop = "dispatching" => packet \in Task
BY DEF TypeOK, Task

\* Every step that touches the registry keeps tokens and tasks together.
LEMMA RegistryStep ==
    ASSUME TypeOK, [Next]_vars, Registry
    PROVE  Registry'
<1>1. CASE UNCHANGED outgoing
  BY <1>1 DEF Registry
<1>2. ASSUME NEW t \in Task, Insert(t) PROVE Registry'
  BY <1>2 DEF Insert, Bind, Registry
<1>3. ASSUME NEW t \in Task, RemoveSender(t) PROVE Registry'
  BY <1>3 DEF RemoveSender, Unbind, Restrict, Registry
<1>4. CASE FailAll
  BY <1>4 DEF FailAll, Registry
<1> QED
  BY <1>1, <1>2, <1>3, <1>4, Typed
     DEF Next, vars, RequestStep, ReceiverStep, LoopStep, Environment,
         CheckForError, Send, SendFails, Take, AttemptFails, GiveUp, Finish, Cancel,
         ReceiveNext, ReceiveClosed, Drop, RemoveDropped, Receive, AckFails,
         GetSender, Deliver, SetError, DropClient, UpgradeFails

\* The sender the loop has cloned is one for the packet's token, also when it
\* has been replaced in the registry since.
LEMMA CarriedStep ==
    ASSUME TypeOK, [Next]_vars, Registry, Carried
    PROVE  Carried'
<1>1. CASE UNCHANGED <<loop, packet, sender>>
  BY <1>1 DEF Carried
<1>2. CASE GetSender
  BY <1>2 DEF GetSender, Registry, Carried
<1>3. CASE loop' # "delivering"
  BY <1>3 DEF Carried
<1> QED
  BY <1>1, <1>2, <1>3
     DEF Next, vars, loopVars, RequestStep, ReceiverStep, LoopStep, Environment,
         CheckForError, Insert, Send, SendFails, Take, AttemptFails, GiveUp, Finish,
         Cancel, ReceiveNext, ReceiveClosed, Drop, RemoveDropped, Receive, AckFails,
         Deliver, SetError, FailAll, DropClient, UpgradeFails

\* Appending what has the right token keeps Queued, taking the head too.
LEMMA QueuedAppend ==
    ASSUME TypeOK, Queued, NEW t \in Task, NEW x \in Task \cup {Error},
           x # Error => TokenOf[x] = TokenOf[t], channel' = Push(t, x)
    PROVE  Queued'
<1> SUFFICES ASSUME NEW u \in Task, NEW n \in 1 .. Len(channel'[u]),
                    channel'[u][n] # Error
             PROVE  TokenOf[channel'[u][n]] = TokenOf[u]
  BY DEF Queued
<1>1. CASE u = t
  <2>1. channel[t] \in Seq(Task \cup {Error}) /\ channel'[t] = Append(channel[t], x)
    BY Typed DEF Push
  <2>2. channel'[t][n] = x \/ (n \in 1 .. Len(channel[t]) /\ channel'[t][n] = channel[t][n])
    BY <1>1, <2>1, AppendFacts
  <2> QED
    BY <1>1, <2>2 DEF Queued
<1>2. CASE u # t
  BY <1>2, Typed DEF Push, Queued
<1> QED
  BY <1>1, <1>2

LEMMA QueuedTail ==
    ASSUME TypeOK, Queued, NEW t \in Task, channel[t] # <<>>,
           channel' = [channel EXCEPT ![t] = Tail(@)]
    PROVE  Queued'
<1> SUFFICES ASSUME NEW u \in Task, NEW n \in 1 .. Len(channel'[u]),
                    channel'[u][n] # Error
             PROVE  TokenOf[channel'[u][n]] = TokenOf[u]
  BY DEF Queued
<1>1. CASE u = t
  <2>1. channel[t] \in Seq(Task \cup {Error}) /\ channel'[t] = Tail(channel[t])
    BY Typed
  <2>2. n + 1 \in 1 .. Len(channel[t]) /\ channel'[t][n] = channel[t][n + 1]
    BY <1>1, <2>1, TailFacts
  <2> QED
    BY <1>1, <2>2 DEF Queued
<1>2. CASE u # t
  BY <1>2, Typed DEF Queued
<1> QED
  BY <1>1, <1>2

\* What waits in a channel carries its task's token.
LEMMA QueuedStep ==
    ASSUME TypeOK, [Next]_vars, Carried, Queued
    PROVE  Queued'
<1> USE ClientTransportAssumption
<1>1. CASE UNCHANGED channel
  BY <1>1 DEF Queued
<1>2. ASSUME NEW t \in Task, CheckForError(t) PROVE Queued'
  BY <1>1, <1>2, QueuedAppend DEF CheckForError
<1>3. ASSUME NEW t \in Task, Take(t) \/ ReceiveNext(t) PROVE Queued'
  BY <1>3, QueuedTail DEF Take, ReceiveNext
<1>4. CASE Deliver
  <2>1. sender \in Task /\ packet \in Task /\ TokenOf[packet] = TokenOf[sender]
    BY <1>4, Typed DEF Deliver, Carried
  <2> QED
    BY <1>1, <1>4, <2>1, QueuedAppend DEF Deliver
<1>5. CASE FailAll
  <2> SUFFICES ASSUME NEW u \in Task, NEW n \in 1 .. Len(channel'[u]),
                      channel'[u][n] # Error
               PROVE  TokenOf[channel'[u][n]] = TokenOf[u]
    BY DEF Queued
  <2>1. channel[u] \in Seq(Task \cup {Error})
    BY Typed
  <2>2. channel'[u] = Append(channel[u], Error) \/ channel'[u] = channel[u]
    BY <1>5 DEF FailAll
  <2>3. n \in 1 .. Len(channel[u]) /\ channel'[u][n] = channel[u][n]
    BY <2>1, <2>2, AppendFacts
  <2> QED
    BY <2>3 DEF Queued
<1> QED
  BY <1>1, <1>2, <1>3, <1>4, <1>5, Typed
     DEF Next, vars, RequestStep, ReceiverStep, LoopStep, Environment,
         Insert, Send, SendFails, AttemptFails, GiveUp, Finish, Cancel,
         ReceiveClosed, Drop, RemoveDropped, Receive, AckFails,
         GetSender, SetError, DropClient, UpgradeFails

\* TokensAgree is preserved.
LEMMA TokensInit == Init => TokensAgree
BY DEF Init, TokensAgree

LEMMA TokensStep == TypeOK /\ TokensAgree /\ [Next]_vars => TokensAgree'
<1>1. TokensAgree <=> Registry /\ Carried /\ Queued
  BY DEF TokensAgree, Registry, Carried, Queued
<1>2. TokensAgree' <=> Registry' /\ Carried' /\ Queued'
  BY DEF TokensAgree, Registry, Carried, Queued
<1> QED
  BY <1>1, <1>2, RegistryStep, CarriedStep, QueuedStep

\* What is taken out of a channel has the token of its task.
LEMMA AnswerStep ==
    TypeOK /\ TokensAgree /\ AnswerHasToken /\ [Next]_vars => AnswerHasToken'
<1> SUFFICES ASSUME TypeOK, TokensAgree, AnswerHasToken, [Next]_vars
             PROVE  AnswerHasToken'
  OBVIOUS
<1> USE ClientTransportAssumption
<1>1. CASE UNCHANGED result
  BY <1>1 DEF AnswerHasToken
<1>2. ASSUME NEW t \in Task, channel[t] # <<>>,
             result' = [result EXCEPT ![t] = Head(channel[t])]
      PROVE  AnswerHasToken'
  <2>1. /\ Head(channel[t]) \in Task \cup {Error}
        /\ 1 \in 1 .. Len(channel[t]) /\ Head(channel[t]) = channel[t][1]
    BY <1>2, Typed, TailFacts
  <2>2. Head(channel[t]) \in Task => TokenOf[Head(channel[t])] = TokenOf[t]
    BY <2>1 DEF TokensAgree
  <2> QED
    BY <1>2, <2>2, Typed DEF AnswerHasToken
<1>3. ASSUME NEW t \in Task, result' = [result EXCEPT ![t] = Error]
      PROVE  AnswerHasToken'
  BY <1>3, Typed DEF AnswerHasToken
<1>4. ASSUME NEW t \in Task, Take(t) \/ ReceiveNext(t) PROVE AnswerHasToken'
  BY <1>1, <1>2, <1>4 DEF Take, ReceiveNext
<1>5. ASSUME NEW t \in Task, GiveUp(t) \/ ReceiveClosed(t) PROVE AnswerHasToken'
  BY <1>3, <1>5 DEF GiveUp, ReceiveClosed
<1> QED
  BY <1>1, <1>4, <1>5, Typed
     DEF Next, vars, RequestStep, ReceiverStep, LoopStep, Environment,
         CheckForError, Insert, Send, SendFails, AttemptFails, Finish, Cancel,
         Drop, RemoveDropped, Receive, AckFails,
         GetSender, Deliver, SetError, FailAll, DropClient, UpgradeFails

\* Initially nobody has been given anything.
LEMMA AnswerInit == Init => AnswerHasToken
BY ClientTransportAssumption DEF Init, AnswerHasToken

\* A task is given only what carries the token of its own request, whatever
\* happens to the registry while the receive loop holds a clone of a sender.
THEOREM AnswerHasTokenCorrect == Spec => []AnswerHasToken
<1>1. Init => TypeOK /\ TokensAgree /\ AnswerHasToken
  BY TypeInit, TokensInit, AnswerInit
<1>2. TypeOK /\ TokensAgree /\ AnswerHasToken /\ [Next]_vars
        => (TypeOK /\ TokensAgree /\ AnswerHasToken)'
  BY TypeStep, TokensStep, AnswerStep
<1> QED
  BY <1>1, <1>2, PTL DEF Spec

\* A task whose token nobody else uses is given answers to its own request
\* only, whatever tokens other tasks share: what the caller of the client has to
\* see to.
THEOREM UnsharedOwnAnswerCorrect == Spec => []UnsharedOwnAnswer
<1>1. TypeOK /\ AnswerHasToken => UnsharedOwnAnswer
  <2> SUFFICES ASSUME TypeOK, AnswerHasToken, NEW t \in Task, Alone(t)
               PROVE  result[t] \in {t, Error, None}
    BY DEF UnsharedOwnAnswer
  <2>1. result[t] \in Task \cup {Error, None}
    BY DEF TypeOK
  <2> QED
    BY <2>1 DEF AnswerHasToken, Alone
<1> QED
  BY <1>1, TypeCorrect, AnswerHasTokenCorrect, PTL

-----------------------------------------------------------------------------
(* The registry and the tasks.                                             *)

Ended == {"start", "checked", "done"}

\* A task whose sender is registered keeps away from the states in Ended: it
\* leaves them by inserting its sender, and enters them by removing it.
LEMMA NoStaleStep == TypeOK /\ NoStaleSender /\ [Next]_vars => NoStaleSender'
<1> SUFFICES ASSUME TypeOK, NoStaleSender, [Next]_vars PROVE NoStaleSender'
  OBVIOUS
<1>1. ASSUME UNCHANGED outgoing,
             \A u \in Task : pc[u] \notin Ended => pc'[u] \notin Ended
      PROVE  NoStaleSender'
  BY <1>1, Typed DEF NoStaleSender, Ended
<1>2. CASE UNCHANGED <<outgoing, pc>>
  BY <1>2 DEF NoStaleSender
<1>3. ASSUME NEW t \in Task, CheckForError(t) PROVE NoStaleSender'
  <2>1. UNCHANGED outgoing /\ pc[t] = "start" /\ \A u \in Task \ {t} : pc'[u] = pc[u]
    BY <1>3, Typed DEF CheckForError, Goto
  <2> QED
    BY <1>1, <2>1 DEF Ended
<1>4. ASSUME NEW t \in Task, Insert(t) PROVE NoStaleSender'
  <2>1. outgoing' = Bind(outgoing, TokenOf[t], t) /\ pc' = [pc EXCEPT ![t] = "registered"]
    BY <1>4 DEF Insert, Goto
  <2>2. \A u \in Task : pc'[u] = IF u = t THEN "registered" ELSE pc[u]
    BY <2>1, Typed
  <2> QED
    BY <2>1, <2>2, Typed DEF Bind, NoStaleSender
<1>5. ASSUME NEW t \in Task, RemoveSender(t), pc' = [pc EXCEPT ![t] = "done"]
      PROVE  NoStaleSender'
  <2>1. \A u \in Task : u # t => pc'[u] = pc[u]
    BY <1>5, Typed
  <2>2. \A k \in DOMAIN outgoing' :
          k \in DOMAIN outgoing /\ k # TokenOf[t] /\ outgoing'[k] = outgoing[k]
    BY <1>5 DEF RemoveSender, Unbind, Restrict
  <2>3. \A k \in DOMAIN outgoing' : outgoing'[k] # t
    BY <2>2 DEF NoStaleSender
  <2> QED
    BY <2>1, <2>2, <2>3, Typed DEF NoStaleSender
<1>6. ASSUME NEW r \in Request, Finish(r) PROVE NoStaleSender'
  BY <1>5, <1>6, Typed DEF Finish, Goto
<1>7. ASSUME NEW v \in Receiver, RemoveDropped(v) PROVE NoStaleSender'
  BY <1>5, <1>7, Typed DEF RemoveDropped, Goto
<1>8. CASE FailAll
  BY <1>8 DEF FailAll, NoStaleSender
<1>9. ASSUME NEW t \in Task, UNCHANGED outgoing,
             \E l \in {"registered", "waiting", "finished", "cancelled", "dropped"} :
                pc' = [pc EXCEPT ![t] = l]
      PROVE  NoStaleSender'
  <2>1. PICK l \in {"registered", "waiting", "finished", "cancelled", "dropped"} :
          pc' = [pc EXCEPT ![t] = l]
    BY <1>9
  <2>2. \A u \in Task : pc'[u] = IF u = t THEN l ELSE pc[u]
    BY <2>1, Typed
  <2> QED
    BY <1>1, <1>9, <2>2 DEF Ended
<1>10. ASSUME NEW r \in Request, Send(r) \/ Take(r) \/ AttemptFails(r) \/ GiveUp(r) \/ Cancel(r)
       PROVE  NoStaleSender'
  BY <1>9, <1>10, Typed DEF Send, Take, AttemptFails, GiveUp, Cancel, Goto
<1>11. ASSUME NEW v \in Receiver, Drop(v) PROVE NoStaleSender'
  BY <1>9, <1>11, Typed DEF Drop, Goto
<1> QED
  BY <1>2, <1>3, <1>4, <1>6, <1>7, <1>8, <1>10, <1>11, Typed
     DEF Next, vars, RequestStep, ReceiverStep, LoopStep, Environment,
         SendFails, ReceiveNext, ReceiveClosed, Receive, AckFails,
         GetSender, Deliver, SetError, DropClient, UpgradeFails

\* The registry holds no sender of a task that has ended by itself, for any
\* choice of tokens.
THEOREM NoStaleSenderCorrect == Spec => []NoStaleSender
<1>1. Init => TypeOK /\ NoStaleSender
  BY TypeInit DEF Init, NoStaleSender
<1>2. TypeOK /\ NoStaleSender /\ [Next]_vars => (TypeOK /\ NoStaleSender)'
  BY TypeStep, NoStaleStep
<1> QED
  BY <1>1, <1>2, PTL DEF Spec

-----------------------------------------------------------------------------
\* The error is set before the registry is emptied.
LEMMA FailingStep == TypeOK /\ FailingIsKnown /\ [Next]_vars => FailingIsKnown'
BY DEF FailingIsKnown, Next, vars, loopVars, RequestStep, ReceiverStep, LoopStep,
       Environment, CheckForError, Insert, Send, SendFails, Take, AttemptFails, GiveUp,
       Finish, Cancel, ReceiveNext, ReceiveClosed, Drop, RemoveDropped, Receive,
       AckFails, GetSender, Deliver, SetError, FailAll, DropClient, UpgradeFails

Running == {"registered", "waiting", "finished"}

\* No task takes away the sender of one that has a token of its own.
LEMMA StaysStep ==
    TypeOK /\ FailingIsKnown /\ StaysRegistered /\ [Next]_vars => StaysRegistered'
<1> SUFFICES ASSUME TypeOK, FailingIsKnown, StaysRegistered, [Next]_vars
             PROVE  StaysRegistered'
  OBVIOUS
<1>1. ASSUME UNCHANGED outgoing, failError => failError',
             \A u \in Task : pc'[u] \in Running => pc[u] \in Running
      PROVE  StaysRegistered'
  BY <1>1 DEF StaysRegistered, Running
<1>2. CASE UNCHANGED <<outgoing, pc, failError>>
  BY <1>2 DEF StaysRegistered
<1>3. ASSUME NEW t \in Task, CheckForError(t) PROVE StaysRegistered'
  <2>1. CASE failError
    BY <1>3, <2>1 DEF CheckForError, StaysRegistered
  <2>2. CASE ~failError
    <3>1. \A u \in Task : pc'[u] = IF u = t THEN "checked" ELSE pc[u]
      BY <1>3, <2>2, Typed DEF CheckForError, Goto
    <3> QED
      BY <1>1, <1>3, <2>2, <3>1 DEF CheckForError, Running
  <2> QED
    BY <2>1, <2>2
<1>4. ASSUME NEW t \in Task, Insert(t) PROVE StaysRegistered'
  <2>1. outgoing' = Bind(outgoing, TokenOf[t], t) /\ UNCHANGED failError
    BY <1>4 DEF Insert
  <2>2. \A u \in Task : pc'[u] = IF u = t THEN "registered" ELSE pc[u]
    BY <1>4, Typed DEF Insert, Goto
  <2>3. \A u \in Task : u # t /\ Alone(u) => TokenOf[u] # TokenOf[t]
    BY DEF Alone
  <2> QED
    BY <2>1, <2>2, <2>3 DEF Bind, StaysRegistered
<1>5. ASSUME NEW t \in Task, RemoveSender(t), pc' = [pc EXCEPT ![t] = "done"],
             UNCHANGED failError
      PROVE  StaysRegistered'
  <2>1. \A u \in Task : pc'[u] = IF u = t THEN "done" ELSE pc[u]
    BY <1>5, Typed
  <2>2. \A u \in Task : u # t /\ Alone(u) => TokenOf[u] # TokenOf[t]
    BY DEF Alone
  <2>3. \A k \in DOMAIN outgoing \ {TokenOf[t]} :
          k \in DOMAIN outgoing' /\ outgoing'[k] = outgoing[k]
    BY <1>5 DEF RemoveSender, Unbind, Restrict
  <2> QED
    BY <1>5, <2>1, <2>2, <2>3 DEF StaysRegistered
<1>6. ASSUME NEW r \in Request, Finish(r) PROVE StaysRegistered'
  BY <1>5, <1>6, Typed DEF Finish, Goto
<1>7. ASSUME NEW v \in Receiver, RemoveDropped(v) PROVE StaysRegistered'
  BY <1>5, <1>7, Typed DEF RemoveDropped, Goto
<1>8. CASE SetError \/ FailAll
  BY <1>8 DEF SetError, FailAll, FailingIsKnown, StaysRegistered
<1>9. ASSUME NEW t \in Task, UNCHANGED <<outgoing, failError>>,
             NEW l, pc' = [pc EXCEPT ![t] = l], pc[t] \in Running \/ l \notin Running
      PROVE  StaysRegistered'
  <2>1. \A u \in Task : pc'[u] = IF u = t THEN l ELSE pc[u]
    BY <1>9, Typed
  <2> QED
    BY <1>1, <1>9, <2>1
<1>10. ASSUME NEW r \in Request,
              Send(r) \/ Take(r) \/ AttemptFails(r) \/ GiveUp(r)
       PROVE  StaysRegistered'
  BY <1>9, <1>10, Typed DEF Send, Take, AttemptFails, GiveUp, Goto, Running
<1>11. ASSUME NEW t \in Task, Cancel(t) \/ Drop(t) PROVE StaysRegistered'
  BY <1>9, <1>11 DEF Cancel, Drop, Goto, Running
<1> QED
  BY <1>2, <1>3, <1>4, <1>6, <1>7, <1>8, <1>10, <1>11, Typed
     DEF Next, vars, RequestStep, ReceiverStep, LoopStep, Environment,
         SendFails, ReceiveNext, ReceiveClosed, Receive, AckFails,
         GetSender, Deliver, DropClient, UpgradeFails

\* While a task with a token of its own waits nobody removes or replaces its
\* sender, short of a failure of the transport.
THEOREM StaysRegisteredCorrect == Spec => []StaysRegistered
<1>1. Init => TypeOK /\ FailingIsKnown /\ StaysRegistered
  BY TypeInit DEF Init, FailingIsKnown, StaysRegistered
<1>2. TypeOK /\ FailingIsKnown /\ StaysRegistered /\ [Next]_vars
        => (TypeOK /\ FailingIsKnown /\ StaysRegistered)'
  BY TypeStep, FailingStep, StaysStep
<1> QED
  BY <1>1, <1>2, PTL DEF Spec
=============================================================================
