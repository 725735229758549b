---------------------------- MODULE EdhocProofs ----------------------------
(***************************************************************************)
(* What holds of the key exchange for every number of initiators, tasks,   *)
(* identifiers and sessions.  TypeOK is inductive on its own.  The safety  *)
(* properties rest on IInv: what is on the way belongs to what its sender  *)
(* remembers (RequestsAgree, ResponsesAgree), a pending session is the one *)
(* its message_2 announced (SessionsStarted), and a session is in one      *)
(* place at a time: pending, in the hands of one task, or handed over      *)
(* (OnePlace).                                                             *)
(***************************************************************************)
EXTENDS Edhoc, TLAPS

-----------------------------------------------------------------------------
(* Types.                                                                  *)

\* Types hold initially.
LEMMA TypeInit == Init => TypeOK
BY EdhocAssumption DEF Init, TypeOK

\* Binding and unbinding keep the type of a table.
LEMMA BindType ==
    ASSUME NEW S, NEW f, f \in [DOMAIN f -> S], NEW x, NEW v \in S
    PROVE  /\ Bind(f, x, v) \in [DOMAIN Bind(f, x, v) -> S]
           /\ DOMAIN Bind(f, x, v) = DOMAIN f \cup {x}
BY DEF Bind

LEMMA RestrictType ==
    ASSUME NEW S, NEW f, f \in [DOMAIN f -> S], NEW T, T \subseteq DOMAIN f
    PROVE  /\ Restrict(f, T) \in [DOMAIN Restrict(f, T) -> S]
           /\ DOMAIN Restrict(f, T) = T
           /\ \A x \in T : Restrict(f, T)[x] = f[x]
BY DEF Restrict

\* What the types say of a task.
LEMMA TaskTyped ==
    ASSUME TypeOK, NEW t \in Task, task[t] # None
    PROVE  /\ task[t] \in Working
           /\ task[t].request \in Message3
           /\ task[t].pc \in {"checked", "taken", "completed", "notified"}
           /\ task[t].pc = "checked" => task[t].pending = None
           /\ task[t].pc # "checked" => task[t].pending \in PendingSession
           /\ task[t] = [pc |-> task[t].pc, request |-> task[t].request,
                         pending |-> task[t].pending]
BY DEF TypeOK, Working

\* A task moves on, keeping its request and its session.
LEMMA TaskMove ==
    ASSUME TypeOK, NEW t \in Task, task[t] # None, NEW l
    PROVE  [task EXCEPT ![t].pc = l] =
                [task EXCEPT ![t] = [pc |-> l, request |-> task[t].request,
                                     pending |-> task[t].pending]]
<1> DEFINE r == task[t]
           a == task[t].pc
           b == task[t].request
           c == task[t].pending
<1>1. r = [pc |-> a, request |-> b, pending |-> c]
  BY TaskTyped
<1>2. task = [u \in Task |-> task[u]]
  BY DEF TypeOK
<1>3. [task EXCEPT ![t].pc = l] = [task EXCEPT ![t] = [r EXCEPT !.pc = l]]
  BY <1>2
<1> HIDE DEF r, a, b, c
<1>4. [r EXCEPT !.pc = l] = [pc |-> l, request |-> b, pending |-> c]
  BY <1>1
<1>5. [task EXCEPT ![t] = [r EXCEPT !.pc = l]] =
        [task EXCEPT ![t] = [pc |-> l, request |-> b, pending |-> c]]
  BY <1>4
<1>6. [task EXCEPT ![t].pc = l] =
        [task EXCEPT ![t] = [pc |-> l, request |-> b, pending |-> c]]
  BY <1>3, <1>5
<1> QED
  BY <1>6 DEF b, c

\* Every action keeps the types.
LEMMA TypeStep == TypeOK /\ [Next]_vars => TypeOK'
<1> SUFFICES ASSUME TypeOK, [Next]_vars PROVE TypeOK'
  OBVIOUS
<1> USE EdhocAssumption
<1>1. ASSUME NEW i \in Initiator, NEW c \in ConnId, SendMessage1(i, c) PROVE TypeOK'
  <2>1. requests' \subseteq Message1 \cup Message3
    BY <1>1 DEF SendMessage1, TypeOK, Message1
  <2> QED
    BY <1>1, <2>1 DEF SendMessage1, TypeOK, historyVars
<1>2. ASSUME NEW i \in Initiator, NEW m \in responses, ReceiveMessage2(i, m)
      PROVE  TypeOK'
  <2>1. requests' \subseteq Message1 \cup Message3
    BY <1>2 DEF ReceiveMessage2, TypeOK, Message2, Message3, Message4, ErrorMessage
  <2>2. heard' \in [Initiator -> Message2 \cup {None}]
    BY <1>2 DEF ReceiveMessage2, TypeOK, Message2, Message4, ErrorMessage
  <2> QED
    BY <1>2, <2>1, <2>2 DEF ReceiveMessage2, TypeOK, historyVars
<1>3. ASSUME NEW i \in Initiator, NEW m \in responses, ReceiveMessage4(i, m)
      PROVE  TypeOK'
  BY <1>3 DEF ReceiveMessage4, TypeOK, historyVars
<1>4. ASSUME NEW i \in Initiator, SendFails(i) PROVE TypeOK'
  BY <1>4 DEF SendFails, TypeOK, historyVars
<1>5. ASSUME NEW q \in requests, ProcessMessage1(q) PROVE TypeOK'
  <2>1. q.from \in Initiator /\ q.cI \in ConnId
    BY <1>5 DEF ProcessMessage1, TypeOK, Message1, Message3
  <2>2. CASE Free(q.cI) = {}
    <3>1. responses' \subseteq Message2 \cup Message4 \cup ErrorMessage
      BY <1>5, <2>1, <2>2 DEF ProcessMessage1, TypeOK, Respond, Error, ErrorMessage
    <3> QED
      BY <1>5, <2>2, <3>1 DEF ProcessMessage1, TypeOK, historyVars, initiatorVars
  <2>3. CASE Free(q.cI) # {}
    <3>1. /\ sessions < MaxSessions /\ sessions' = sessions + 1
          /\ UNCHANGED <<initiatorVars, completed, task, historyVars>>
      BY <1>5, <2>3 DEF ProcessMessage1
    <3>2. PICK c \in Free(q.cI) :
            /\ pending' = Bind(pending, c, [session |-> sessions', cI |-> q.cI])
            /\ Respond([type |-> "message_2", to |-> q.from,
                        session |-> sessions', cR |-> c])
      BY <1>5, <2>3 DEF ProcessMessage1
    <3>3. sessions' \in Session /\ sessions' \in 0 .. MaxSessions /\ c \in ConnId
      BY <3>1 DEF TypeOK, Session, Free
    <3>4. [session |-> sessions', cI |-> q.cI] \in PendingSession
      BY <2>1, <3>3 DEF PendingSession
    <3>5. pending' \in [DOMAIN pending' -> PendingSession] /\ DOMAIN pending' \subseteq ConnId
      <4> HIDE DEF PendingSession
      <4> QED
        BY <3>2, <3>3, <3>4 DEF TypeOK, Bind
    <3>6. responses' \subseteq Message2 \cup Message4 \cup ErrorMessage
      BY <2>1, <3>2, <3>3 DEF TypeOK, Respond, Message2
    <3> QED
      BY <3>1, <3>3, <3>5, <3>6 DEF TypeOK, historyVars, initiatorVars
  <2> QED
    BY <2>2, <2>3
<1>6. ASSUME NEW q \in requests, NEW t \in Task, CheckCompleted(t, q) PROVE TypeOK'
  <2>1. q \in Message3
    BY <1>6 DEF CheckCompleted, TypeOK, Message1
  <2>2. PICK old \in SUBSET DOMAIN completed :
          completed' = Restrict(completed, DOMAIN completed \ old)
    BY <1>6 DEF CheckCompleted
  <2>3. completed' \in [DOMAIN completed' -> Message4] /\ DOMAIN completed' \subseteq Message3
    BY <2>2 DEF TypeOK, Restrict
  <2>4. responses' \subseteq Message2 \cup Message4 \cup ErrorMessage
    <3>1. q \in DOMAIN completed' => completed'[q] \in Message4
      BY <2>3
    <3>2. IF q \in DOMAIN completed' THEN responses' = responses \cup {completed'[q]}
                                     ELSE UNCHANGED responses
      BY <1>6 DEF CheckCompleted, Respond
    <3> QED
      BY <3>1, <3>2 DEF TypeOK
  <2>5. task' \in [Task -> Working \cup {None}]
    BY <1>6, <2>1 DEF CheckCompleted, TypeOK, Working
  <2> QED
    BY <1>6, <2>3, <2>4, <2>5 DEF CheckCompleted, TypeOK, historyVars, initiatorVars
<1>7. ASSUME NEW t \in Task, TakePending(t) PROVE TypeOK'
  <2>1. /\ task[t] # None /\ task[t].pc = "checked"
        /\ UNCHANGED <<initiatorVars, sessions, completed, served, hooked>>
    BY <1>7 DEF TakePending
  <2>2. task[t].request \in Message3 /\ task[t].request.from \in Initiator
        /\ task[t].request.session \in Session
    BY <2>1, TaskTyped DEF Message3
  <2>3. CASE task[t].request.cR \in DOMAIN pending
    <3>1. /\ task' = [task EXCEPT ![t] =
                        [pc |-> "taken", request |-> task[t].request,
                         pending |-> pending[task[t].request.cR]]]
          /\ RemovePending(task[t].request.cR)
          /\ UNCHANGED <<responses, refused>>
      BY <1>7, <2>3 DEF TakePending
    <3>2. pending[task[t].request.cR] \in PendingSession
      BY <2>3 DEF TypeOK
    <3>4. task' \in [Task -> Working \cup {None}]
      BY <2>2, <3>1, <3>2 DEF TypeOK, Working
    <3>5. pending' \in [DOMAIN pending' -> PendingSession] /\ DOMAIN pending' \subseteq ConnId
      BY <3>1 DEF TypeOK, RemovePending, Unbind, Restrict
    <3> QED
      BY <2>1, <3>1, <3>4, <3>5 DEF TypeOK, initiatorVars
  <2>4. CASE task[t].request.cR \notin DOMAIN pending
    <3>1. /\ task' = [task EXCEPT ![t] = None]
          /\ refused' = refused \cup {task[t].request.session}
          /\ responses' = responses \cup {Error(task[t].request.from)}
          /\ UNCHANGED pending
      BY <1>7, <2>4 DEF TakePending, Respond
    <3>2. Error(task[t].request.from) \in ErrorMessage
      BY <2>2 DEF Error, ErrorMessage
    <3> QED
      BY <2>1, <2>2, <3>1, <3>2 DEF TypeOK, initiatorVars
  <2> QED
    BY <2>3, <2>4
<1>8. ASSUME NEW t \in Task, Verify(t) PROVE TypeOK'
  <2>1. /\ task[t] # None /\ task[t].pc = "taken"
        /\ UNCHANGED <<initiatorVars, sessions, pending, refused, hooked>>
    BY <1>8 DEF Verify
  <2>2. task[t].request \in Message3 /\ task[t].request.from \in Initiator
        /\ task[t].request.session \in Session
        /\ task[t].pending \in PendingSession /\ task[t].pending.session \in Session
    BY <2>1, TaskTyped DEF Message3, PendingSession
  <2>3. CASE Verifies(task[t].request, task[t].pending)
    <3>1. /\ Remember(task[t].request)
          /\ task' = [task EXCEPT ![t].pc = "completed"]
          /\ served' = served \cup {task[t].pending.session}
          /\ UNCHANGED responses
      BY <1>8, <2>3 DEF Verify
    <3>2. [type |-> "message_4", to |-> task[t].request.from,
           session |-> task[t].request.session] \in Message4
      BY <2>2 DEF Message4
    <3>3. completed' \in [DOMAIN completed' -> Message4]
          /\ DOMAIN completed' \subseteq Message3
      <4> HIDE DEF Message3, Message4
      <4> QED
        BY <2>2, <3>1, <3>2 DEF TypeOK, Remember, Bind
    <3>4. task' = [task EXCEPT ![t] =
                     [pc |-> "completed", request |-> task[t].request,
                      pending |-> task[t].pending]]
      BY <2>1, <3>1, TaskMove
    <3>5. task' \in [Task -> Working \cup {None}]
      BY <2>2, <3>4 DEF TypeOK, Working
    <3> QED
      BY <2>1, <2>2, <3>1, <3>3, <3>5 DEF TypeOK, initiatorVars
  <2>4. CASE ~Verifies(task[t].request, task[t].pending)
    <3>1. /\ task' = [task EXCEPT ![t] = None]
          /\ responses' = responses \cup {Error(task[t].request.from)}
          /\ UNCHANGED <<completed, served>>
      BY <1>8, <2>4 DEF Verify, Respond
    <3>2. Error(task[t].request.from) \in ErrorMessage
      BY <2>2 DEF Error, ErrorMessage
    <3> QED
      BY <2>1, <3>1, <3>2 DEF TypeOK, initiatorVars
  <2> QED
    BY <2>3, <2>4
<1>9. ASSUME NEW t \in Task, Notify(t) PROVE TypeOK'
  <2> DEFINE h == SecretsOf(task[t].request, task[t].pending)
             n == IF h \in DOMAIN hooked THEN hooked[h] + 1 ELSE 1
  <2>1. /\ task[t] # None /\ task[t].pc = "completed"
        /\ hooked' = Bind(hooked, h, n)
        /\ task' = [task EXCEPT ![t].pc = "notified"]
        /\ UNCHANGED <<initiatorVars, responses, sessions, pending, completed,
                       served, refused>>
    BY <1>9 DEF Notify
  <2>2. task[t].request \in Message3 /\ task[t].pending \in PendingSession
    BY <2>1, TaskTyped
  <2>3. h \in Secrets /\ n \in Nat
    BY <2>2 DEF SecretsOf, Secrets, Message3, PendingSession, TypeOK
  <2>4. hooked' \in [DOMAIN hooked' -> Nat] /\ DOMAIN hooked' \subseteq Secrets
    <3> HIDE DEF h, n
    <3> QED
      BY <2>1, <2>3 DEF TypeOK, Bind
  <2>5. task' = [task EXCEPT ![t] =
                   [pc |-> "notified", request |-> task[t].request,
                    pending |-> task[t].pending]]
    BY <2>1, TaskMove
  <2>6. task' \in [Task -> Working \cup {None}]
    BY <2>2, <2>5 DEF TypeOK, Working
  <2> QED
    BY <2>1, <2>4, <2>6 DEF TypeOK, initiatorVars
<1>10. ASSUME NEW t \in Task, Answer(t) PROVE TypeOK'
  <2>1. task[t] # None
    BY <1>10 DEF Answer
  <2>2. responses' \subseteq Message2 \cup Message4 \cup ErrorMessage
    BY <1>10, <2>1, TaskTyped DEF Answer, TypeOK, Respond, Message3, Message4
  <2> QED
    BY <1>10, <2>2 DEF Answer, TypeOK, initiatorVars, historyVars
<1>11. CASE UNCHANGED vars
  BY <1>11 DEF vars, TypeOK
<1> QED
  BY <1>1, <1>2, <1>3, <1>4, <1>5, <1>6, <1>7, <1>8, <1>9, <1>10, <1>11
     DEF Next, InitiatorStep, Receive, TaskStep

\* Types hold.
THEOREM TypeCorrect == Spec => []TypeOK
BY TypeInit, TypeStep, PTL DEF Spec

-----------------------------------------------------------------------------
(* The invariant.                                                          *)

\* It holds initially.
LEMMA IInvInit == Init => IInv
<1> SUFFICES ASSUME Init PROVE IInv
  OBVIOUS
<1>1. TypeOK
  BY TypeInit
<1>2. RequestsAgree /\ ResponsesAgree
  BY DEF Init, RequestsAgree, ResponsesAgree
<1>3. SessionsStarted /\ TasksAgree /\ OnePlace
  BY DEF Init, SessionsStarted, TasksAgree, OnePlace, Holds
<1>4. SecretsAgree /\ HookOnce /\ IdentifiersDiffer
  BY DEF Init, SecretsAgree, HookOnce, IdentifiersDiffer
<1> QED
  BY <1>1, <1>2, <1>3, <1>4 DEF IInv

\* What an initiator has chosen or accepted stays.
InitiatorsKeep ==
    \A i \in Initiator :
       /\ phase[i] # "start" => phase'[i] # "start" /\ cI'[i] = cI[i]
       /\ phase[i] \notin {"start", "sent1"} => phase'[i] \notin {"start", "sent1"}
       /\ heard[i] # None => heard'[i] = heard[i]

\* Nothing that was sent or served is taken back.
Kept ==
    /\ requests \subseteq requests'
    /\ responses \subseteq responses'
    /\ served \subseteq served'
    /\ sessions <= sessions'
    /\ InitiatorsKeep

LEMMA Monotone ==
    ASSUME TypeOK, RequestsAgree, [Next]_vars
    PROVE  Kept
<1>1. sessions \in Nat
  BY EdhocAssumption DEF TypeOK
<1>2. ASSUME NEW i \in Initiator, InitiatorStep(i)
      PROVE  Kept
  <2>1. UNCHANGED <<responses, sessions, served>>
    BY <1>2 DEF InitiatorStep, SendMessage1, ReceiveMessage2, ReceiveMessage4,
                SendFails, historyVars
  <2>2. requests \subseteq requests'
    BY <1>2 DEF InitiatorStep, SendMessage1, ReceiveMessage2, ReceiveMessage4, SendFails
  <2>3. InitiatorsKeep
    <3>1. ASSUME NEW c \in ConnId, SendMessage1(i, c) PROVE InitiatorsKeep
      BY <3>1 DEF SendMessage1, TypeOK, InitiatorsKeep
    <3>2. ASSUME NEW m \in responses, ReceiveMessage2(i, m) PROVE InitiatorsKeep
      BY <3>2 DEF ReceiveMessage2, TypeOK, RequestsAgree, InitiatorsKeep
    <3>3. ASSUME NEW m \in responses, ReceiveMessage4(i, m) PROVE InitiatorsKeep
      BY <3>3 DEF ReceiveMessage4, TypeOK, InitiatorsKeep
    <3>4. CASE SendFails(i)
      BY <3>4 DEF SendFails, TypeOK, InitiatorsKeep
    <3> QED
      BY <1>2, <3>1, <3>2, <3>3, <3>4 DEF InitiatorStep
  <2> QED
    BY <1>1, <2>1, <2>2, <2>3 DEF Kept
<1>3. ASSUME UNCHANGED initiatorVars, responses \subseteq responses',
             served \subseteq served', sessions <= sessions'
      PROVE  Kept
  BY <1>3 DEF initiatorVars, Kept, InitiatorsKeep
<1>4. ASSUME NEW q \in requests, ProcessMessage1(q) PROVE Kept
  BY <1>1, <1>3, <1>4 DEF ProcessMessage1, Respond, historyVars
<1>5. ASSUME NEW q \in requests, NEW t \in Task, CheckCompleted(t, q) PROVE Kept
  BY <1>1, <1>3, <1>5 DEF CheckCompleted, Respond, historyVars
<1>6. ASSUME NEW t \in Task, TaskStep(t) PROVE Kept
  BY <1>1, <1>3, <1>6
     DEF TaskStep, TakePending, Verify, Notify, Answer, Respond, historyVars
<1>7. CASE UNCHANGED vars
  BY <1>1, <1>3, <1>7 DEF vars, initiatorVars
<1> QED
  BY <1>2, <1>4, <1>5, <1>6, <1>7 DEF Next, Receive

\* A message of a given type is of that type's record set.
LEMMA Typed ==
    ASSUME TypeOK
    PROVE  /\ \A q \in requests : /\ q.from \in Initiator
                                  /\ q.type = "message_1" => q \in Message1
                                  /\ q.type = "message_3" => q \in Message3
           /\ \A m \in responses : /\ m.to \in Initiator
                                   /\ m.type = "message_2" => m \in Message2
                                   /\ m.type = "message_4" => m \in Message4
           /\ Session \subseteq Nat
           /\ sessions \in Nat
BY EdhocAssumption DEF TypeOK, Message1, Message2, Message3, Message4, ErrorMessage,
                       Session

LEMMA RequestsStep ==
    ASSUME TypeOK, RequestsAgree, [Next]_vars
    PROVE  RequestsAgree'
<1>1. ASSUME NEW i \in Initiator, NEW c \in ConnId, SendMessage1(i, c)
      PROVE  RequestsAgree'
  <2>1. \A q \in requests : q.from # i
    BY <1>1 DEF SendMessage1, RequestsAgree
  <2> QED
    BY <1>1, <2>1, Typed DEF SendMessage1, RequestsAgree, TypeOK
<1>2. ASSUME NEW i \in Initiator, NEW m \in responses, ReceiveMessage2(i, m)
      PROVE  RequestsAgree'
  <2>1. phase[i] = "sent1" /\ m.to = i /\ heard[i] = None
        /\ UNCHANGED <<cI, responses>>
    BY <1>2 DEF ReceiveMessage2, RequestsAgree
  <2>2. CASE m.type = "message_2"
    <3>1. /\ phase' = [phase EXCEPT ![i] = "sent3"]
          /\ heard' = [heard EXCEPT ![i] = m]
          /\ requests' = requests \cup
               {[type |-> "message_3", from |-> i, session |-> m.session, cR |-> m.cR]}
      BY <1>2, <2>2 DEF ReceiveMessage2, ExpectChanged
    <3>2. m \in Message2 /\ m # None
      BY <2>2, Typed, NoneAssumption
    <3>3. \A q \in requests : q.from = i => q.type # "message_3"
      BY <2>1 DEF RequestsAgree
    <3> QED
      BY <2>1, <3>1, <3>2, <3>3, Typed DEF RequestsAgree, TypeOK
  <2>3. CASE m.type # "message_2"
    BY <1>2, <2>1, <2>3, Typed DEF ReceiveMessage2, RequestsAgree, TypeOK
  <2> QED
    BY <2>2, <2>3
<1>3. ASSUME NEW i \in Initiator, NEW m \in responses, ReceiveMessage4(i, m)
      PROVE  RequestsAgree'
  BY <1>3, Typed DEF ReceiveMessage4, RequestsAgree, TypeOK
<1>4. ASSUME NEW i \in Initiator, SendFails(i)
      PROVE  RequestsAgree'
  BY <1>4, Typed DEF SendFails, RequestsAgree, TypeOK
<1>5. ASSUME UNCHANGED initiatorVars, responses \subseteq responses'
      PROVE  RequestsAgree'
  BY <1>5 DEF initiatorVars, RequestsAgree
<1>6. CASE Receive
  BY <1>5, <1>6 DEF Receive, ProcessMessage1, CheckCompleted, Respond
<1>7. ASSUME NEW t \in Task, TaskStep(t) PROVE RequestsAgree'
  BY <1>5, <1>7 DEF TaskStep, TakePending, Verify, Notify, Answer, Respond
<1>8. CASE UNCHANGED vars
  BY <1>5, <1>8 DEF vars, initiatorVars
<1> QED
  BY <1>1, <1>2, <1>3, <1>4, <1>6, <1>7, <1>8 DEF Next, InitiatorStep

\* Anything but a message_2 may be sent, a message_4 of a served session only.
LEMMA SendOther ==
    ASSUME TypeOK, ResponsesAgree, Kept, sessions' \in Nat, NEW m,
           responses' = responses \cup {m}, m.type # "message_2",
           m.type = "message_4" => m.session \in served
    PROVE  ResponsesAgree'
BY Typed DEF ResponsesAgree, Kept, InitiatorsKeep, Message2

LEMMA ResponsesStep ==
    ASSUME TypeOK, TypeOK', RequestsAgree, ResponsesAgree, TasksAgree, [Next]_vars
    PROVE  ResponsesAgree'
<1>1. Kept /\ sessions' \in Nat
  BY Monotone, EdhocAssumption DEF TypeOK
<1>2. ASSUME UNCHANGED responses PROVE ResponsesAgree'
  BY <1>1, <1>2, Typed DEF ResponsesAgree, Kept, InitiatorsKeep, Message2
<1>3. ASSUME NEW i, responses' = responses \cup {Error(i)} PROVE ResponsesAgree'
  <2>1. Error(i).type = "error"
    BY DEF Error
  <2> QED
    BY <1>1, <1>3, <2>1, SendOther
<1>4. ASSUME NEW q \in requests, ProcessMessage1(q) PROVE ResponsesAgree'
  <2>1. CASE Free(q.cI) = {}
    BY <1>3, <1>4, <2>1 DEF ProcessMessage1, Respond
  <2>2. CASE Free(q.cI) # {}
    <3>1. PICK c \in Free(q.cI) :
             responses' = responses \cup
                {[type |-> "message_2", to |-> q.from, session |-> sessions', cR |-> c]}
      BY <1>4, <2>2 DEF ProcessMessage1, Respond
    <3>2. sessions' = sessions + 1 /\ UNCHANGED <<phase, served>>
      BY <1>4, <2>2 DEF ProcessMessage1, initiatorVars, historyVars
    <3>3. phase[q.from] # "start"
      BY DEF RequestsAgree
    <3>4. \A m \in responses : m.type = "message_2" => m.session \in Nat
                                                       /\ m.session <= sessions
      BY Typed DEF ResponsesAgree, Message2
    <3> QED
      BY <3>1, <3>2, <3>3, <3>4, Typed DEF ResponsesAgree
  <2> QED
    BY <2>1, <2>2
<1>5. ASSUME NEW q \in requests, NEW t \in Task, CheckCompleted(t, q)
      PROVE  ResponsesAgree'
  <2>1. CASE q \in DOMAIN completed'
    <3>1. responses' = responses \cup {completed'[q]}
      BY <1>5, <2>1 DEF CheckCompleted, Respond
    <3>2. q \in DOMAIN completed /\ completed'[q] = completed[q]
      BY <1>5, <2>1 DEF CheckCompleted, Restrict
    <3>3. completed[q] \in Message4 /\ completed[q].session \in served
      BY <3>2 DEF TypeOK, TasksAgree
    <3> QED
      BY <1>1, <3>1, <3>2, <3>3, SendOther DEF Message4
  <2>2. CASE q \notin DOMAIN completed'
    BY <1>2, <1>5, <2>2 DEF CheckCompleted
  <2> QED
    BY <2>1, <2>2
<1>6. ASSUME NEW t \in Task, TakePending(t) PROVE ResponsesAgree'
  BY <1>2, <1>3, <1>6 DEF TakePending, Respond
<1>7. ASSUME NEW t \in Task, Verify(t) PROVE ResponsesAgree'
  BY <1>2, <1>3, <1>7 DEF Verify, Respond
<1>8. ASSUME NEW t \in Task, Answer(t) PROVE ResponsesAgree'
  <2>1. task[t].request.session \in served
    BY <1>8 DEF Answer, TasksAgree, Verifies, Lookup
  <2> DEFINE m == [type |-> "message_4", to |-> task[t].request.from,
                   session |-> task[t].request.session]
  <2>2. responses' = responses \cup {m}
    BY <1>8 DEF Answer, Respond
  <2>3. m.type = "message_4" /\ m.session \in served
    BY <2>1
  <2> HIDE DEF m
  <2> QED
    BY <1>1, <2>2, <2>3, SendOther
<1>9. ASSUME NEW i \in Initiator, InitiatorStep(i) PROVE UNCHANGED responses
  BY <1>9 DEF InitiatorStep, SendMessage1, ReceiveMessage2, ReceiveMessage4, SendFails
<1>10. ASSUME NEW t \in Task, Notify(t) PROVE UNCHANGED responses
  BY <1>10 DEF Notify
<1> QED
  BY <1>2, <1>4, <1>5, <1>6, <1>7, <1>8, <1>9, <1>10
     DEF Next, Receive, TaskStep, vars

-----------------------------------------------------------------------------
(* Steps of the responder.                                                 *)

\* Only message_1 and message_3 change what the responder keeps.
LEMMA OthersKeep ==
    ASSUME NEW i \in Initiator, InitiatorStep(i)
    PROVE  UNCHANGED <<responses, sessions, pending, completed, task, served,
                       refused, hooked>>
BY DEF InitiatorStep, SendMessage1, ReceiveMessage2, ReceiveMessage4, SendFails,
       historyVars

\* A session that was started stays so.
LEMMA StartedStays ==
    ASSUME TypeOK, ResponsesAgree, Kept, NEW s, NEW c, Started(s, c)
    PROVE  Started(s, c)'
<1>1. PICK m \in responses : /\ m.type = "message_2" /\ m.session = s.session
                             /\ m.cR = c /\ cI[m.to] = s.cI
  BY DEF Started
<1>2. m.to \in Initiator /\ phase[m.to] # "start"
  BY <1>1, Typed DEF ResponsesAgree
<1> QED
  BY <1>1, <1>2 DEF Started, Kept, InitiatorsKeep

\* No session is started or taken; a task keeps its session or drops it.
Quiet ==
    /\ UNCHANGED pending
    /\ \A t \in Task :
         Holds(t)' => /\ Holds(t)
                      /\ task'[t].request = task[t].request
                      /\ task'[t].pending = task[t].pending
                      /\ task'[t].pc # "notified" => task[t].pc # "notified"

\* Every other step of the responder, and every step of an initiator, is so.
LEMMA QuietSteps ==
    ASSUME TypeOK, [Next]_vars
    PROVE  \/ \E q \in requests : Free(q.cI) # {} /\ ProcessMessage1(q)
           \/ \E t \in Task : task[t].request.cR \in DOMAIN pending /\ TakePending(t)
           \/ Quiet
<1>1. ASSUME UNCHANGED <<pending, task>> PROVE Quiet
  BY <1>1 DEF Quiet, Holds
<1>2. ASSUME NEW q \in requests, ProcessMessage1(q), Free(q.cI) = {} PROVE Quiet
  BY <1>1, <1>2 DEF ProcessMessage1
<1>3. ASSUME NEW t \in Task, NEW q \in requests, CheckCompleted(t, q) PROVE Quiet
  BY <1>3 DEF CheckCompleted, TypeOK, Holds, Quiet
<1>4. ASSUME NEW t \in Task, TakePending(t), task[t].request.cR \notin DOMAIN pending
      PROVE  Quiet
  BY <1>4 DEF TakePending, TypeOK, Holds, Quiet
<1>5. ASSUME NEW t \in Task, Verify(t) PROVE Quiet
  <2>1. task[t] # None /\ task[t].pc = "taken" /\ UNCHANGED pending
    BY <1>5 DEF Verify
  <2>2. \/ task' = [task EXCEPT ![t] = None]
        \/ task' = [task EXCEPT ![t].pc = "completed"]
    BY <1>5 DEF Verify
  <2>3. \/ task' = [task EXCEPT ![t] = None]
        \/ task' = [task EXCEPT ![t] = [pc |-> "completed",
                      request |-> task[t].request, pending |-> task[t].pending]]
    BY <2>1, <2>2, TaskMove
  <2> QED
    BY <2>1, <2>3 DEF TypeOK, Holds, Quiet
<1>6. ASSUME NEW t \in Task, Notify(t) PROVE Quiet
  <2>1. task[t] # None /\ task[t].pc = "completed" /\ UNCHANGED pending
        /\ task' = [task EXCEPT ![t].pc = "notified"]
    BY <1>6 DEF Notify
  <2>2. task' = [task EXCEPT ![t] = [pc |-> "notified",
                   request |-> task[t].request, pending |-> task[t].pending]]
    BY <2>1, TaskMove
  <2>3. /\ task'[t] = [pc |-> "notified", request |-> task[t].request,
                        pending |-> task[t].pending]
        /\ \A u \in Task \ {t} : task'[u] = task[u]
    BY <2>2 DEF TypeOK
  <2>4. Holds(t)
    BY <2>1 DEF Holds
  <2> QED
    BY <2>1, <2>3, <2>4 DEF Holds, Quiet
<1>7. ASSUME NEW t \in Task, Answer(t) PROVE Quiet
  BY <1>7 DEF Answer, TypeOK, Holds, Quiet
<1>8. ASSUME NEW i \in Initiator, InitiatorStep(i) PROVE Quiet
  BY <1>1, <1>8, OthersKeep
<1>9. CASE UNCHANGED vars
  BY <1>1, <1>9 DEF vars
<1> QED
  BY <1>2, <1>3, <1>4, <1>5, <1>6, <1>7, <1>8, <1>9 DEF Next, Receive, TaskStep

\* A new session gets an identifier that is not in use.
LEMMA NewSession ==
    ASSUME TypeOK, RequestsAgree, NEW q \in requests, Free(q.cI) # {},
           ProcessMessage1(q)
    PROVE  \E c \in ConnId, s \in [session : {sessions + 1}, cI : {q.cI}] :
              /\ c # q.cI /\ c \notin DOMAIN pending
              /\ DOMAIN pending' = DOMAIN pending \cup {c}
              /\ pending'[c] = s
              /\ \A d \in DOMAIN pending : pending'[d] = pending[d]
              /\ UNCHANGED <<task, hooked>>
              /\ Started(s, c)'
<1>1. q.cI = cI[q.from] /\ UNCHANGED <<cI, task, hooked>> /\ sessions' = sessions + 1
  BY DEF ProcessMessage1, RequestsAgree, initiatorVars, historyVars
<1>2. PICK c \in Free(q.cI) :
         /\ pending' = Bind(pending, c, [session |-> sessions', cI |-> q.cI])
         /\ responses' = responses \cup
              {[type |-> "message_2", to |-> q.from, session |-> sessions', cR |-> c]}
  BY DEF ProcessMessage1, Respond
<1>3. c \in ConnId /\ c # q.cI /\ c \notin DOMAIN pending
  BY DEF Free
<1>4. PICK s \in [session : {sessions + 1}, cI : {q.cI}] :
         s = [session |-> sessions + 1, cI |-> q.cI]
  OBVIOUS
<1>5. Started(s, c)'
  <2>1. [type |-> "message_2", to |-> q.from, session |-> sessions', cR |-> c]
          \in responses'
    BY <1>2
  <2> QED
    BY <1>1, <1>3, <1>4, <2>1 DEF Started
<1>6. /\ DOMAIN pending' = DOMAIN pending \cup {c}
      /\ pending'[c] = s
      /\ \A d \in DOMAIN pending : pending'[d] = pending[d]
  BY <1>1, <1>2, <1>3, <1>4 DEF Bind
<1> QED
  BY <1>1, <1>3, <1>4, <1>5, <1>6

\* The session that a message_3 names goes from the table to its task.
LEMMA SessionTaken ==
    ASSUME TypeOK, NEW t \in Task, task[t].request.cR \in DOMAIN pending,
           TakePending(t)
    PROVE  /\ DOMAIN pending' = DOMAIN pending \ {task[t].request.cR}
           /\ \A d \in DOMAIN pending' : pending'[d] = pending[d]
           /\ ~Holds(t) /\ Holds(t)' /\ task'[t].pc = "taken"
           /\ task'[t].request = task[t].request
           /\ task'[t].pending = pending[task[t].request.cR]
           /\ \A u \in Task \ {t} : task'[u] = task[u]
           /\ UNCHANGED hooked
<1>1. /\ task' = [task EXCEPT ![t] =
                    [pc |-> "taken", request |-> task[t].request,
                     pending |-> pending[task[t].request.cR]]]
      /\ pending' = Unbind(pending, task[t].request.cR)
      /\ task[t] # None /\ task[t].pc = "checked" /\ UNCHANGED hooked
  BY DEF TakePending, RemovePending
<1>2. /\ task'[t] = [pc |-> "taken", request |-> task[t].request,
                     pending |-> pending[task[t].request.cR]]
      /\ \A u \in Task \ {t} : task'[u] = task[u]
  BY <1>1 DEF TypeOK
<1>3. task'[t] # None
  <2>1. task[t].request \in Message3 /\ pending[task[t].request.cR] \in PendingSession
    BY <1>1, TaskTyped DEF TypeOK
  <2> QED
    BY <1>2, <2>1, NoneAssumption DEF Working
<1> QED
  BY <1>1, <1>2, <1>3 DEF Holds, Unbind, Restrict

\* Pending and taken sessions are the ones their message_2 announced.
LEMMA SessionsStep ==
    ASSUME TypeOK, RequestsAgree, ResponsesAgree, SessionsStarted, [Next]_vars
    PROVE  SessionsStarted'
<1>1. Kept
  BY Monotone
<1>2. \A s, c : Started(s, c) => Started(s, c)'
  <2>1. ASSUME NEW s, NEW c, Started(s, c) PROVE Started(s, c)'
    BY <1>1, <2>1, StartedStays
  <2> QED
    BY <2>1
<1>3. /\ \A c \in DOMAIN pending : \A s : s = pending[c] => Started(s, c)'
      /\ \A t \in Task : \A s, c : Holds(t) /\ s = task[t].pending /\ c = task[t].request.cR
           => Started(s, c)'
  BY <1>2 DEF SessionsStarted
<1>4. SUFFICES
        /\ \A c \in DOMAIN pending' : \A s : s = pending'[c] => Started(s, c)'
        /\ \A t \in Task : \A s, c :
             Holds(t)' /\ s = task'[t].pending /\ c = task'[t].request.cR
               => Started(s, c)'
  BY DEF SessionsStarted
<1>5. ASSUME NEW q \in requests, Free(q.cI) # {}, ProcessMessage1(q)
      PROVE  /\ \A c \in DOMAIN pending' : \A s : s = pending'[c] => Started(s, c)'
             /\ UNCHANGED task
  BY <1>3, <1>5, NewSession
<1>6. ASSUME NEW t \in Task, task[t].request.cR \in DOMAIN pending, TakePending(t)
      PROVE  <1>4!1
  <2>1. /\ DOMAIN pending' = DOMAIN pending \ {task[t].request.cR}
        /\ \A d \in DOMAIN pending' : pending'[d] = pending[d]
        /\ task'[t].request = task[t].request
        /\ task'[t].pending = pending[task[t].request.cR]
        /\ \A u \in Task \ {t} : task'[u] = task[u]
    BY <1>6, SessionTaken
  <2>2. \A u \in Task \ {t} : Holds(u)' => Holds(u)
    BY <2>1 DEF Holds
  <2> QED
    BY <1>3, <1>6, <2>1, <2>2
<1>7. CASE Quiet
  BY <1>3, <1>7 DEF Quiet
<1>8. UNCHANGED task => \A t \in Task : Holds(t)' => Holds(t)
  BY DEF Holds
<1> QED
  BY <1>3, <1>5, <1>6, <1>7, <1>8, QuietSteps

\* What tasks and the completed sessions hold has been verified.
LEMMA TasksStep ==
    ASSUME TypeOK, RequestsAgree, TasksAgree, [Next]_vars
    PROVE  TasksAgree'
<1>1. requests \subseteq requests' /\ served \subseteq served'
  BY Monotone DEF Kept
<1>2. ASSUME UNCHANGED <<task, completed>> PROVE TasksAgree'
  BY <1>1, <1>2 DEF TasksAgree, Verifies, Lookup
<1>3. ASSUME NEW t \in Task, NEW q \in requests, CheckCompleted(t, q) PROVE TasksAgree'
  <2>1. \/ UNCHANGED task
        \/ task' = [task EXCEPT ![t] = [pc |-> "checked", request |-> q, pending |-> None]]
    BY <1>3 DEF CheckCompleted
  <2>2. \A r \in DOMAIN completed' : r \in DOMAIN completed /\ completed'[r] = completed[r]
    BY <1>3 DEF CheckCompleted, Restrict
  <2>3. \A r \in DOMAIN completed' : completed'[r].session \in served'
    BY <1>1, <2>2 DEF TasksAgree
  <2> QED
    BY <1>1, <2>1, <2>3 DEF TasksAgree, Verifies, Lookup, TypeOK
<1>4. ASSUME NEW t \in Task, TakePending(t) PROVE TasksAgree'
  <2>1. \/ task' = [task EXCEPT ![t] = None]
        \/ task' = [task EXCEPT ![t] = [pc |-> "taken", request |-> task[t].request,
                                        pending |-> pending[task[t].request.cR]]]
    BY <1>4 DEF TakePending
  <2>2. UNCHANGED completed /\ task[t] # None
    BY <1>4 DEF TakePending
  <2> QED
    BY <1>1, <2>1, <2>2 DEF TasksAgree, Verifies, Lookup, TypeOK
<1>5. ASSUME NEW t \in Task, Verify(t) PROVE TasksAgree'
  <2>1. task[t] # None /\ task[t].pc = "taken"
    BY <1>5 DEF Verify
  <2>2. CASE Verifies(task[t].request, task[t].pending)
    <3>1. /\ Remember(task[t].request)
          /\ task' = [task EXCEPT ![t].pc = "completed"]
          /\ served' = served \cup {task[t].pending.session}
      BY <1>5, <2>2 DEF Verify
    <3>2. task' = [task EXCEPT ![t] = [pc |-> "completed",
                     request |-> task[t].request, pending |-> task[t].pending]]
      BY <2>1, <3>1, TaskMove
    <3>3. task[t].request.session \in served'
      BY <2>2, <3>1 DEF Verifies, Lookup
    <3>4. \A r \in DOMAIN completed' : completed'[r].session \in served'
      BY <1>1, <3>1, <3>3 DEF Remember, Bind, TasksAgree
    <3>5. task[t].request \in requests'
      BY <1>1, <2>1 DEF TasksAgree
    <3> QED
      BY <1>1, <2>2, <3>1, <3>2, <3>4, <3>5 DEF TasksAgree, Verifies, Lookup, TypeOK
  <2>3. CASE ~Verifies(task[t].request, task[t].pending)
    BY <1>1, <1>5, <2>3 DEF Verify, TasksAgree, Verifies, Lookup, TypeOK
  <2> QED
    BY <2>2, <2>3
<1>6. ASSUME NEW t \in Task, Notify(t) PROVE TasksAgree'
  <2>1. task[t] # None /\ task[t].pc = "completed" /\ UNCHANGED completed
        /\ task' = [task EXCEPT ![t].pc = "notified"]
    BY <1>6 DEF Notify
  <2>2. task' = [task EXCEPT ![t] = [pc |-> "notified",
                   request |-> task[t].request, pending |-> task[t].pending]]
    BY <2>1, TaskMove
  <2> QED
    BY <1>1, <2>1, <2>2 DEF TasksAgree, Verifies, Lookup, TypeOK
<1>7. ASSUME NEW t \in Task, Answer(t) PROVE TasksAgree'
  BY <1>1, <1>7 DEF Answer, TasksAgree, Verifies, Lookup, TypeOK
<1>8. ASSUME NEW i \in Initiator, InitiatorStep(i) PROVE TasksAgree'
  BY <1>2, <1>8, OthersKeep
<1>9. ASSUME NEW q \in requests, ProcessMessage1(q) PROVE TasksAgree'
  BY <1>2, <1>9 DEF ProcessMessage1
<1>10. CASE UNCHANGED vars
  BY <1>2, <1>10 DEF vars
<1> QED
  BY <1>3, <1>4, <1>5, <1>6, <1>7, <1>8, <1>9, <1>10 DEF Next, Receive, TaskStep

\* The sessions there are have been started already.
LEMMA SessionsBounded ==
    ASSUME TypeOK, RequestsAgree, ResponsesAgree, SessionsStarted, SecretsAgree
    PROVE  /\ \A c \in DOMAIN pending : pending[c].session <= sessions
           /\ \A t \in Task : Holds(t) => task[t].pending.session <= sessions
           /\ \A h \in DOMAIN hooked : h.session <= sessions
<1>1. \A s, c : Started(s, c) => s.session <= sessions
  BY DEF Started, ResponsesAgree
<1>2. ASSUME NEW h \in DOMAIN hooked PROVE h.session <= sessions
  <2>1. h.peer \in Initiator
    BY DEF TypeOK, Secrets
  <2>2. heard[h.peer] \in responses /\ h.session = heard[h.peer].session
        /\ heard[h.peer] # None
    BY <2>1 DEF SecretsAgree, RequestsAgree, PeerSecrets
  <2>3. heard[h.peer].type = "message_2"
    BY <2>1, <2>2 DEF TypeOK, Message2
  <2> QED
    BY <2>2, <2>3 DEF ResponsesAgree
<1> QED
  BY <1>1, <1>2 DEF SessionsStarted

\* What the hook is given when it is called.
LEMMA HookCalled ==
    ASSUME TypeOK, NEW t \in Task, Notify(t)
    PROVE  /\ Holds(t) /\ task[t].pc = "completed"
           /\ DOMAIN hooked' = DOMAIN hooked \cup
                {SecretsOf(task[t].request, task[t].pending)}
           /\ \A h \in DOMAIN hooked' :
                IF h = SecretsOf(task[t].request, task[t].pending)
                THEN hooked'[h] = IF h \in DOMAIN hooked THEN hooked[h] + 1 ELSE 1
                ELSE hooked'[h] = hooked[h]
           /\ Holds(t)' /\ task'[t].pc = "notified"
           /\ UNCHANGED <<initiatorVars, pending>>
<1> DEFINE h == SecretsOf(task[t].request, task[t].pending)
           n == IF h \in DOMAIN hooked THEN hooked[h] + 1 ELSE 1
<1>1. /\ task[t] # None /\ task[t].pc = "completed"
      /\ hooked' = Bind(hooked, h, n)
      /\ task' = [task EXCEPT ![t].pc = "notified"]
      /\ UNCHANGED <<initiatorVars, pending>>
  BY DEF Notify
<1>2. task'[t] = [pc |-> "notified", request |-> task[t].request,
                  pending |-> task[t].pending]
  <2>1. task' = [task EXCEPT ![t] = [pc |-> "notified",
                   request |-> task[t].request, pending |-> task[t].pending]]
    BY <1>1, TaskMove
  <2> QED
    BY <2>1 DEF TypeOK
<1>3. task[t].request \in Message3 /\ task[t].pending \in PendingSession
  BY <1>1, TaskTyped
<1>4. Holds(t) /\ Holds(t)'
  BY <1>1, <1>2, <1>3, NoneAssumption DEF Holds, Working
<1>5. /\ DOMAIN hooked' = DOMAIN hooked \cup {h}
      /\ \A g \in DOMAIN hooked' :
           IF g = h THEN hooked'[g] = n ELSE hooked'[g] = hooked[g]
  <2> HIDE DEF h, n
  <2> QED
    BY <1>1 DEF Bind
<1> QED
  BY <1>1, <1>2, <1>4, <1>5

\* Nothing else changes what the hook has been given.
LEMMA HookKept ==
    ASSUME [Next]_vars
    PROVE  UNCHANGED hooked \/ \E t \in Task : Notify(t)
BY OthersKeep DEF Next, Receive, TaskStep, ProcessMessage1, CheckCompleted,
                  TakePending, Verify, Answer, historyVars, vars

\* A session is in one place.
LEMMA OnePlaceStep ==
    ASSUME TypeOK, RequestsAgree, ResponsesAgree, SessionsStarted, SecretsAgree,
           OnePlace, [Next]_vars
    PROVE  OnePlace'
<1>1. CASE Quiet
  <2>1. UNCHANGED pending
        /\ \A t \in Task :
             Holds(t)' => /\ Holds(t)
                          /\ task'[t].pending = task[t].pending
                          /\ task'[t].pc # "notified" => task[t].pc # "notified"
    BY <1>1 DEF Quiet
  <2>2. /\ \A c, d \in DOMAIN pending' :
             pending'[c].session = pending'[d].session => c = d
        /\ \A t \in Task, c \in DOMAIN pending' :
             Holds(t)' => task'[t].pending.session # pending'[c].session
        /\ \A t, u \in Task :
             Holds(t)' /\ Holds(u)' /\ task'[t].pending.session = task'[u].pending.session
               => t = u
    BY <2>1 DEF OnePlace
  <2>3. \A s : Passed(s) => Passed(s)'
    BY <2>1 DEF Passed
  <2>4. CASE UNCHANGED hooked
    BY <2>2, <2>3, <2>4 DEF OnePlace
  <2>5. ASSUME NEW t \in Task, Notify(t) PROVE OnePlace'
    <3>1. SecretsOf(task[t].request, task[t].pending).session = task[t].pending.session
      BY DEF SecretsOf
    <3>2. ASSUME NEW s, s = task[t].pending.session PROVE Passed(s)'
      <4>1. \A c \in DOMAIN pending' : pending'[c].session # s
        BY <2>1, <2>5, <3>2, HookCalled DEF OnePlace
      <4>2. ASSUME NEW u \in Task, Holds(u)', task'[u].pc # "notified"
            PROVE  task'[u].pending.session # s
        BY <2>1, <2>5, <3>2, <4>2, HookCalled DEF OnePlace
      <4> QED
        BY <4>1, <4>2 DEF Passed
    <3>3. \A h \in DOMAIN hooked' :
            h \in DOMAIN hooked \/ h.session = task[t].pending.session
      <4>1. DOMAIN hooked' = DOMAIN hooked \cup
              {SecretsOf(task[t].request, task[t].pending)}
        BY <2>5, HookCalled
      <4>2. \A x : x.session = task[t].pending.session
                    \/ x # SecretsOf(task[t].request, task[t].pending)
        BY <3>1
      <4> QED
        BY <4>1, <4>2
    <3>4. \A h \in DOMAIN hooked' : Passed(h.session)'
      BY <2>3, <3>2, <3>3 DEF OnePlace
    <3> QED
      BY <2>2, <3>4 DEF OnePlace
  <2> QED
    BY <2>4, <2>5, HookKept
<1>2. ASSUME NEW q \in requests, Free(q.cI) # {}, ProcessMessage1(q) PROVE OnePlace'
  <2>1. PICK c \in ConnId, s \in [session : {sessions + 1}, cI : {q.cI}] :
              /\ c \notin DOMAIN pending
              /\ DOMAIN pending' = DOMAIN pending \cup {c}
              /\ pending'[c] = s
              /\ \A d \in DOMAIN pending : pending'[d] = pending[d]
              /\ UNCHANGED <<task, hooked>>
    BY <1>2, NewSession
  <2>2. /\ \A d \in DOMAIN pending : pending[d].session # s.session
        /\ \A t \in Task : Holds(t) => task[t].pending.session # s.session
        /\ \A h \in DOMAIN hooked : h.session # s.session
    <3>1. s.session = sessions + 1 /\ sessions \in Nat
      BY Typed
    <3>2. /\ \A d \in DOMAIN pending : pending[d].session \in Nat
          /\ \A t \in Task : Holds(t) => task[t].pending.session \in Nat
          /\ \A h \in DOMAIN hooked : h.session \in Nat
      BY Typed, TaskTyped DEF TypeOK, Secrets, PendingSession, Holds
    <3> QED
      BY <3>1, <3>2, SessionsBounded
  <2>3. \A t \in Task : Holds(t)' = Holds(t)
    BY <2>1 DEF Holds
  <2>4. \A r : Passed(r) /\ r # s.session => Passed(r)'
    BY <2>1, <2>3 DEF Passed
  <2> QED
    BY <2>1, <2>2, <2>3, <2>4 DEF OnePlace
<1>3. ASSUME NEW t \in Task, task[t].request.cR \in DOMAIN pending, TakePending(t)
      PROVE  OnePlace'
  <2> DEFINE c == task[t].request.cR
  <2>1. /\ DOMAIN pending' = DOMAIN pending \ {c}
        /\ \A d \in DOMAIN pending' : pending'[d] = pending[d]
        /\ task'[t].pending = pending[c] /\ c \in DOMAIN pending
        /\ \A u \in Task \ {t} : task'[u] = task[u]
        /\ UNCHANGED hooked
    BY <1>3, SessionTaken
  <2>2. \A u \in Task \ {t} : Holds(u)' => Holds(u)
    BY <2>1 DEF Holds
  <2> HIDE DEF c
  <2>3. \A r : Passed(r) => Passed(r)'
    BY <2>1, <2>2 DEF Passed
  <2>4. /\ \A d, e \in DOMAIN pending' :
             pending'[d].session = pending'[e].session => d = e
        /\ \A h \in DOMAIN hooked' : Passed(h.session)'
    BY <2>1, <2>3 DEF OnePlace
  <2>5. \A u \in Task, d \in DOMAIN pending' :
          Holds(u)' => task'[u].pending.session # pending'[d].session
    BY <2>1, <2>2 DEF OnePlace
  <2>6. \A u, v \in Task :
          Holds(u)' /\ Holds(v)' /\ task'[u].pending.session = task'[v].pending.session
            => u = v
    BY <2>1, <2>2 DEF OnePlace
  <2> QED
    BY <2>4, <2>5, <2>6 DEF OnePlace
<1> QED
  BY <1>1, <1>2, <1>3, QuietSteps

\* Only a session that is pending or in the hands of a task is handed over.
LEMMA HookStep ==
    ASSUME TypeOK, RequestsAgree, ResponsesAgree, SessionsStarted, TasksAgree,
           OnePlace, SecretsAgree, HookOnce, IdentifiersDiffer, [Next]_vars
    PROVE  SecretsAgree' /\ HookOnce' /\ IdentifiersDiffer'
<1>1. Kept
  BY Monotone
<1>2. \A h \in DOMAIN hooked :
         h \in Secrets /\ h.peer \in Initiator /\ h.peer \in Trusted
         /\ heard[h.peer] # None /\ h = PeerSecrets(h.peer)
  BY DEF TypeOK, Secrets, SecretsAgree
<1>3. \A h \in DOMAIN hooked : heard'[h.peer] # None /\ h = PeerSecrets(h.peer)'
  <2>1. ASSUME NEW h \in DOMAIN hooked
        PROVE  heard'[h.peer] # None /\ h = PeerSecrets(h.peer)'
    <3>1. heard[h.peer] \in responses /\ heard[h.peer].to = h.peer
      BY <1>2 DEF RequestsAgree
    <3>2. phase[h.peer] # "start"
      BY <1>2 DEF RequestsAgree
    <3>3. heard'[h.peer] = heard[h.peer] /\ cI'[h.peer] = cI[h.peer]
      BY <1>1, <1>2, <3>2 DEF Kept, InitiatorsKeep
    <3> QED
      BY <1>2, <3>3 DEF PeerSecrets
  <2> QED
    BY <2>1
<1>4. CASE UNCHANGED hooked
  BY <1>2, <1>3, <1>4 DEF SecretsAgree, HookOnce, IdentifiersDiffer
<1>5. ASSUME NEW t \in Task, Notify(t)
      PROVE  SecretsAgree' /\ HookOnce' /\ IdentifiersDiffer'
  <2> DEFINE q == task[t].request
             s == task[t].pending
  <2>1. PICK new : new = SecretsOf(q, s)
    OBVIOUS
  <2>2. /\ Holds(t) /\ task[t].pc = "completed"
        /\ DOMAIN hooked' = DOMAIN hooked \cup {new}
        /\ \A h \in DOMAIN hooked' :
             IF h = new
             THEN hooked'[h] = IF h \in DOMAIN hooked THEN hooked[h] + 1 ELSE 1
             ELSE hooked'[h] = hooked[h]
        /\ UNCHANGED <<initiatorVars, pending>>
    BY <1>5, <2>1, HookCalled
  <2>3. q \in requests /\ q \in Message3 /\ Verifies(q, s) /\ Started(s, q.cR)
    BY <2>2, TaskTyped DEF TasksAgree, SessionsStarted, Holds
  <2>4. /\ q.from \in Initiator /\ q.from \in Trusted /\ q.session = s.session
        /\ heard[q.from] # None /\ q.session = heard[q.from].session
        /\ q.cR = heard[q.from].cR
    BY <2>3 DEF Verifies, Lookup, RequestsAgree, Message3
  <2>5. s.cI = cI[q.from] /\ q.cR # s.cI
    <3>1. PICK m \in responses : /\ m.type = "message_2" /\ m.session = s.session
                                 /\ cI[m.to] = s.cI
      BY <2>3 DEF Started
    <3>2. /\ heard[q.from] \in responses /\ heard[q.from].to = q.from
          /\ heard[q.from].type = "message_2"
      BY <2>4 DEF RequestsAgree, TypeOK, Message2
    <3>3. m = heard[q.from]
      BY <2>4, <3>1, <3>2 DEF ResponsesAgree
    <3> QED
      BY <2>3, <3>1, <3>2, <3>3 DEF Started
  <2>6. /\ new.peer = q.from /\ new.session = s.session /\ new.sender = s.cI
        /\ new.recipient = q.cR
        /\ new = PeerSecrets(q.from)
    BY <2>1, <2>4, <2>5 DEF SecretsOf, PeerSecrets
  <2>7. \A h \in DOMAIN hooked : h.session # new.session
    BY <2>2, <2>6 DEF OnePlace, Passed
  <2>8. new \notin DOMAIN hooked
    BY <2>7
  <2>9. UNCHANGED <<heard, cI>>
    BY <2>2 DEF initiatorVars
  <2> HIDE DEF q, s
  <2>10. SecretsAgree'
    <3>1. heard'[new.peer] # None /\ new = PeerSecrets(new.peer)'
      BY <2>4, <2>6, <2>9 DEF PeerSecrets
    <3> QED
      BY <1>2, <1>3, <2>2, <2>4, <2>6, <3>1 DEF SecretsAgree
  <2>11. HookOnce'
    BY <2>2, <2>7, <2>8 DEF HookOnce
  <2>12. IdentifiersDiffer'
    BY <2>2, <2>5, <2>6 DEF IdentifiersDiffer
  <2> QED
    BY <2>10, <2>11, <2>12
<1> QED
  BY <1>4, <1>5, HookKept

LEMMA IInvStep == IInv /\ [Next]_vars => IInv'
<1> SUFFICES ASSUME IInv, [Next]_vars PROVE IInv'
  OBVIOUS
<1>1. /\ TypeOK /\ RequestsAgree /\ ResponsesAgree /\ SessionsStarted
      /\ TasksAgree /\ OnePlace /\ SecretsAgree /\ HookOnce /\ IdentifiersDiffer
  BY DEF IInv
<1>2. TypeOK'
  BY <1>1, TypeStep
<1> QED
  BY <1>1, <1>2, RequestsStep, ResponsesStep, SessionsStep, TasksStep, OnePlaceStep,
     HookStep DEF IInv

-----------------------------------------------------------------------------
(* The results.                                                            *)

\* The parts of the invariant hold together.
THEOREM InvariantHolds == Spec => []IInv
BY IInvInit, IInvStep, PTL DEF Spec

\* Whatever the hook is given, the initiator of that session has, with sender
\* and recipient crossed, and that initiator is trusted.
THEOREM SecretsAgreeCorrect == Spec => []SecretsAgree
<1>1. IInv => SecretsAgree
  BY DEF IInv
<1> QED
  BY <1>1, InvariantHolds, PTL

\* The hook is called once for a session, whatever copies of its message_3 the
\* tasks handle at the same time.
THEOREM HookOnceCorrect == Spec => []HookOnce
<1>1. IInv => HookOnce
  BY DEF IInv
<1> QED
  BY <1>1, InvariantHolds, PTL

\* The identifiers of the two directions differ.
THEOREM IdentifiersDifferCorrect == Spec => []IdentifiersDiffer
<1>1. IInv => IdentifiersDiffer
  BY DEF IInv
<1> QED
  BY <1>1, InvariantHolds, PTL

\* An initiator is done only when the responder has verified its message_3.
THEOREM KeyConfirmedCorrect == Spec => []KeyConfirmed
<1>1. Init => KeyConfirmed
  BY DEF Init, KeyConfirmed
<1>2. ASSUME IInv, KeyConfirmed, [Next]_vars PROVE KeyConfirmed'
  <2>1. TypeOK /\ RequestsAgree /\ ResponsesAgree /\ served \subseteq served'
    BY <1>2, Monotone DEF IInv, Kept
  <2>2. ASSUME UNCHANGED <<phase, heard>> PROVE KeyConfirmed'
    BY <1>2, <2>1, <2>2 DEF KeyConfirmed
  <2>3. ASSUME NEW i \in Initiator, InitiatorStep(i) PROVE KeyConfirmed'
    <3>1. ASSUME NEW c \in ConnId, SendMessage1(i, c) PROVE KeyConfirmed'
      BY <1>2, <2>1, <3>1 DEF SendMessage1, KeyConfirmed, TypeOK
    <3>2. ASSUME NEW m \in responses, ReceiveMessage2(i, m) PROVE KeyConfirmed'
      BY <1>2, <2>1, <3>2 DEF ReceiveMessage2, KeyConfirmed, TypeOK
    <3>3. ASSUME NEW m \in responses, ReceiveMessage4(i, m) PROVE KeyConfirmed'
      <4>1. ProcessMessage4(i, m) => heard[i].session \in served
        BY <2>1 DEF ProcessMessage4, ResponsesAgree
      <4> QED
        BY <1>2, <2>1, <3>3, <4>1 DEF ReceiveMessage4, KeyConfirmed, TypeOK
    <3>4. CASE SendFails(i)
      BY <1>2, <2>1, <3>4 DEF SendFails, KeyConfirmed, TypeOK
    <3> QED
      BY <2>3, <3>1, <3>2, <3>3, <3>4 DEF InitiatorStep
  <2>4. CASE Receive
    BY <2>2, <2>4 DEF Receive, ProcessMessage1, CheckCompleted, initiatorVars
  <2>5. ASSUME NEW t \in Task, TaskStep(t) PROVE KeyConfirmed'
    BY <2>2, <2>5 DEF TaskStep, TakePending, Verify, Notify, Answer, initiatorVars
  <2>6. CASE UNCHANGED vars
    BY <2>2, <2>6 DEF vars
  <2> QED
    BY <1>2, <2>3, <2>4, <2>5, <2>6 DEF Next
<1> QED
  BY <1>1, <1>2, InvariantHolds, PTL DEF Spec

\* A pending session is never overwritten, and leaves only with the task that
\* handles a message_3 for its C_R.
THEOREM PendingOnlyTakenCorrect == Spec => PendingOnlyTaken
<1> DEFINE Taken ==
      \A c \in DOMAIN pending :
          \/ c \in DOMAIN pending' /\ pending'[c] = pending[c]
          \/ /\ c \notin DOMAIN pending'
             /\ \E t \in Task : /\ task'[t] # None
                                /\ task'[t].request.cR = c
                                /\ task'[t].pending = pending[c]
<1>1. ASSUME IInv, [Next]_vars PROVE Taken
  <2>1. TypeOK /\ RequestsAgree
    BY <1>1 DEF IInv
  <2>2. CASE \E q \in requests : Free(q.cI) # {} /\ ProcessMessage1(q)
    BY <2>1, <2>2, NewSession
  <2>3. ASSUME NEW t \in Task, task[t].request.cR \in DOMAIN pending, TakePending(t)
        PROVE  Taken
    <3>1. /\ DOMAIN pending' = DOMAIN pending \ {task[t].request.cR}
          /\ \A d \in DOMAIN pending' : pending'[d] = pending[d]
          /\ Holds(t)' /\ task'[t].request = task[t].request
          /\ task'[t].pending = pending[task[t].request.cR]
      BY <2>1, <2>3, SessionTaken
    <3> QED
      BY <3>1 DEF Holds
  <2>4. CASE Quiet
    BY <2>4 DEF Quiet
  <2> QED
    BY <1>1, <2>1, <2>2, <2>3, <2>4, QuietSteps
<1>2. IInv /\ [Next]_vars => [Taken]_vars
  BY <1>1
<1> QED
  BY <1>2, InvariantHolds, PTL DEF Spec, PendingOnlyTaken

-----------------------------------------------------------------------------
(***************************************************************************)
(* Copies of a message_3 when they are handled one after the other and no  *)
(* completed session gets old.  (When two tasks handle copies at the same  *)
(* time, one may be refused: edhoc_duplicate shows it.)                    *)
(***************************************************************************)
Sequential == (\A t, u \in Task : t = u) /\ ~TimePasses

\* A session has one message_3, that of the initiator its message_2 was for.
LEMMA OneMessage3 ==
    ASSUME TypeOK, RequestsAgree, ResponsesAgree, NEW q \in requests,
           q.type = "message_3"
    PROVE  /\ \E m \in responses : /\ m.type = "message_2" /\ m.session = q.session
                                   /\ m.cR = q.cR
           /\ \A r \in requests : r.type = "message_3" /\ r.session = q.session => r = q
<1>1. \A r \in requests : r.type = "message_3" =>
         /\ heard[r.from] \in responses /\ heard[r.from].type = "message_2"
         /\ heard[r.from].to = r.from
         /\ r.session = heard[r.from].session /\ r.cR = heard[r.from].cR
  BY Typed DEF RequestsAgree, TypeOK, Message2
<1>2. ASSUME NEW r \in requests, r.type = "message_3", r.session = q.session
      PROVE  r = q
  <2>1. heard[r.from] = heard[q.from]
    BY <1>1, <1>2 DEF ResponsesAgree
  <2>2. r.from = q.from /\ r.cR = q.cR
    BY <1>1, <1>2, <2>1
  <2>3. r \in Message3 /\ q \in Message3
    BY <1>2, Typed
  <2> QED
    BY <1>2, <2>2, <2>3 DEF Message3
<1> QED
  BY <1>1, <1>2

\* What happens to the remembered sessions and to the tasks that are to verify
\* when nothing is added to either.
LEMMA RememberedStays ==
    ASSUME ServedRemembered, requests \subseteq requests',
           UNCHANGED <<served, completed>>,
           \A t \in Task : task'[t] # None /\ task'[t].pc \in {"checked", "taken"} =>
              \/ task'[t].request \notin DOMAIN completed
              \/ /\ task[t] # None /\ task[t].pc \in {"checked", "taken"}
                 /\ task'[t].request = task[t].request
    PROVE  ServedRemembered'
BY DEF ServedRemembered

LEMMA RememberedStep ==
    ASSUME Sequential, TypeOK, RequestsAgree, TasksAgree, ServedRemembered, [Next]_vars
    PROVE  ServedRemembered'
<1>1. requests \subseteq requests'
  BY Monotone DEF Kept
<1>2. ASSUME UNCHANGED <<served, completed, task>> PROVE ServedRemembered'
  BY <1>1, <1>2, RememberedStays
<1>3. ASSUME NEW t \in Task, NEW q \in requests, CheckCompleted(t, q)
      PROVE  ServedRemembered'
  <2>1. UNCHANGED <<served, completed>>
    <3>1. Restrict(completed, DOMAIN completed \ {}) = completed
      BY DEF Restrict, TypeOK
    <3>2. completed' = Restrict(completed, DOMAIN completed \ {})
      BY <1>3 DEF CheckCompleted, Sequential
    <3> QED
      BY <1>3, <3>1, <3>2 DEF CheckCompleted, historyVars
  <2>2. \/ UNCHANGED task
        \/ /\ q \notin DOMAIN completed
           /\ task' = [task EXCEPT ![t] =
                         [pc |-> "checked", request |-> q, pending |-> None]]
    BY <1>3, <2>1 DEF CheckCompleted
  <2>3. \A u \in Task : \/ task'[u] = task[u]
                        \/ task'[u].request = q /\ q \notin DOMAIN completed
    BY <2>2 DEF TypeOK
  <2> QED
    BY <1>1, <2>1, <2>3, RememberedStays
<1>4. ASSUME NEW t \in Task, TakePending(t) PROVE ServedRemembered'
  <2>1. /\ task[t] # None /\ task[t].pc = "checked"
        /\ UNCHANGED <<served, completed>>
        /\ \/ task' = [task EXCEPT ![t] = None]
           \/ task' = [task EXCEPT ![t] = [pc |-> "taken", request |-> task[t].request,
                                           pending |-> pending[task[t].request.cR]]]
    BY <1>4 DEF TakePending
  <2>2. \A u \in Task : \/ task'[u] = task[u]
                        \/ task'[u] = None
                        \/ u = t /\ task'[u].request = task[u].request
    BY <2>1 DEF TypeOK
  <2> QED
    BY <1>1, <2>1, <2>2, RememberedStays
<1>5. ASSUME NEW t \in Task, Verify(t) PROVE ServedRemembered'
  <2>1. task[t] # None /\ task[t].pc = "taken"
    BY <1>5 DEF Verify
  <2>2. CASE Verifies(task[t].request, task[t].pending)
    <3> DEFINE q == task[t].request
    <3>1. /\ Remember(q)
          /\ task' = [task EXCEPT ![t].pc = "completed"]
          /\ served' = served \cup {task[t].pending.session}
      BY <1>5, <2>2 DEF Verify
    <3>2. q.session = task[t].pending.session /\ q \in requests
      BY <2>1, <2>2 DEF Verifies, TasksAgree
    <3>3. DOMAIN completed' = DOMAIN completed \cup {q}
      BY <3>1 DEF Remember, Bind
    <3>4. task'[t].pc = "completed"
      BY <2>1, <3>1, TaskMove DEF TypeOK
    <3>5. \A u \in Task : u = t
      BY DEF Sequential
    <3> HIDE DEF q
    <3>6. \A s \in served' : \E r \in DOMAIN completed' : r.session = s
      BY <3>1, <3>2, <3>3 DEF ServedRemembered
    <3>7. \A u \in Task : task'[u].pc = "completed"
      BY <3>4, <3>5
    <3> QED
      BY <1>1, <3>2, <3>3, <3>6, <3>7 DEF ServedRemembered
  <2>3. CASE ~Verifies(task[t].request, task[t].pending)
    <3>1. task' = [task EXCEPT ![t] = None] /\ UNCHANGED <<completed, served>>
      BY <1>5, <2>3 DEF Verify
    <3>2. \A u \in Task : task'[u] = task[u] \/ task'[u] = None
      BY <3>1 DEF TypeOK
    <3> QED
      BY <1>1, <3>1, <3>2, RememberedStays
  <2> QED
    BY <2>2, <2>3
<1>6. ASSUME NEW t \in Task, Notify(t) PROVE ServedRemembered'
  <2>1. /\ task[t] # None /\ UNCHANGED <<served, completed>>
        /\ task' = [task EXCEPT ![t].pc = "notified"]
    BY <1>6 DEF Notify
  <2>2. task' = [task EXCEPT ![t] = [pc |-> "notified",
                   request |-> task[t].request, pending |-> task[t].pending]]
    BY <2>1, TaskMove
  <2>3. \A u \in Task : task'[u] = task[u] \/ task'[u].pc = "notified"
    BY <2>2 DEF TypeOK
  <2> QED
    BY <1>1, <2>1, <2>3, RememberedStays
<1>7. ASSUME NEW t \in Task, Answer(t) PROVE ServedRemembered'
  <2>1. task' = [task EXCEPT ![t] = None] /\ UNCHANGED <<served, completed>>
    BY <1>7 DEF Answer, historyVars
  <2>2. \A u \in Task : task'[u] = task[u] \/ task'[u] = None
    BY <2>1 DEF TypeOK
  <2> QED
    BY <1>1, <2>1, <2>2, RememberedStays
<1>8. ASSUME NEW i \in Initiator, InitiatorStep(i) PROVE ServedRemembered'
  BY <1>2, <1>8, OthersKeep
<1>9. ASSUME NEW q \in requests, ProcessMessage1(q) PROVE ServedRemembered'
  BY <1>2, <1>9 DEF ProcessMessage1, historyVars
<1>10. CASE UNCHANGED vars
  BY <1>2, <1>10 DEF vars
<1> QED
  BY <1>3, <1>4, <1>5, <1>6, <1>7, <1>8, <1>9, <1>10 DEF Next, Receive, TaskStep

\* The message_3 a task is about to look a session up for has not been served.
LEMMA CheckedUnserved ==
    ASSUME TypeOK, RequestsAgree, ResponsesAgree, TasksAgree, ServedRemembered,
           NEW t \in Task, task[t] # None, task[t].pc = "checked"
    PROVE  /\ task[t].request \in requests /\ task[t].request.type = "message_3"
           /\ task[t].request.session \notin served
<1>1. task[t].request \in requests /\ task[t].request.type = "message_3"
  BY TaskTyped DEF TasksAgree, Message3
<1>2. ASSUME task[t].request.session \in served PROVE FALSE
  <2>1. PICK q \in DOMAIN completed : q.session = task[t].request.session
    BY <1>2 DEF ServedRemembered
  <2>2. q \in requests /\ q.type = "message_3"
    BY <2>1 DEF ServedRemembered, TypeOK, Message3
  <2>3. q = task[t].request
    BY <1>1, <2>1, <2>2, OneMessage3
  <2> QED
    BY <2>1, <2>3 DEF ServedRemembered
<1> QED
  BY <1>1, <1>2

\* The session a message_3 is for, if it is pending, is pending under its C_R.
LEMMA PendingUnder ==
    ASSUME TypeOK, RequestsAgree, ResponsesAgree, SessionsStarted,
           NEW q \in requests, q.type = "message_3",
           NEW c \in DOMAIN pending, pending[c].session = q.session
    PROVE  c = q.cR
<1>1. PICK m \in responses : /\ m.type = "message_2" /\ m.session = q.session
                             /\ m.cR = q.cR
  BY OneMessage3
<1>2. PICK n \in responses : n.type = "message_2" /\ n.session = q.session /\ n.cR = c
  BY DEF SessionsStarted, Started
<1> QED
  BY <1>1, <1>2 DEF ResponsesAgree

LEMMA RefusedStep ==
    ASSUME Sequential, IInv, ServedRemembered, RefusedGone, [Next]_vars
    PROVE  RefusedGone'
<1>1. /\ TypeOK /\ RequestsAgree /\ ResponsesAgree /\ SessionsStarted /\ TasksAgree
      /\ OnePlace
  BY DEF IInv
<1>2. /\ sessions \in Nat /\ sessions' \in Nat /\ sessions <= sessions'
      /\ \A s \in refused : s \in Nat /\ s <= sessions'
  <2>1. TypeOK'
    BY <1>1, TypeStep
  <2>2. sessions \in Nat /\ sessions' \in Nat /\ refused \subseteq Nat
    BY <1>1, <2>1, EdhocAssumption DEF TypeOK, Session
  <2>3. sessions <= sessions'
    BY <1>1, Monotone DEF Kept
  <2> QED
    BY <2>2, <2>3 DEF RefusedGone
<1>3. ASSUME UNCHANGED <<refused, served>>, Quiet PROVE RefusedGone'
  BY <1>2, <1>3 DEF RefusedGone, Quiet
<1>4. ASSUME NEW q \in requests, Free(q.cI) # {}, ProcessMessage1(q)
      PROVE  RefusedGone'
  <2>1. PICK c \in ConnId, s \in [session : {sessions + 1}, cI : {q.cI}] :
              /\ DOMAIN pending' = DOMAIN pending \cup {c}
              /\ pending'[c] = s
              /\ \A d \in DOMAIN pending : pending'[d] = pending[d]
              /\ UNCHANGED <<task, hooked>>
    BY <1>1, <1>4, NewSession
  <2>2. UNCHANGED <<served, refused>>
    BY <1>4 DEF ProcessMessage1, historyVars
  <2>3. \A r \in refused : r # s.session
    BY <1>2 DEF RefusedGone
  <2>4. \A t \in Task : Holds(t)' = Holds(t)
    BY <2>1 DEF Holds
  <2>5. \A r \in refused : \A d \in DOMAIN pending' : pending'[d].session # r
    <3>1. ASSUME NEW r \in refused, NEW d \in DOMAIN pending' PROVE pending'[d].session # r
      <4>1. CASE d = c
        BY <2>1, <2>3, <4>1
      <4>2. CASE d # c
        BY <2>1, <4>2 DEF RefusedGone
      <4> QED
        BY <4>1, <4>2
    <3> QED
      BY <3>1
  <2> QED
    BY <1>2, <2>1, <2>2, <2>4, <2>5 DEF RefusedGone
<1>5. ASSUME NEW t \in Task, task[t].request.cR \in DOMAIN pending, TakePending(t)
      PROVE  RefusedGone'
  <2>1. /\ DOMAIN pending' = DOMAIN pending \ {task[t].request.cR}
        /\ \A d \in DOMAIN pending' : pending'[d] = pending[d]
        /\ task'[t].pending = pending[task[t].request.cR]
        /\ \A u \in Task \ {t} : task'[u] = task[u]
    BY <1>1, <1>5, SessionTaken
  <2>2. UNCHANGED <<served, refused>>
    BY <1>5 DEF TakePending
  <2>3. \A u \in Task \ {t} : Holds(u)' => Holds(u)
    BY <2>1 DEF Holds
  <2> QED
    BY <1>2, <1>5, <2>1, <2>2, <2>3 DEF RefusedGone
<1>6. ASSUME NEW t \in Task, task[t].request.cR \notin DOMAIN pending, TakePending(t)
      PROVE  RefusedGone'
  <2> DEFINE q == task[t].request
  <2>1. /\ task[t] # None /\ task[t].pc = "checked"
        /\ task' = [task EXCEPT ![t] = None]
        /\ refused' = refused \cup {q.session}
        /\ UNCHANGED <<pending, served, sessions>>
    BY <1>6 DEF TakePending
  <2>2. q \in requests /\ q.type = "message_3" /\ q.session \notin served
    BY <1>1, <2>1, CheckedUnserved
  <2>3. q.session <= sessions
    BY <1>1, <2>2, OneMessage3 DEF ResponsesAgree
  <2>4. \A c \in DOMAIN pending : pending[c].session # q.session
    BY <1>1, <1>6, <2>2, PendingUnder
  <2>5. \A u \in Task : task'[u] = None
    BY <1>1, <2>1 DEF Sequential, TypeOK
  <2> HIDE DEF q
  <2> QED
    BY <2>1, <2>2, <2>3, <2>4, <2>5 DEF RefusedGone, Holds
<1>7. ASSUME NEW t \in Task, Verify(t) PROVE RefusedGone'
  <2>1. /\ Holds(t)
        /\ served' \subseteq served \cup {task[t].pending.session}
        /\ UNCHANGED <<pending, refused>>
    BY <1>7 DEF Verify, Holds
  <2>2. \A s \in refused : s \notin served'
    BY <2>1 DEF RefusedGone
  <2>3. Quiet
    <3>1. ~\E r \in Task : task[r].request.cR \in DOMAIN pending /\ TakePending(r)
      BY <1>7 DEF Verify, TakePending, Sequential
    <3>2. ~\E r \in requests : Free(r.cI) # {} /\ ProcessMessage1(r)
      <4>1. sessions' = sessions
        BY <1>7 DEF Verify
      <4>2. ASSUME NEW r \in requests, Free(r.cI) # {}, ProcessMessage1(r) PROVE FALSE
        <5>1. sessions' = sessions + 1
          BY <4>2 DEF ProcessMessage1
        <5> QED
          BY <1>2, <4>1, <5>1
      <4> QED
        BY <4>2
    <3> QED
      BY <1>1, <3>1, <3>2, QuietSteps
  <2> QED
    BY <1>2, <2>1, <2>2, <2>3 DEF RefusedGone, Quiet
<1>8. \/ UNCHANGED <<refused, served>>
      \/ \E t \in Task : TakePending(t) \/ Verify(t)
  BY OthersKeep DEF Next, Receive, TaskStep, ProcessMessage1, CheckCompleted,
                    Notify, Answer, historyVars, vars
<1> QED
  BY <1>1, <1>3, <1>4, <1>5, <1>6, <1>7, <1>8, QuietSteps

LEMMA DuplicateInv ==
    ASSUME Sequential
    PROVE  Spec => [](ServedRemembered /\ RefusedGone)
<1>1. Init => ServedRemembered /\ RefusedGone
  BY DEF Init, ServedRemembered, RefusedGone, Holds
<1>2. IInv /\ ServedRemembered /\ RefusedGone /\ [Next]_vars
        => ServedRemembered' /\ RefusedGone'
  BY RememberedStep, RefusedStep DEF IInv
<1> QED
  BY <1>1, <1>2, InvariantHolds, PTL DEF Spec

\* "a retransmitted message_3 ... is answered with the same message_4 again
\* instead of failing" (edhoc/mod.rs:415-417), whoever is trusted, as long as
\* copies are handled one after the other and no completed session gets old.
THEOREM DuplicateAnsweredCorrect ==
    ASSUME Sequential
    PROVE  Spec => []DuplicateAnswered
<1>1. RefusedGone => DuplicateAnswered
  BY DEF RefusedGone, DuplicateAnswered
<1> QED
  BY <1>1, DuplicateInv, PTL

\* A step that announces no session and takes none: a session in the hands of
\* a task stays there or has been served.
LEMMA PlacedStays ==
    ASSUME SessionsPlaced, served \subseteq served', UNCHANGED pending,
           \A m \in responses' : m.type = "message_2" => m \in responses,
           \A t \in Task : Holds(t) =>
              \/ Holds(t)' /\ task'[t].pending = task[t].pending
              \/ task[t].pending.session \in served'
    PROVE  SessionsPlaced'
<1> SUFFICES ASSUME NEW m \in responses', m.type = "message_2"
             PROVE  \/ m.cR \in DOMAIN pending' /\ pending'[m.cR].session = m.session
                    \/ \E t \in Task : Holds(t)' /\ task'[t].pending.session = m.session
                    \/ m.session \in served'
  BY DEF SessionsPlaced
<1>1. CASE m.cR \in DOMAIN pending /\ pending[m.cR].session = m.session
  BY <1>1
<1>2. CASE \E t \in Task : Holds(t) /\ task[t].pending.session = m.session
  <2>1. PICK t \in Task : Holds(t) /\ task[t].pending.session = m.session
    BY <1>2
  <2>2. CASE Holds(t)' /\ task'[t].pending = task[t].pending
    <3>1. task'[t].pending.session = m.session
      BY <2>1, <2>2
    <3> QED
      BY <2>2, <3>1
  <2>3. CASE task[t].pending.session \in served'
    BY <2>1, <2>3
  <2> QED
    BY <2>1, <2>2, <2>3
<1>3. CASE m.session \in served
  BY <1>3
<1> QED
  BY <1>1, <1>2, <1>3 DEF SessionsPlaced

LEMMA PlacedStep ==
    ASSUME Sequential, Trusted = Initiator, IInv, ServedRemembered, SessionsPlaced,
           TakesOwnSession, [Next]_vars
    PROVE  SessionsPlaced' /\ TakesOwnSession'
<1>1. /\ TypeOK /\ RequestsAgree /\ ResponsesAgree /\ SessionsStarted /\ TasksAgree
      /\ served \subseteq served'
  BY Monotone DEF IInv, Kept
<1>2. CASE UNCHANGED <<task, pending>>
              /\ \A m \in responses' : m.type = "message_2" => m \in responses
  <2>1. \A t \in Task : Holds(t)' <=> Holds(t)
    BY <1>2 DEF Holds
  <2>2. TakesOwnSession'
    BY <1>2, <2>1 DEF TakesOwnSession
  <2> QED
    BY <1>1, <1>2, <2>1, <2>2, PlacedStays
<1>3. ASSUME NEW q \in requests, ProcessMessage1(q)
      PROVE  SessionsPlaced' /\ TakesOwnSession'
  <2>1. CASE Free(q.cI) = {}
    <3>1. UNCHANGED <<task, pending>> /\ responses' = responses \cup {Error(q.from)}
      BY <1>3, <2>1 DEF ProcessMessage1, Respond
    <3>2. Error(q.from).type # "message_2"
      BY DEF Error
    <3> QED
      BY <1>2, <3>1, <3>2
  <2>2. CASE Free(q.cI) # {}
    <3>1. PICK c \in Free(q.cI) :
             /\ pending' = Bind(pending, c, [session |-> sessions', cI |-> q.cI])
             /\ responses' = responses \cup {[type |-> "message_2", to |-> q.from,
                                              session |-> sessions', cR |-> c]}
      BY <1>3, <2>2 DEF ProcessMessage1, Respond
    <3>2. UNCHANGED <<task, served>>
      BY <1>3 DEF ProcessMessage1, historyVars
    <3>3. \A t \in Task : Holds(t)' <=> Holds(t)
      BY <3>2 DEF Holds
    <3>4. /\ c \in DOMAIN pending' /\ pending'[c].session = sessions'
          /\ \A d \in DOMAIN pending : d \in DOMAIN pending' /\ pending'[d] = pending[d]
      BY <3>1 DEF Bind, Free
    <3>5. \A m \in responses' : \/ m \in responses
                                \/ m.cR = c /\ m.session = sessions'
      <4>1. PICK new : new = [type |-> "message_2", to |-> q.from,
                              session |-> sessions', cR |-> c]
        OBVIOUS
      <4>2. new.cR = c /\ new.session = sessions'
        BY <4>1
      <4> QED
        BY <3>1, <4>1, <4>2
    <3>6. SessionsPlaced'
      BY <3>2, <3>3, <3>4, <3>5 DEF SessionsPlaced
    <3>7. TakesOwnSession'
      BY <3>2, <3>3 DEF TakesOwnSession
    <3> QED
      BY <3>6, <3>7
  <2> QED
    BY <2>1, <2>2
<1>4. ASSUME NEW t \in Task, NEW q \in requests, CheckCompleted(t, q)
      PROVE  SessionsPlaced' /\ TakesOwnSession'
  <2>1. /\ task[t] = None /\ UNCHANGED <<pending, served>>
        /\ \/ UNCHANGED task
           \/ task' = [task EXCEPT ![t] =
                         [pc |-> "checked", request |-> q, pending |-> None]]
    BY <1>4 DEF CheckCompleted, historyVars
  <2>2. \A m \in responses' : m.type = "message_2" => m \in responses
    <3>1. CASE q \in DOMAIN completed'
      <4>1. responses' = responses \cup {completed'[q]}
        BY <1>4, <3>1 DEF CheckCompleted, Respond
      <4>2. q \in DOMAIN completed /\ completed'[q] = completed[q]
        BY <1>4, <3>1 DEF CheckCompleted, Restrict
      <4>3. completed'[q].type = "message_4"
        BY <1>1, <4>2 DEF TypeOK, Message4
      <4> QED
        BY <4>1, <4>3
    <3>2. CASE q \notin DOMAIN completed'
      BY <1>4, <3>2 DEF CheckCompleted
    <3> QED
      BY <3>1, <3>2
  <2>3. \A u \in Task : ~Holds(u) /\ ~Holds(u)'
    BY <1>1, <2>1 DEF Holds, Sequential, TypeOK
  <2> QED
    BY <1>1, <2>1, <2>2, <2>3, PlacedStays DEF TakesOwnSession
<1>5. ASSUME NEW t \in Task, TakePending(t)
      PROVE  SessionsPlaced' /\ TakesOwnSession'
  <2> DEFINE q == task[t].request
  <2>1. task[t] # None /\ task[t].pc = "checked" /\ UNCHANGED served
    BY <1>5 DEF TakePending
  <2>2. \A u \in Task : u = t /\ ~Holds(u)
    BY <2>1 DEF Holds, Sequential
  <2>3. q \in requests /\ q.type = "message_3" /\ q.session \notin served
    BY <1>1, <2>1, CheckedUnserved
  <2>4. PICK m \in responses : m.type = "message_2" /\ m.session = q.session /\ m.cR = q.cR
    BY <1>1, <2>3, OneMessage3
  <2>5. q.cR \in DOMAIN pending /\ pending[q.cR].session = q.session
    BY <2>2, <2>3, <2>4 DEF SessionsPlaced
  <2>6. /\ DOMAIN pending' = DOMAIN pending \ {q.cR}
        /\ \A d \in DOMAIN pending' : pending'[d] = pending[d]
        /\ Holds(t)' /\ task'[t].request = q /\ task'[t].pending = pending[q.cR]
    BY <1>1, <1>5, <2>5, SessionTaken
  <2>7. UNCHANGED responses
    BY <1>5, <2>5 DEF TakePending
  <2> HIDE DEF q
  <2>8. TakesOwnSession'
    BY <2>2, <2>5, <2>6 DEF TakesOwnSession
  <2>9. SessionsPlaced'
    BY <2>1, <2>2, <2>6, <2>7 DEF SessionsPlaced
  <2> QED
    BY <2>8, <2>9
<1>6. ASSUME NEW t \in Task, Verify(t)
      PROVE  SessionsPlaced' /\ TakesOwnSession'
  <2>1. task[t] # None /\ task[t].pc = "taken" /\ Holds(t) /\ UNCHANGED pending
    BY <1>6 DEF Verify, Holds
  <2>2. Verifies(task[t].request, task[t].pending)
    BY <1>1, <2>1, TaskTyped DEF TakesOwnSession, Verifies, Lookup, Message3
  <2>3. /\ task' = [task EXCEPT ![t].pc = "completed"]
        /\ served' = served \cup {task[t].pending.session}
        /\ UNCHANGED responses
    BY <1>6, <2>2 DEF Verify
  <2>4. \A u \in Task : Holds(u) => task[u].pending.session \in served'
    BY <2>3 DEF Sequential
  <2>5. task' = [task EXCEPT ![t] = [pc |-> "completed",
                   request |-> task[t].request, pending |-> task[t].pending]]
    BY <1>1, <2>1, <2>3, TaskMove
  <2>6. /\ task'[t].request = task[t].request /\ task'[t].pending = task[t].pending
        /\ \A u \in Task \ {t} : task'[u] = task[u]
    BY <1>1, <2>5 DEF TypeOK
  <2>7. TakesOwnSession'
    BY <2>1, <2>6 DEF TakesOwnSession, Sequential
  <2> QED
    BY <1>1, <2>1, <2>3, <2>4, <2>7, PlacedStays
<1>7. ASSUME NEW t \in Task, Notify(t)
      PROVE  SessionsPlaced' /\ TakesOwnSession'
  <2>1. /\ task[t] # None /\ task[t].pc = "completed" /\ UNCHANGED <<pending, responses>>
        /\ task' = [task EXCEPT ![t].pc = "notified"]
    BY <1>7 DEF Notify
  <2>2. task' = [task EXCEPT ![t] = [pc |-> "notified",
                   request |-> task[t].request, pending |-> task[t].pending]]
    BY <1>1, <2>1, TaskMove
  <2>3. /\ task'[t].request = task[t].request /\ task'[t].pending = task[t].pending
        /\ Holds(t) /\ Holds(t)'
    BY <1>1, <1>7, <2>2, HookCalled DEF TypeOK
  <2>4. TakesOwnSession'
    BY <2>3 DEF TakesOwnSession, Sequential
  <2>5. \A u \in Task : Holds(u)' /\ task'[u].pending = task[u].pending
    BY <2>3 DEF Sequential
  <2> QED
    BY <1>1, <2>1, <2>4, <2>5, PlacedStays
<1>8. ASSUME NEW t \in Task, Answer(t)
      PROVE  SessionsPlaced' /\ TakesOwnSession'
  <2>1. /\ task[t] # None /\ task[t].pc = "notified" /\ UNCHANGED pending
        /\ task' = [task EXCEPT ![t] = None]
    BY <1>8 DEF Answer
  <2>2. \A m \in responses' : m.type = "message_2" => m \in responses
    BY <1>8 DEF Answer, Respond
  <2>3. \A u \in Task : task[u].pending.session \in served' /\ ~Holds(u)'
    BY <1>1, <2>1 DEF TasksAgree, Sequential, Holds, TypeOK
  <2> QED
    BY <1>1, <2>1, <2>2, <2>3, PlacedStays DEF TakesOwnSession
<1>9. ASSUME NEW i \in Initiator, InitiatorStep(i)
      PROVE  SessionsPlaced' /\ TakesOwnSession'
  BY <1>2, <1>9, OthersKeep
<1>10. CASE UNCHANGED vars
  BY <1>2, <1>10 DEF vars
<1> QED
  BY <1>3, <1>4, <1>5, <1>6, <1>7, <1>8, <1>9, <1>10 DEF Next, Receive, TaskStep

\* A message_3 is verified against the session it belongs to, also when its
\* C_R has been given away again, as long as every initiator is trusted and
\* copies are handled one after the other with no completed session getting
\* old.  (A copy of a message_3 that failed to verify takes whatever is pending
\* under its C_R.)
THEOREM TakesOwnSessionCorrect ==
    ASSUME Sequential, Trusted = Initiator
    PROVE  Spec => []TakesOwnSession
<1>1. Init => SessionsPlaced /\ TakesOwnSession
  BY DEF Init, SessionsPlaced, TakesOwnSession, Holds
<1>2. IInv /\ ServedRemembered /\ SessionsPlaced /\ TakesOwnSession /\ [Next]_vars
        => SessionsPlaced' /\ TakesOwnSession'
  BY PlacedStep
<1> QED
  BY <1>1, <1>2, InvariantHolds, DuplicateInv, PTL DEF Spec
=============================================================================
