-------------------------- MODULE ObservationProofs --------------------------
(***************************************************************************)
(* Proofs about an observation from the client's side, with the server and *)
(* the network in between, for every value of the constants: the composed  *)
(* system implements the registry's own specification, so what is proved   *)
(* of the registry holds in it, and the safety properties of the client.   *)
(***************************************************************************)
EXTENDS Observation, ObserverProofs, SequenceTheorems

-----------------------------------------------------------------------------
(***************************************************************************)
(* What is on its way to the server.  A registration carries the token of  *)
(* the observation, a fetch the one that was drawn for it, which may be    *)
(* the same, an acknowledgement none.                                      *)
(***************************************************************************)
Wanted == [num : Nat, size : BlockSize]

IsRequest(q) ==
    \/ /\ q.kind = "register" /\ q.token = ObserveToken
       /\ q.block = None \/ q.block \in Wanted
    \/ q.kind = "deregister" /\ q.token = ObserveToken /\ q.block = None
    \/ q.kind = "fetch" /\ q.token \in RandomToken
    \/ q.kind = "ack" /\ q.token = EmptyToken /\ q.block = None

RequestsTyped ==
    /\ \A q \in inbox \cup tasks : IsRequest(q)
    /\ request # None => IsRequest(request)
    /\ fetch # None => phase \in {"registered", "observing"} /\ request.token \in RandomToken

\* What the task does with a message: it asks for a block, or for nothing.
LEMMA MessageHandled ==
    ASSUME NEW message, HandleMessage(message)
    PROVE  \/ UNCHANGED <<inbox, outgoing, reply, fetch>> /\ request' = None
           \/ \E token \in RandomToken : \E block : Ask(Fetch(token, block))
BY DEF HandleMessage

LEMMA AskTyped ==
    ASSUME RequestsTyped, NEW q, IsRequest(q), Ask(q), UNCHANGED tasks,
           fetch' # None => phase' \in {"registered", "observing"} /\ q.token \in RandomToken
    PROVE  RequestsTyped'
<1>1. inbox' = inbox \cup {q} /\ request' = q
  BY DEF Ask
<1>2. IsRequest(request')
  BY <1>1
<1>3. \A r \in inbox' \cup tasks' : IsRequest(r)
  BY <1>1 DEF RequestsTyped
<1>4. fetch' # None => phase' \in {"registered", "observing"}
                      /\ request'.token \in RandomToken
  BY <1>1
<1> QED
  BY <1>2, <1>3, <1>4 DEF RequestsTyped, IsRequest

LEMMA FetchIsRequest ==
    ASSUME NEW token \in RandomToken, NEW block
    PROVE  IsRequest(Fetch(token, block)) /\ Fetch(token, block).token = token
BY DEF IsRequest, Fetch

LEMMA HandledTyped ==
    ASSUME RequestsTyped, NEW message, HandleMessage(message), UNCHANGED tasks,
           fetch = None, fetch' # None => phase' \in {"registered", "observing"}
    PROVE  RequestsTyped'
<1>1. CASE UNCHANGED <<inbox, outgoing, reply, fetch>> /\ request' = None
  BY <1>1 DEF RequestsTyped, IsRequest
<1>2. CASE \E token \in RandomToken : \E block : Ask(Fetch(token, block))
  BY <1>2, AskTyped, FetchIsRequest
<1> QED
  BY <1>1, <1>2, MessageHandled

\* Nothing but what was on its way already, or an acknowledgement, is sent.
LEMMA RequestsKept ==
    ASSUME RequestsTyped,
           \A q \in inbox' \cup tasks' : q \in inbox \cup tasks \/ IsRequest(q),
           request' \in {None, request},
           fetch' # None => fetch # None /\ request' = request /\ phase' = phase
    PROVE  RequestsTyped'
BY DEF RequestsTyped, IsRequest

LEMMA ServerRequests ==
    ASSUME RequestsTyped, ServerStep, UNCHANGED clientVars
    PROVE  RequestsTyped'
<1>1. inbox' \cup tasks' \subseteq inbox \cup tasks
  BY DEF ServerStep, ReceiveRegister, ReceiveDeregister, ReceiveFetch, ReceiveAck,
         ReceivePut, Notify, Handled, ListenerStops, Received, Forward, FromCache
<1> QED
  BY <1>1, RequestsKept DEF clientVars

LEMMA TaskRequests ==
    ASSUME RequestsTyped, Task
    PROVE  RequestsTyped'
<1>1. UNCHANGED tasks
  BY DEF Task, Registered, RegistrationFails, Notified, Lost, Terminated, FetchStep,
         FetchAnswered, FetchFails, Untouched
<1>2. CASE Registered \/ Notified
  <2>1. \/ \E message : /\ fetch = None /\ HandleMessage(message)
                        /\ fetch' # None => phase' \in {"registered", "observing"}
        \/ UNCHANGED <<inbox, fetch>> /\ request' = None /\ fetch = None
    BY <1>2 DEF Registered, Notified, Listening, Refused, RequestsTyped
  <2>2. ASSUME NEW message, fetch = None, HandleMessage(message),
               fetch' # None => phase' \in {"registered", "observing"}
        PROVE  RequestsTyped'
    BY <1>1, <2>2, HandledTyped
  <2>3. UNCHANGED <<inbox, fetch>> /\ request' = None /\ fetch = None => RequestsTyped'
    BY <1>1, RequestsKept
  <2> QED
    BY <2>1, <2>2, <2>3
<1>3. CASE RegistrationFails \/ Lost \/ Terminated \/ FetchFails
  <2>1. /\ UNCHANGED inbox /\ request' \in {None, request}
        /\ fetch' # None => fetch # None /\ request' = request /\ phase' = phase
    BY <1>3 DEF RegistrationFails, Lost, Terminated, FetchFails, Refused, Forget, Tell,
                Listening, RequestsTyped
  <2> QED
    BY <1>1, <2>1, RequestsKept
<1>4. CASE FetchAnswered
  <2>1. fetch # None
    BY <1>4 DEF FetchAnswered
  <2>2. \/ UNCHANGED inbox /\ request' = None /\ fetch' = None
        \/ UNCHANGED phase /\ \E block : Ask(Fetch(request.token, block))
    BY <1>4 DEF FetchAnswered, Tell, Forget
  <2>3. phase \in {"registered", "observing"} /\ request.token \in RandomToken
    BY <2>1 DEF RequestsTyped
  <2> QED
    BY <1>1, <2>1, <2>2, <2>3, AskTyped, FetchIsRequest, RequestsKept
<1> QED
  BY <1>2, <1>3, <1>4 DEF Task, FetchStep

LEMMA NetworkRequests ==
    ASSUME RequestsTyped, Network
    PROVE  RequestsTyped'
<1>1. CASE Resend
  BY <1>1, RequestsKept DEF Resend, Untouched, RequestsTyped
<1>2. ASSUME NEW i, Deliver(i) PROVE RequestsTyped'
  <2>1. \A q \in Acks(outbox[i]) : IsRequest(q)
    BY DEF Acks, AckToken, IsRequest
  <2> QED
    BY <1>2, <2>1, RequestsKept DEF Deliver, Untouched
<1>3. ASSUME NEW i, Lose(i) PROVE RequestsTyped'
  BY <1>3, RequestsKept DEF Lose, Untouched, clientVars
<1>4. CASE TransportFails
  BY <1>4, RequestsKept DEF TransportFails, Untouched
<1> QED
  BY <1>1, <1>2, <1>3, <1>4 DEF Network

LEMMA TerminateRequests ==
    ASSUME RequestsTyped, Terminate
    PROVE  RequestsTyped'
<1> DEFINE q == [kind |-> "deregister", token |-> ObserveToken, block |-> None]
<1>1. IsRequest(q)
  BY DEF IsRequest
<1>2. Ask(q) /\ UNCHANGED <<tasks, fetch>> /\ fetch = None
  BY DEF Terminate, Listening, Untouched
<1> HIDE DEF q
<1> QED
  BY <1>1, <1>2, AskTyped

LEMMA DroppedRequests ==
    ASSUME RequestsTyped, Dropped
    PROVE  RequestsTyped'
BY RequestsKept DEF Dropped, Untouched

LEMMA RequestsInit == ObservationInit => RequestsTyped
<1> SUFFICES ASSUME ObservationInit PROVE RequestsTyped
  OBVIOUS
<1>1. PICK block \in Preferred : request = RegisterRequest(block)
  BY DEF ObservationInit
<1>2. block = None \/ block \in Wanted
  BY DEF Preferred, Wanted
<1>3. IsRequest(request)
  BY <1>1, <1>2 DEF RegisterRequest, IsRequest
<1> QED
  BY <1>3 DEF ObservationInit, ServerInit, RequestsTyped

LEMMA RequestsStep == RequestsTyped /\ [ObservationNext]_allVars => RequestsTyped'
<1> SUFFICES ASSUME RequestsTyped, [ObservationNext]_allVars PROVE RequestsTyped'
  OBVIOUS
<1>1. CASE UNCHANGED allVars
  BY <1>1, RequestsKept DEF allVars, serverVars, clientVars
<1> QED
  BY <1>1, ServerRequests, TaskRequests, NetworkRequests, TerminateRequests, DroppedRequests
     DEF ObservationNext

-----------------------------------------------------------------------------
(***************************************************************************)
(* The composed system implements the specification of the registry: every *)
(* step of it is one of the registry's, or leaves the registry alone.      *)
(***************************************************************************)
LEMMA ServerImplements ==
    ASSUME TypeOK, RequestsTyped, ServerStep
    PROVE  [Next]_vars
<1>1. ObserveToken \in Token /\ Client \in Addr /\ Resource \in Path
      /\ Registration \in Key
  BY ServerAssumption, ObservationAssumption DEF Registration, Key
<1>2. ASSUME NEW q \in inbox, ReceiveRegister(q) PROVE [Next]_vars
  <2>1. CASE UNCHANGED observerVars
    BY <2>1 DEF observerVars
  <2>2. CASE Register(Client, Resource, q.token, IF q.block = None THEN None ELSE q.block.size)
    <3>1. IsRequest(q) /\ q.kind = "register"
      BY <1>2 DEF RequestsTyped, ReceiveRegister
    <3>2. q.token = ObserveToken /\ (q.block = None \/ q.block.size \in BlockSize)
      BY <3>1 DEF IsRequest, Wanted
    <3>3. (IF q.block = None THEN None ELSE q.block.size) \in BlockSize \cup {None}
      BY <3>2
    <3> QED
      BY <1>1, <2>2, <3>2, <3>3 DEF Next, Request
  <2> QED
    BY <1>2, <2>1, <2>2 DEF ReceiveRegister, Forward, FromCache
<1>3. ASSUME NEW q \in inbox, ReceiveDeregister(q) PROVE [Next]_vars
  <2>1. CASE UNCHANGED observerVars
    BY <2>1 DEF observerVars
  <2>2. CASE Observing /\ registerResources[Registration].token = q.token
             /\ Deregister(Client, Resource, q.token)
    <3>1. q.token \in Token
      BY <2>2 DEF Observing, TypeOK, RegisterResourceItem
    <3> QED
      BY <1>1, <2>2, <3>1 DEF Next, Request
  <2> QED
    BY <1>3, <2>1, <2>2 DEF ReceiveDeregister
<1>4. ASSUME NEW q \in inbox, ReceiveAck(q) PROVE [Next]_vars
  <2>1. CASE UNCHANGED observerVars
    BY <2>1 DEF observerVars
  <2>2. CASE Observing /\ registerResources[Registration].token = q.token
             /\ q.mid \in DOMAIN unacknowledgeMessages /\ Acknowledge(q.mid, q.token)
    <3>1. q.token \in Token /\ q.mid \in Mid
      BY <2>2 DEF Observing, TypeOK, RegisterResourceItem
    <3> QED
      BY <2>2, <3>1 DEF Next, Request
  <2> QED
    BY <1>4, <2>1, <2>2 DEF ReceiveAck
<1>5. ASSUME NEW q \in inbox, ReceiveFetch(q) PROVE [Next]_vars
  BY <1>5 DEF ReceiveFetch, Forward, FromCache, observerVars
<1>6. ASSUME NEW n \in PayloadLen, ReceivePut(n) PROVE [Next]_vars
  BY <1>1, <1>6 DEF ReceivePut, Next, Request
<1>7. CASE Notify
  BY <1>1, <1>7 DEF Notify, Next, Rounds
<1>8. ASSUME NEW q \in tasks, Handled(q) PROVE [Next]_vars
  BY <1>8 DEF Handled, observerVars
<1>9. CASE ListenerStops
  BY <1>9 DEF ListenerStops, observerVars
<1> QED
  BY <1>2, <1>3, <1>4, <1>5, <1>6, <1>7, <1>8, <1>9 DEF ServerStep

\* The client and the network leave the registry alone.
LEMMA ClientLeaves ==
    ASSUME Task \/ Terminate \/ Dropped \/ Network
    PROVE  UNCHANGED observerVars
BY DEF Task, Registered, RegistrationFails, Notified, Lost, Terminated, FetchStep,
       FetchAnswered, FetchFails, Terminate, Dropped, Network, Resend, Deliver, Lose,
       TransportFails, Untouched

LEMMA StepImplements ==
    TypeOK /\ RequestsTyped /\ [ObservationNext]_allVars => [Next]_vars
<1> SUFFICES ASSUME TypeOK, RequestsTyped, [ObservationNext]_allVars PROVE [Next]_vars
  OBVIOUS
<1>1. CASE UNCHANGED allVars
  BY <1>1 DEF allVars, observerVars
<1> QED
  BY <1>1, ServerImplements, ClientLeaves DEF ObservationNext, observerVars

\* What server and client do together is something the registry's own
\* specification allows, so every theorem about the registry holds of them: the
\* server calls it only as it may be called, and one call at a time
\* (server.rs:262-500).
THEOREM ImplementsRegistry == ObservationSpec => Spec
<1>1. ObservationInit => Init /\ TypeOK /\ RequestsTyped
  BY InitType, RequestsInit DEF ObservationInit, ServerInit
<1>2. TypeOK /\ RequestsTyped /\ [ObservationNext]_allVars => TypeOK' /\ RequestsTyped'
  BY StepImplements, NextType, RequestsStep
<1> QED
  BY <1>1, <1>2, StepImplements, PTL DEF ObservationSpec, Spec

-----------------------------------------------------------------------------
(***************************************************************************)
(* Acknowledgements settle nothing.  The only registration has the token   *)
(* of the observation, which no acknowledgement carries.                   *)
(***************************************************************************)
OneRegistration ==
    \A k \in DOMAIN registerResources :
       k = Registration /\ registerResources[k].token = ObserveToken

SizeOf(block) == IF block = None THEN None ELSE block.size

\* Which of the registry's operations are called, and for what.
RegistryCalled ==
    \/ UNCHANGED observerVars
    \/ Panic
    \/ \E q \in inbox : q.kind = "register" /\
         Register(Client, Resource, ObserveToken, SizeOf(q.block))
    \/ Deregister(Client, Resource, ObserveToken) /\ ~Panic
    \/ \E n \in PayloadLen : ResourceChanged(Resource, n)
    \/ NotifyChanged(Registration) /\ ~Panic

\* The server does not know the token of an acknowledgement.
LEMMA AckIgnored ==
    ASSUME RequestsTyped, OneRegistration, NEW q \in inbox, ReceiveAck(q)
    PROVE  UNCHANGED observerVars
<1>1. IsRequest(q) /\ q.kind = "ack"
  BY DEF RequestsTyped, ReceiveAck
<1>2. q.token = EmptyToken
  BY <1>1 DEF IsRequest
<1>3. Observing => registerResources[Registration].token # q.token
  BY <1>2, ObservationAssumption DEF OneRegistration, Observing
<1> QED
  BY <1>3 DEF ReceiveAck

LEMMA ServerCalls ==
    ASSUME RequestsTyped, OneRegistration, ServerStep
    PROVE  RegistryCalled
<1>1. ASSUME NEW q \in inbox, ReceiveRegister(q) PROVE RegistryCalled
  <2>1. IsRequest(q) /\ q.kind = "register"
    BY <1>1 DEF RequestsTyped, ReceiveRegister
  <2>2. q.token = ObserveToken
    BY <2>1 DEF IsRequest
  <2> QED
    BY <1>1, <2>1, <2>2 DEF ReceiveRegister, Forward, FromCache, RegistryCalled, SizeOf
<1>2. ASSUME NEW q \in inbox, ReceiveDeregister(q) PROVE RegistryCalled
  <2>1. IsRequest(q) /\ q.kind = "deregister"
    BY <1>2 DEF RequestsTyped, ReceiveDeregister
  <2>2. q.token = ObserveToken
    BY <2>1 DEF IsRequest
  <2> QED
    BY <1>2, <2>2 DEF ReceiveDeregister, RegistryCalled
<1>3. ASSUME NEW q \in inbox, ReceiveAck(q) PROVE RegistryCalled
  BY <1>3, AckIgnored DEF RegistryCalled
<1>4. ASSUME NEW q \in inbox, ReceiveFetch(q) PROVE RegistryCalled
  BY <1>4 DEF ReceiveFetch, Forward, FromCache, RegistryCalled
<1>5. ASSUME NEW n \in PayloadLen, ReceivePut(n) PROVE RegistryCalled
  BY <1>5 DEF ReceivePut, RegistryCalled
<1>6. CASE Notify
  BY <1>6 DEF Notify, RegistryCalled
<1>7. ASSUME NEW q \in tasks, Handled(q) PROVE RegistryCalled
  BY <1>7 DEF Handled, RegistryCalled
<1>8. CASE ListenerStops
  BY <1>8 DEF ListenerStops, RegistryCalled
<1> QED
  BY <1>1, <1>2, <1>3, <1>4, <1>5, <1>6, <1>7, <1>8 DEF ServerStep

LEMMA StepCalls ==
    ASSUME RequestsTyped, OneRegistration, [ObservationNext]_allVars
    PROVE  RegistryCalled
BY ServerCalls, ClientLeaves DEF ObservationNext, RegistryCalled, allVars

\* What a call does to the registration.
LEMMA CallEffect ==
    ASSUME TypeOK, RegistryCalled
    PROVE  \/ UNCHANGED registerResources
           \/ \E q \in inbox :
                /\ q.kind = "register"
                /\ registerResources' =
                     Bind(registerResources, Registration,
                          [token |-> ObserveToken, unacknowledged |-> None,
                           block |-> SizeOf(q.block)])
           \/ registerResources' = Unbind(registerResources, Registration)
           \/ /\ Registration \in DOMAIN registerResources
              /\ DOMAIN registerResources' = DOMAIN registerResources
              /\ registerResources'[Registration].token =
                   registerResources[Registration].token
              /\ registerResources'[Registration].block =
                   registerResources[Registration].block
<1>1. ASSUME NEW q \in inbox, Register(Client, Resource, ObserveToken, SizeOf(q.block))
      PROVE  registerResources' =
               Bind(registerResources, Registration,
                    [token |-> ObserveToken, unacknowledged |-> None,
                     block |-> SizeOf(q.block)])
  BY <1>1 DEF Register, RecordRegisterResource, Registration
<1>2. CASE Deregister(Client, Resource, ObserveToken) /\ ~Panic
  BY <1>2 DEF Deregister, RemoveFromIndexes, Registration
<1>3. CASE NotifyChanged(Registration) /\ ~Panic
  <2>1. /\ Registration \in DOMAIN registerResources
        /\ registerResources[Registration] \in RegisterResourceItem
    BY <1>3 DEF NotifyChanged, NotifyBroken, TypeOK
  <2>2. registerResources' =
          [registerResources EXCEPT ![Registration] =
             [registerResources[Registration] EXCEPT !.unacknowledged = NextMid]]
    BY <1>3 DEF NotifyChanged
  <2>3. /\ registerResources'[Registration].token = registerResources[Registration].token
        /\ registerResources'[Registration].block = registerResources[Registration].block
    BY <2>1, <2>2 DEF RegisterResourceItem
  <2> QED
    BY <2>1, <2>2, <2>3
<1>4. (\E n \in PayloadLen : ResourceChanged(Resource, n)) \/ Panic \/ UNCHANGED observerVars
      => UNCHANGED registerResources
  BY DEF ResourceChanged, Panic, observerVars, vars
<1> QED
  BY <1>1, <1>2, <1>3, <1>4 DEF RegistryCalled

LEMMA StillOne ==
    ASSUME TypeOK, OneRegistration, RegistryCalled
    PROVE  OneRegistration'
<1>1. CASE UNCHANGED registerResources
  BY <1>1 DEF OneRegistration, Registration
<1>2. ASSUME NEW b, registerResources' =
               Bind(registerResources, Registration,
                    [token |-> ObserveToken, unacknowledged |-> None, block |-> b])
      PROVE  OneRegistration'
  BY <1>2 DEF OneRegistration, Bind, Registration
<1>3. CASE registerResources' = Unbind(registerResources, Registration)
  BY <1>3 DEF Unbind, Restrict, OneRegistration, Registration
<1>4. CASE /\ Registration \in DOMAIN registerResources
           /\ DOMAIN registerResources' = DOMAIN registerResources
           /\ registerResources'[Registration].token = registerResources[Registration].token
  BY <1>4 DEF OneRegistration, Registration
<1> QED
  BY <1>1, <1>2, <1>3, <1>4, CallEffect

\* What the registry is called for holds throughout.
CallsInv == TypeOK /\ RequestsTyped /\ OneRegistration

LEMMA CallsInit == ObservationInit => CallsInv
BY InitType, RequestsInit DEF ObservationInit, ServerInit, Init, NoFunction, CallsInv,
   OneRegistration

LEMMA CallsStep == CallsInv /\ [ObservationNext]_allVars => CallsInv' /\ RegistryCalled
BY StepImplements, NextType, RequestsStep, StepCalls, StillOne DEF CallsInv

\* A step that takes an acknowledgement from what is on its way receives it, or
\* stops the listener.
LEMMA AckTaken ==
    ASSUME CallsInv, [ObservationNext]_allVars, NEW q \in inbox \ inbox', q.kind = "ack"
    PROVE  UNCHANGED observerVars
<1>1. CASE UNCHANGED allVars
  BY <1>1 DEF allVars, observerVars
<1>2. CASE Task \/ Terminate \/ Dropped \/ Network
  BY <1>2, ClientLeaves
<1>3. CASE ServerStep
  <2>1. ASSUME NEW r \in inbox, Received(r) PROVE q = r
    BY <2>1 DEF Received
  <2>2. ASSUME NEW r \in inbox,
               ReceiveRegister(r) \/ ReceiveDeregister(r) \/ ReceiveFetch(r) \/ ReceiveAck(r)
        PROVE  UNCHANGED observerVars
    <3>1. q = r
      BY <2>1, <2>2 DEF ReceiveRegister, ReceiveDeregister, ReceiveFetch, ReceiveAck
    <3>2. ReceiveAck(r)
      BY <2>2, <3>1 DEF ReceiveRegister, ReceiveDeregister, ReceiveFetch
    <3> QED
      BY <3>2, AckIgnored DEF CallsInv
  <2>3. ASSUME NEW n \in PayloadLen, ReceivePut(n) PROVE FALSE
    BY <2>3 DEF ReceivePut
  <2>4. CASE Notify
    BY <2>4 DEF Notify
  <2>5. ASSUME NEW r \in tasks, Handled(r) PROVE UNCHANGED observerVars
    BY <2>5 DEF Handled
  <2>6. CASE ListenerStops
    BY <2>6 DEF ListenerStops
  <2> QED
    BY <1>3, <2>2, <2>3, <2>4, <2>5, <2>6 DEF ServerStep
<1> QED
  BY <1>1, <1>2, <1>3 DEF ObservationNext

\* No acknowledgement of this library's client, which are empty messages, settles
\* a notification of its server, which looks for the token: the step that takes
\* one leaves all that is pending as it was, for any loss and repetition
\* (observer.rs:519, client.rs:214-220).
THEOREM AckSettlesNothingCorrect == ObservationSpec => AckSettlesNothing
<1>1. CallsInv /\ [ObservationNext]_allVars =>
        [\A q \in inbox \ inbox' : q.kind = "ack" => UNCHANGED unacknowledgeMessages]_allVars
  BY AckTaken DEF observerVars, vars
<1> QED
  BY <1>1, CallsInit, CallsStep, PTL DEF ObservationSpec, AckSettlesNothing

-----------------------------------------------------------------------------
(***************************************************************************)
(* Sequences, and what is cut from a payload.                              *)
(***************************************************************************)
LEMMA Appended ==
    ASSUME NEW S, NEW s \in Seq(S), NEW x \in S
    PROVE  /\ Append(s, x) \in Seq(S)
           /\ Range(Append(s, x)) = Range(s) \cup {x}
<1>1. /\ Append(s, x) \in Seq(S) /\ Len(Append(s, x)) = Len(s) + 1
      /\ \A i \in 1 .. Len(s) : Append(s, x)[i] = s[i]
      /\ Append(s, x)[Len(s) + 1] = x
  BY AppendProperties
<1>2. Len(s) \in Nat /\ DOMAIN s = 1 .. Len(s)
      /\ DOMAIN Append(s, x) = 1 .. Len(s) + 1
  BY <1>1, LenProperties
<1>3. DOMAIN Append(s, x) = DOMAIN s \cup {Len(s) + 1}
  BY <1>2
<1>4. \A i \in DOMAIN s : Append(s, x)[i] = s[i]
  BY <1>1, <1>2
<1> QED
  BY <1>1, <1>3, <1>4 DEF Range

LEMMA TailOf ==
    ASSUME NEW S, NEW s \in Seq(S), s # <<>>
    PROVE  /\ Head(s) \in Range(s) /\ Head(s) = s[1] /\ Len(s) >= 1
           /\ Tail(s) \in Seq(S) /\ Range(Tail(s)) \subseteq Range(s)
           /\ Len(Tail(s)) = Len(s) - 1
           /\ \A i \in 1 .. Len(Tail(s)) : Tail(s)[i] = s[i + 1]
<1>1. Len(s) \in Nat /\ Len(s) >= 1 /\ DOMAIN s = 1 .. Len(s)
  BY EmptySeq, LenProperties
<1>2. /\ Tail(s) \in Seq(S) /\ Len(Tail(s)) = Len(s) - 1
      /\ \A i \in 1 .. Len(Tail(s)) : Tail(s)[i] = s[i + 1]
  BY HeadTailProperties
<1>3. DOMAIN Tail(s) = 1 .. Len(s) - 1
  BY <1>2, LenProperties
<1>4. Head(s) = s[1] /\ 1 \in DOMAIN s
  BY <1>1
<1>5. \A i \in DOMAIN Tail(s) : i + 1 \in DOMAIN s /\ Tail(s)[i] = s[i + 1]
  BY <1>1, <1>2, <1>3
<1> QED
  BY <1>1, <1>2, <1>4, <1>5 DEF Range

LEMMA WithoutOne ==
    ASSUME NEW S, NEW s \in Seq(S), NEW i \in DOMAIN s
    PROVE  /\ Without(s, i) \in Seq(S) /\ Range(Without(s, i)) \subseteq Range(s)
           /\ s[i] \in Range(s) /\ s[i] \in S
           /\ i = 1 => /\ Len(Without(s, i)) = Len(s) - 1
                       /\ \A j \in 1 .. Len(s) - 1 : Without(s, i)[j] = s[j + 1]
<1> DEFINE front == SubSeq(s, 1, i - 1)
           back  == SubSeq(s, i + 1, Len(s))
           R     == Range(s)
<1>1. Len(s) \in Nat /\ DOMAIN s = 1 .. Len(s) /\ i \in 1 .. Len(s)
  BY LenProperties
<1>2. \A j \in 1 .. Len(s) : s[j] \in R
  BY <1>1 DEF Range
<1>3. R \subseteq S
  BY RangeOfSeq
<1>4. front \in Seq(R) /\ (i = 1 => Len(front) = 0)
  <2>1. \A j \in 1 .. i - 1 : s[j] \in R
    BY <1>1, <1>2
  <2> HIDE DEF R
  <2> QED
    BY <1>1, <2>1, SubSeqProperties
<1>5. /\ back \in Seq(R) /\ Len(back) = Len(s) - i
      /\ \A j \in 1 .. Len(s) - i : back[j] = s[i + j]
  <2>1. \A j \in i + 1 .. Len(s) : s[j] \in R
    BY <1>1, <1>2
  <2> HIDE DEF R
  <2>2. /\ back \in Seq(R)
        /\ Len(back) = (IF i + 1 <= Len(s) THEN Len(s) - (i + 1) + 1 ELSE 0)
        /\ \A j \in 1 .. Len(s) - (i + 1) + 1 : back[j] = s[(i + 1) + j - 1]
    BY <1>1, <2>1, SubSeqProperties
  <2> HIDE DEF back
  <2>3. Len(back) = Len(s) - i
    BY <1>1, <2>2
  <2>4. ASSUME NEW j \in 1 .. Len(s) - i PROVE back[j] = s[i + j]
    <3>1. j \in 1 .. Len(s) - (i + 1) + 1 /\ (i + 1) + j - 1 = i + j
      BY <1>1
    <3> QED
      BY <2>2, <3>1
  <2> QED
    BY <2>2, <2>3, <2>4
<1>6. Without(s, i) = front \o back
  BY DEF Without
<1> HIDE DEF front, back, R
<1>7. /\ Without(s, i) \in Seq(R)
      /\ Len(Without(s, i)) = Len(front) + Len(back)
      /\ \A j \in 1 .. Len(front) + Len(back) :
           Without(s, i)[j] = IF j <= Len(front) THEN front[j] ELSE back[j - Len(front)]
  <2>1. front \in Seq(R) /\ back \in Seq(R)
    BY <1>4, <1>5
  <2>2. /\ front \o back \in Seq(R)
        /\ Len(front \o back) = Len(front) + Len(back)
        /\ \A j \in 1 .. Len(front) + Len(back) :
             (front \o back)[j] = IF j <= Len(front) THEN front[j] ELSE back[j - Len(front)]
    BY <2>1, ConcatProperties
  <2> QED
    BY <1>6, <2>2
<1>8. Without(s, i) \in Seq(S) /\ Range(Without(s, i)) \subseteq R
  BY <1>3, <1>7, SeqMonotonic, RangeOfSeq
<1>9. ASSUME i = 1
      PROVE  /\ Len(Without(s, i)) = Len(s) - 1
             /\ \A j \in 1 .. Len(s) - 1 : Without(s, i)[j] = s[j + 1]
  <2>1. Len(Without(s, i)) = Len(s) - 1
    BY <1>1, <1>4, <1>5, <1>7, <1>9
  <2>2. ASSUME NEW j \in 1 .. Len(s) - 1 PROVE Without(s, i)[j] = s[j + 1]
    <3>1. ~(j <= Len(front)) /\ j - Len(front) = j /\ j \in 1 .. Len(front) + Len(back)
          /\ j \in 1 .. Len(s) - i
      BY <1>1, <1>4, <1>5, <1>9
    <3>2. Without(s, i)[j] = back[j] /\ back[j] = s[i + j]
      BY <1>5, <1>7, <3>1
    <3> QED
      BY <1>9, <3>2
  <2> QED
    BY <2>1, <2>2
<1> QED
  BY <1>1, <1>2, <1>3, <1>8, <1>9 DEF R

LEMMA CellsTyped ==
    ASSUME NEW n \in PayloadLen, NEW from \in Nat, NEW to \in Nat, from <= to
    PROVE  /\ Cells(n, from, to) \in Seq(Cell)
           /\ Len(Cells(n, from, to)) = to - from
           /\ \A i \in 1 .. to - from : Cells(n, from, to)[i] = [of |-> n, at |-> from + i]
<1> DEFINE c == Cells(n, from, to)
           length == to - from
<1>1. length \in Nat
  OBVIOUS
<1>2. c = [i \in 1 .. length |-> [of |-> n, at |-> from + i]]
  BY DEF Cells
<1>3. \A i \in 1 .. length : from + i \in Nat
  BY <1>1
<1> HIDE DEF length, c
<1>4. \A i \in 1 .. length : [of |-> n, at |-> from + i] \in Cell
  BY <1>3 DEF Cell
<1>5. c \in [1 .. length -> Cell]
  BY <1>2, <1>4
<1>6. c \in Seq(Cell) /\ Len(c) = length
  BY <1>1, <1>5
<1> QED
  BY <1>2, <1>6 DEF length, c

LEMMA CellsJoin ==
    ASSUME NEW n \in PayloadLen, NEW a \in Nat, NEW b \in Nat, a <= b
    PROVE  Cells(n, 0, a) \o Cells(n, a, b) = Cells(n, 0, b)
<1> DEFINE s == Cells(n, 0, a)
           t == Cells(n, a, b)
           w == Cells(n, 0, b)
<1>1. s \in Seq(Cell) /\ Len(s) = a /\ \A i \in 1 .. a : s[i] = [of |-> n, at |-> i]
  <2>1. /\ s \in Seq(Cell) /\ Len(s) = a - 0
        /\ \A i \in 1 .. a - 0 : s[i] = [of |-> n, at |-> 0 + i]
    BY CellsTyped
  <2> HIDE DEF s
  <2> QED
    BY <2>1
<1>2. /\ t \in Seq(Cell) /\ Len(t) = b - a
      /\ \A i \in 1 .. b - a : t[i] = [of |-> n, at |-> a + i]
  BY CellsTyped
<1>3. w \in Seq(Cell) /\ Len(w) = b /\ \A i \in 1 .. b : w[i] = [of |-> n, at |-> i]
  <2>1. /\ w \in Seq(Cell) /\ Len(w) = b - 0
        /\ \A i \in 1 .. b - 0 : w[i] = [of |-> n, at |-> 0 + i]
    BY CellsTyped
  <2> HIDE DEF w
  <2> QED
    BY <2>1
<1> HIDE DEF s, t, w
<1>4. /\ s \o t \in Seq(Cell) /\ Len(s \o t) = Len(s) + Len(t)
      /\ \A i \in 1 .. Len(s) + Len(t) :
           (s \o t)[i] = IF i <= Len(s) THEN s[i] ELSE t[i - Len(s)]
  BY <1>1, <1>2, ConcatProperties
<1>5. Len(s \o t) = Len(w)
  BY <1>1, <1>2, <1>3, <1>4
<1>6. ASSUME NEW i \in 1 .. Len(s \o t) PROVE (s \o t)[i] = w[i]
  <2>1. CASE i <= a
    BY <1>1, <1>2, <1>3, <1>4, <2>1
  <2>2. CASE i > a
    <3>1. i - a \in 1 .. b - a /\ a + (i - a) = i
      BY <1>1, <1>2, <1>4, <2>2
    <3>2. (s \o t)[i] = t[i - a]
      BY <1>1, <1>2, <1>4, <2>2
    <3>3. t[i - a] = [of |-> n, at |-> i]
      BY <1>2, <3>1
    <3> QED
      BY <1>1, <1>2, <1>3, <1>4, <3>2, <3>3
  <2> QED
    BY <1>1, <1>2, <1>4, <2>1, <2>2
<1>7. s \o t = w
  BY <1>3, <1>4, <1>5, <1>6, SeqEqual
<1> QED
  BY <1>7 DEF s, t, w

\* A block that starts where the payload ends is put after it.
Offset(block) == block.num * block.size

LEMMA OffsetType ==
    ASSUME NEW block, block.num \in Nat, block.size \in Nat
    PROVE  Offset(block) \in Nat
<1>1. \A n, s \in Nat : n * s \in Nat
  OBVIOUS
<1> QED
  BY <1>1 DEF Offset

LEMMA SplicedAfter ==
    ASSUME NEW payload \in Seq(Cell), NEW cells \in Seq(Cell), NEW block,
           block.num \in Nat, block.size \in Nat, Len(payload) = Offset(block)
    PROVE  Blocks!Splice(payload, block, cells) = payload \o cells
<1> DEFINE offset == Offset(block)
           end    == offset + block.size
           padded == [i \in 1 .. end |-> IF i \in DOMAIN payload THEN payload[i] ELSE Error]
           front  == SubSeq(padded, 1, offset)
           back   == SubSeq(padded, end + 1, Len(padded))
<1>1. offset \in Nat /\ end \in Nat /\ offset <= end /\ Len(payload) = offset
  BY DEF Offset
<1>2. (IF Len(payload) < end THEN end ELSE Len(payload)) = end
  BY <1>1
<1>3. Blocks!Splice(payload, block, cells) = front \o cells \o back
  BY <1>2, Zenon DEF Blocks!Splice, Offset
<1> HIDE DEF offset, end
<1>4. DOMAIN payload = 1 .. offset
  BY <1>1, LenProperties
<1>5. /\ DOMAIN padded = 1 .. end
      /\ \A i \in 1 .. offset : padded[i] = payload[i] /\ padded[i] \in Cell
      /\ padded \in [1 .. end -> Cell \cup {Error}]
  <2>1. \A i \in 1 .. offset : payload[i] \in Cell /\ i \in 1 .. end
    BY <1>1, ElementOfSeq
  <2> QED
    BY <1>4, <2>1
<1> HIDE DEF padded
<1>6. Len(padded) = end
  BY <1>1, <1>5
<1>7. front = payload
  <2>1. /\ front \in Seq(Cell)
        /\ Len(front) = (IF 1 <= offset THEN offset - 1 + 1 ELSE 0)
        /\ \A i \in 1 .. offset - 1 + 1 : front[i] = padded[1 + i - 1]
    BY <1>1, <1>5, SubSeqProperties
  <2> HIDE DEF front
  <2>2. Len(front) = offset /\ \A i \in 1 .. offset : front[i] = payload[i]
    BY <1>1, <1>5, <2>1
  <2> QED
    BY <1>1, <2>1, <2>2, SeqEqual
<1>8. back = <<>>
  BY <1>1, <1>6, SubSeqEmpty
<1>9. front \o cells \in Seq(Cell)
  BY <1>7, ConcatProperties
<1> HIDE DEF front, back
<1>10. (front \o cells) \o back = front \o cells
  BY <1>8, <1>9, ConcatEmptySeq
<1> QED
  BY <1>3, <1>7, <1>10

-----------------------------------------------------------------------------
(***************************************************************************)
(* What is on its way to the client: answers without a payload, states of  *)
(* the resource with the token of the observation, and blocks, each of one *)
(* payload.                                                                *)
(***************************************************************************)
Response ==
    [token : Token \cup RandomToken, code : {"Content", "NotFound", "Error"},
     mid : Mid \cup {None}, sequence : Nat \cup {None},
     etag : PayloadLen \cup {None}, block2 : Option2 \cup {None}, cells : Seq(Cell)]

\* The resource was in that state with that sequence number.
Said(sequence, payload) ==
    sequence \in Nat /\ sequence < Len(history) /\ history[sequence + 1] = payload

IsBare(m) == m.sequence = None /\ m.block2 = None /\ m.etag = None
IsNotification(m) ==
    /\ m.token = ObserveToken /\ m.etag \in PayloadLen /\ Said(m.sequence, m.etag)
    /\ \/ m.block2 = None /\ m.cells = Cells(m.etag, 0, m.etag)
       \/ /\ m.block2 \in Option2 /\ m.block2.more /\ m.block2.num = 0
          /\ m.cells = Cells(m.etag, 0, m.block2.size)
Upto(payload, end) == IF end < payload THEN end ELSE payload
CutFrom(m, payload) ==
    LET end == Offset(m.block2) + m.block2.size
    IN  /\ m.etag \in {None, payload} /\ Offset(m.block2) < payload
        /\ m.block2.more <=> end < payload
        /\ m.cells = Cells(payload, Offset(m.block2), Upto(payload, end))
IsBlock(m) ==
    /\ m.sequence = None /\ m.block2 \in Option2
    /\ \E payload \in PayloadLen : CutFrom(m, payload)
IsMessage(m) == IsBare(m) \/ IsNotification(m) \/ IsBlock(m)

FetchesTyped ==
    \A q \in inbox \cup tasks : q.kind = "fetch" => q.block \in Wanted

\* The history is the resource's.
Stated ==
    /\ history \in Seq(PayloadLen)
    /\ IF Resource \in DOMAIN resources
       THEN /\ Len(history) = resources[Resource].sequence + 1
            /\ history[Len(history)] = resources[Resource].payload
       ELSE history = <<>>

CacheTyped ==
    cache # None => cache.payload \in PayloadLen /\ cache.etag \in {None, cache.payload}

\* The block sizes the server knows: of requests, and of the registration.
WantsBlock(q) == q.kind = "fetch" \/ q.block # None
Sizes ==
    {q.block.size : q \in {r \in inbox \cup tasks : WantsBlock(r)}}
      \cup ({registerResources[k].block : k \in DOMAIN registerResources} \ {None})

\* What the server may send: the newest state, or a block; in a size it knows.
Sent(m) ==
    /\ m \in Response
    /\ \/ IsBare(m) \/ IsBlock(m)
       \/ IsNotification(m) /\ m.sequence + 1 = Len(history)
    /\ m.block2 # None => m.block2.size \in Sizes

LEMMA BareSent ==
    ASSUME NEW token \in Token \cup RandomToken,
           NEW code \in {"Content", "NotFound", "Error"}
    PROVE  Sent(Bare(token, code))
<1>1. <<>> \in Seq(Cell)
  BY EmptySeq
<1> QED
  BY <1>1 DEF Bare, Sent, IsBare, Response

LEMMA CutSent ==
    ASSUME NEW q \in inbox \cup tasks, WantsBlock(q), q.token \in Token \cup RandomToken,
           q.block \in Wanted, NEW response, response.payload \in PayloadLen,
           response.etag \in {None, response.payload}, NEW code \in {"Content", "Error"}
    PROVE  Sent(Cut(q.token, q.block, response, code))
<1> DEFINE block == q.block
           payload == response.payload
           offset == Offset(block)
           end == offset + block.size
           m == Cut(q.token, block, response, code)
<1>1. block.num \in Nat /\ block.size \in BlockSize /\ block.size \in Nat
  BY ObserverAssumption DEF Wanted
<1>2. offset \in Nat /\ end \in Nat /\ payload \in Nat /\ offset <= end
  <2>1. offset \in Nat /\ payload \in Nat
    BY <1>1, OffsetType, ObserverAssumption
  <2> HIDE DEF offset
  <2> QED
    BY <1>1, <2>1
<1>3. CASE offset >= payload
  BY <1>3, BareSent DEF Cut, Offset
<1>4. CASE ~(offset >= payload)
  <2> DEFINE block2 == [num |-> block.num, size |-> block.size, more |-> end < payload]
             cells == Cells(payload, offset, Upto(payload, end))
  <2>1. m = [Bare(q.token, "Content") EXCEPT !.etag = response.etag, !.block2 = block2,
                                             !.cells = cells]
    BY <1>4 DEF Cut, Offset, Upto
  <2>2. offset < payload /\ Upto(payload, end) \in Nat /\ offset <= Upto(payload, end)
    BY <1>2, <1>4 DEF Upto
  <2>3. cells \in Seq(Cell)
    BY <1>2, <2>2, CellsTyped
  <2>4. block2 \in Option2 /\ Offset(block2) = offset
    BY <1>1 DEF Option2, Offset
  <2>5. block2.size = block.size /\ (block2.more <=> end < payload)
    OBVIOUS
  <2> HIDE DEF block2, cells, m, offset
  <2>6. /\ m.token = q.token /\ m.sequence = None /\ m.block2 = block2 /\ m.cells = cells
        /\ m.etag = response.etag /\ m \in Response
    BY <2>1, <2>3, <2>4 DEF Bare, Response
  <2>7. CutFrom(m, payload)
    BY <2>2, <2>4, <2>5, <2>6 DEF CutFrom, cells
  <2>8. IsBlock(m)
    BY <2>4, <2>6, <2>7 DEF IsBlock
  <2>9. m.block2.size \in Sizes
    BY <2>5, <2>6 DEF Sizes
  <2> QED
    BY <2>6, <2>8, <2>9 DEF Sent, m
<1> QED
  BY <1>3, <1>4

LEMMA DatagramSent ==
    ASSUME TypeOK, Stated, Resource \in DOMAIN resources, NEW kind,
           NEW mid \in Mid \cup {None}, NEW r, r.token = ObserveToken,
           r.block \in BlockSize \cup {None}, r.block # None => r.block \in Sizes
    PROVE  Sent(Datagram(MessageFor(kind, mid, r, resources[Resource])))
<1> DEFINE s == resources[Resource]
           cut == r.block # None /\ s.payload > r.block
           m == Datagram(MessageFor(kind, mid, r, s))
           block2 == IF cut THEN [num |-> 0, size |-> r.block, more |-> TRUE] ELSE None
           body == IF cut THEN r.block ELSE s.payload
           cells == Cells(s.payload, 0, body)
<1>1. s.payload \in PayloadLen /\ s.payload \in Nat /\ s.sequence \in Nat
  BY ObserverAssumption DEF TypeOK, ResourceItem
<1>2. Said(s.sequence, s.payload) /\ s.sequence + 1 = Len(history)
  BY <1>1 DEF Stated, Said
<1>3. m = [token |-> ObserveToken, code |-> "Content", mid |-> mid,
           sequence |-> s.sequence, etag |-> s.payload, block2 |-> block2, cells |-> cells]
  BY DEF Datagram, MessageFor
<1>4. cut => r.block \in BlockSize /\ r.block \in Nat
  BY ObserverAssumption
<1>5. block2 \in Option2 \cup {None} /\ body \in Nat
  BY <1>1, <1>4 DEF Option2
<1>6. cells \in Seq(Cell)
  <2> HIDE DEF body
  <2> QED
    BY <1>1, <1>5, CellsTyped
<1>7. \/ block2 = None /\ cells = Cells(s.payload, 0, s.payload)
      \/ /\ block2 \in Option2 /\ block2.more /\ block2.num = 0
         /\ cells = Cells(s.payload, 0, block2.size)
  <2>1. CASE cut
    <3>1. block2 = [num |-> 0, size |-> r.block, more |-> TRUE] /\ body = r.block
      BY <2>1
    <3> QED
      BY <1>4, <3>1 DEF Option2
  <2>2. CASE ~cut
    BY <2>2
  <2> QED
    BY <2>1, <2>2
<1>11. block2 # None => block2.size \in Sizes
  OBVIOUS
<1> HIDE DEF block2, cells, m, s
<1>8. ObserveToken \in Token
  BY ObservationAssumption
<1>9. m \in Response
  BY <1>1, <1>3, <1>5, <1>6, <1>8 DEF Response
<1>10. IsNotification(m) /\ m.sequence + 1 = Len(history)
  BY <1>1, <1>2, <1>3, <1>7 DEF IsNotification
<1>12. m.block2 # None => m.block2.size \in Sizes
  BY <1>3, <1>11
<1> QED
  BY <1>9, <1>10, <1>12 DEF Sent, m, s

-----------------------------------------------------------------------------
(***************************************************************************)
(* A step of the server sends at most one message, and no request.         *)
(***************************************************************************)
SameState ==
    /\ Resource \in DOMAIN resources' <=> Resource \in DOMAIN resources
    /\ Resource \in DOMAIN resources =>
         /\ resources'[Resource].sequence = resources[Resource].sequence
         /\ resources'[Resource].payload = resources[Resource].payload

ServerMoves ==
    /\ inbox' \cup tasks' \subseteq inbox \cup tasks /\ Sizes' \subseteq Sizes
    /\ \/ UNCHANGED outbox
       \/ UNCHANGED history /\ \E m : Sent(m) /\ outbox' = Append(outbox, m)
    /\ \/ UNCHANGED history
       \/ \E n \in PayloadLen : history' = Append(history, n)
    /\ CacheTyped' /\ Stated'

SentInvariant == CallsInv /\ IndexesAgree /\ FetchesTyped /\ Stated /\ CacheTyped

LEMMA StatedKept ==
    ASSUME Stated, SameState, UNCHANGED history
    PROVE  Stated'
BY DEF Stated, SameState

LEMMA Changed ==
    ASSUME TypeOK, NEW S
    PROVE  LET new == [resources EXCEPT ![Resource].registered = S]
           IN  /\ DOMAIN new = DOMAIN resources
               /\ Resource \in DOMAIN resources =>
                    /\ new[Resource].sequence = resources[Resource].sequence
                    /\ new[Resource].payload = resources[Resource].payload
BY DEF TypeOK, ResourceItem

LEMMA StatedPut ==
    ASSUME TypeOK, Stated, NEW n \in PayloadLen, ResourceChanged(Resource, n),
           history' = Append(history, n)
    PROVE  Stated'
<1>1. /\ history' \in Seq(PayloadLen) /\ Len(history') = Len(history) + 1
      /\ history'[Len(history) + 1] = n /\ Len(history) \in Nat
  BY AppendProperties, LenProperties DEF Stated
<1>2. Resource \in DOMAIN resources'
  BY DEF ResourceChanged, Bind
<1>3. CASE Resource \in DOMAIN resources
  <2>1. resources[Resource] \in ResourceItem
    BY <1>3 DEF TypeOK
  <2>2. resources'[Resource] = [resources[Resource] EXCEPT !.sequence = @ + 1, !.payload = n]
    BY <1>3 DEF ResourceChanged, Bind
  <2>3. /\ resources'[Resource].sequence = resources[Resource].sequence + 1
        /\ resources'[Resource].payload = n
    BY <2>1, <2>2 DEF ResourceItem
  <2>4. Len(history) = resources[Resource].sequence + 1
    BY <1>3 DEF Stated
  <2> QED
    BY <1>1, <1>2, <2>3, <2>4 DEF Stated
<1>4. CASE Resource \notin DOMAIN resources
  <2>1. resources'[Resource] = [payload |-> n, registered |-> {}, sequence |-> 0]
    BY <1>4 DEF ResourceChanged, Bind
  <2>2. Len(history) = 0
    BY <1>4, EmptySeq DEF Stated
  <2> QED
    BY <1>1, <1>2, <2>1, <2>2 DEF Stated
<1> QED
  BY <1>3, <1>4

LEMMA SizesStay ==
    ASSUME CallsInv, RegistryCalled, inbox' \cup tasks' \subseteq inbox \cup tasks
    PROVE  Sizes' \subseteq Sizes
<1>1. OneRegistration /\ OneRegistration'
  BY StillOne DEF CallsInv
<1>2. ASSUME NEW k \in DOMAIN registerResources', registerResources'[k].block # None
      PROVE  registerResources'[k].block \in Sizes
  <2>1. k = Registration
    BY <1>1, <1>2 DEF OneRegistration, Registration
  <2>2. CASE UNCHANGED registerResources
    BY <1>2, <2>2 DEF Sizes
  <2>3. ASSUME NEW q \in inbox,
               registerResources' =
                 Bind(registerResources, Registration,
                      [token |-> ObserveToken, unacknowledged |-> None,
                       block |-> SizeOf(q.block)])
        PROVE  registerResources'[k].block \in Sizes
    <3>1. registerResources'[k].block = SizeOf(q.block)
      BY <2>1, <2>3 DEF Bind
    <3>2. q.block # None /\ SizeOf(q.block) = q.block.size
      BY <1>2, <3>1 DEF SizeOf
    <3> QED
      BY <3>1, <3>2 DEF Sizes, WantsBlock
  <2>4. CASE registerResources' = Unbind(registerResources, Registration)
    BY <2>1, <2>4, <1>2 DEF Unbind, Restrict
  <2>5. CASE /\ Registration \in DOMAIN registerResources
             /\ registerResources'[Registration].block =
                  registerResources[Registration].block
    BY <1>2, <2>1, <2>5 DEF Sizes
  <2> QED
    BY <2>2, <2>3, <2>4, <2>5, CallEffect DEF CallsInv
<1>3. ASSUME NEW q \in inbox' \cup tasks', WantsBlock(q) PROVE q.block.size \in Sizes
  BY <1>3 DEF Sizes
<1> QED
  BY <1>2, <1>3 DEF Sizes

\* What the server does to the requests and the registration.
LEMMA SizesMove ==
    ASSUME SentInvariant, ServerStep
    PROVE  Sizes' \subseteq Sizes
<1>1. inbox' \cup tasks' \subseteq inbox \cup tasks
  BY DEF ServerStep, ReceiveRegister, ReceiveDeregister, ReceiveFetch, ReceiveAck,
         ReceivePut, Notify, Handled, ListenerStops, Received, Forward, FromCache
<1> QED
  BY <1>1, SizesStay, ServerCalls DEF SentInvariant, CallsInv

LEMMA CachedSent ==
    ASSUME SentInvariant, NEW q \in inbox, WantsBlock(q), q.block \in Wanted, FromCache(q),
           UNCHANGED history, Sizes' \subseteq Sizes, inbox' \subseteq inbox
    PROVE  ServerMoves
<1>1. /\ cache # None /\ Respond(Cut(q.token, q.block, cache, "Content"))
      /\ UNCHANGED <<tasks, cache, observerVars>>
  BY DEF FromCache
<1>2. CacheTyped' /\ Stated'
  BY <1>1, StatedKept DEF SentInvariant, CacheTyped, SameState, observerVars, vars
<1>3. q.token \in Token \cup RandomToken
  BY ObservationAssumption DEF SentInvariant, CallsInv, RequestsTyped, IsRequest
<1>4. Sent(Cut(q.token, q.block, cache, "Content"))
  BY <1>1, <1>3, CutSent DEF SentInvariant, CacheTyped
<1> QED
  BY <1>1, <1>2, <1>4 DEF ServerMoves, Respond

LEMMA RegisterMoves ==
    ASSUME SentInvariant, NEW q \in inbox, ReceiveRegister(q), Sizes' \subseteq Sizes
    PROVE  ServerMoves
<1>1. UNCHANGED history /\ inbox' \subseteq inbox /\ TypeOK /\ q \in inbox \cup tasks
  BY DEF ReceiveRegister, Received, SentInvariant, CallsInv
<1>2. q.token = ObserveToken /\ (q.block = None \/ q.block \in Wanted)
  BY <1>1 DEF ReceiveRegister, SentInvariant, CallsInv, RequestsTyped, IsRequest
<1> DEFINE b == IF q.block = None THEN None ELSE q.block.size
           r == [token |-> q.token, unacknowledged |-> None, block |-> b]
           m == Datagram(MessageFor("registered", None, r, resources[Resource]))
<1>3. b \in BlockSize \cup {None} /\ ObserveToken \in Token
  BY <1>2, ObservationAssumption DEF Wanted
<1>7. b # None => b \in Sizes
  BY <1>1 DEF Sizes, WantsBlock
<1>4. CASE /\ Resource \in DOMAIN resources /\ Register(Client, Resource, q.token, b)
           /\ HandedOver("registered", None) /\ UNCHANGED <<tasks, cache>>
  <2>1. registerResources'[Registration] = r
    BY <1>4 DEF Register, RecordRegisterResource, Bind, Registration
  <2>2. Sent(m)
    BY <1>1, <1>2, <1>3, <1>4, <1>7, DatagramSent DEF SentInvariant
  <2>3. resources' = [resources EXCEPT ![Resource].registered = @ \cup {Registration}]
    BY <1>4 DEF Register, RecordRegisterResource, Registration
  <2>4. SameState
    BY <1>1, <2>3, Changed DEF SameState
  <2>5. Respond(m) \/ UNCHANGED outbox
    BY <1>4, <2>1 DEF HandedOver
  <2> HIDE DEF m
  <2>6. CacheTyped' /\ Stated'
    BY <1>1, <1>4, <2>4, StatedKept DEF SentInvariant, CacheTyped
  <2> QED
    BY <1>1, <1>4, <2>2, <2>5, <2>6 DEF ServerMoves, Respond
<1>5. CASE Respond(Bare(q.token, "NotFound")) /\ UNCHANGED <<tasks, cache, observerVars>>
  <2>1. Sent(Bare(q.token, "NotFound"))
    BY <1>2, <1>3, BareSent
  <2>2. CacheTyped' /\ Stated'
    BY <1>1, <1>5, StatedKept DEF SentInvariant, CacheTyped, SameState, observerVars, vars
  <2> QED
    BY <1>1, <1>5, <2>1, <2>2 DEF ServerMoves, Respond
<1>6. CASE Forward(q)
  <2>1. CacheTyped' /\ Stated'
    BY <1>1, <1>6, StatedKept
       DEF Forward, SentInvariant, CacheTyped, SameState, observerVars, vars
  <2> QED
    BY <1>1, <1>6, <2>1 DEF ServerMoves, Forward
<1>8. CASE FromCache(q)
  <2>1. q.block \in Wanted /\ WantsBlock(q)
    BY <1>2, <1>8 DEF FromCache, WantsBlock
  <2> QED
    BY <1>1, <1>8, <2>1, CachedSent
<1> QED
  BY <1>4, <1>5, <1>6, <1>8 DEF ReceiveRegister

LEMMA DeregisterMoves ==
    ASSUME SentInvariant, NEW q \in inbox, ReceiveDeregister(q), Sizes' \subseteq Sizes
    PROVE  ServerMoves
<1>1. /\ UNCHANGED <<history, outbox, cache>> /\ inbox' \subseteq inbox
      /\ tasks' = tasks \cup {q} /\ TypeOK
  BY DEF ReceiveDeregister, Received, SentInvariant, CallsInv
<1>2. \/ UNCHANGED resources
      \/ resources' = [resources EXCEPT ![Resource].registered = @ \ {Registration}]
  BY DEF ReceiveDeregister, Deregister, Panic, RemoveFromIndexes, Registration,
         observerVars, vars
<1>3. SameState
  BY <1>1, <1>2, Changed DEF SameState
<1> QED
  BY <1>1, <1>3, StatedKept DEF ServerMoves, SentInvariant, CacheTyped

LEMMA FetchMoves ==
    ASSUME SentInvariant, NEW q \in inbox, ReceiveFetch(q), Sizes' \subseteq Sizes
    PROVE  ServerMoves
<1>1. /\ UNCHANGED history /\ inbox' \subseteq inbox /\ q \in inbox \cup tasks
      /\ q.kind = "fetch" /\ UNCHANGED <<cache, observerVars>>
  BY DEF ReceiveFetch, Received, Forward, FromCache
<1>2. CacheTyped' /\ Stated'
  BY <1>1, StatedKept DEF SentInvariant, CacheTyped, SameState, observerVars, vars
<1>3. CASE FromCache(q)
  <2>1. q.block \in Wanted /\ WantsBlock(q)
    BY <1>1 DEF SentInvariant, FetchesTyped, WantsBlock
  <2> QED
    BY <1>1, <1>3, <2>1, CachedSent
<1>4. CASE Forward(q)
  BY <1>1, <1>2, <1>4 DEF ServerMoves, Forward
<1> QED
  BY <1>3, <1>4 DEF ReceiveFetch

LEMMA AckMoves ==
    ASSUME SentInvariant, NEW q \in inbox, ReceiveAck(q), Sizes' \subseteq Sizes
    PROVE  ServerMoves
<1>1. UNCHANGED <<history, tasks, cache, outbox>> /\ inbox' \subseteq inbox
  BY DEF ReceiveAck, Received
<1>2. UNCHANGED resources
  BY DEF ReceiveAck, Acknowledge, Panic, observerVars, vars
<1> QED
  BY <1>1, <1>2, StatedKept DEF ServerMoves, SentInvariant, CacheTyped, SameState

LEMMA NotifyMoves ==
    ASSUME SentInvariant, Notify, Sizes' \subseteq Sizes
    PROVE  ServerMoves
<1>1. UNCHANGED <<history, inbox, tasks, cache, resources>> /\ TypeOK
  BY DEF Notify, NotifyChanged, Panic, SentInvariant, CallsInv
<1>2. CacheTyped' /\ Stated'
  BY <1>1, StatedKept DEF SentInvariant, CacheTyped, SameState
<1>3. CASE UNCHANGED outbox
  BY <1>1, <1>2, <1>3 DEF ServerMoves
<1>4. CASE ~panicked' /\ HandedOver("notification", currentMessageId')
  <2> DEFINE r == [registerResources[Registration] EXCEPT !.unacknowledged = NextMid]
             m == Datagram(MessageFor("notification", NextMid, r, resources[Resource]))
  <2>1. /\ Registration \in DOMAIN registerResources /\ Resource \in DOMAIN resources
        /\ registerResources' = [registerResources EXCEPT ![Registration] = r]
        /\ currentMessageId' = NextMid
    BY <1>4 DEF Notify, NotifyChanged, NotifyBroken, Panic, Registration
  <2>2. registerResources[Registration] \in RegisterResourceItem
    BY <1>1, <2>1 DEF TypeOK
  <2>3. r.token = ObserveToken /\ r.block \in BlockSize \cup {None}
        /\ r.block = registerResources[Registration].block
    BY <2>1, <2>2 DEF RegisterResourceItem, SentInvariant, CallsInv, OneRegistration
  <2>7. r.block # None => r.block \in Sizes
    BY <2>1, <2>3 DEF Sizes
  <2>8. registerResources'[Registration] = r
    BY <2>1
  <2>4. NextMid \in Mid \cup {None}
    BY <1>1, NextMidType DEF TypeOK
  <2> HIDE DEF r
  <2>5. Sent(m)
    BY <1>1, <2>1, <2>3, <2>4, <2>7, DatagramSent DEF SentInvariant
  <2>6. Respond(m) \/ UNCHANGED outbox
    BY <1>4, <2>1, <2>8 DEF HandedOver
  <2> HIDE DEF m
  <2> QED
    BY <1>1, <1>2, <2>5, <2>6 DEF ServerMoves, Respond
<1> QED
  BY <1>3, <1>4 DEF Notify

LEMMA HandledMoves ==
    ASSUME SentInvariant, NEW q \in tasks, Handled(q), Sizes' \subseteq Sizes
    PROVE  ServerMoves
<1>1. /\ UNCHANGED <<history, inbox, observerVars>> /\ tasks' \subseteq tasks /\ TypeOK
      /\ q \in inbox \cup tasks
  BY DEF Handled, SentInvariant, CallsInv
<1>2. Stated'
  BY <1>1, StatedKept DEF SentInvariant, SameState, observerVars, vars
<1>3. IsRequest(q)
  BY DEF SentInvariant, CallsInv, RequestsTyped
<1>4. ASSUME q.kind = "fetch", NEW own \in PayloadLen, NEW response,
             response = IF Observing THEN Replacement(own)
                        ELSE [payload |-> own, etag |-> None],
             cache' = response, Respond(Cut(q.token, q.block, response, "Error"))
      PROVE  ServerMoves
  <2>1. Observing => resources[Resource].payload \in PayloadLen
    <3>1. Observing => Resource \in DOMAIN resources
      BY DEF Observing, SentInvariant, IndexesAgree, Registration
    <3> QED
      BY <1>1, <3>1 DEF TypeOK, ResourceItem
  <2>2. response.payload \in PayloadLen /\ response.etag \in {None, response.payload}
    BY <1>4, <2>1 DEF Replacement
  <2>3. q.token \in RandomToken /\ q.block \in Wanted /\ WantsBlock(q)
    BY <1>1, <1>3, <1>4 DEF SentInvariant, FetchesTyped, IsRequest, WantsBlock
  <2>4. Sent(Cut(q.token, q.block, response, "Error"))
    BY <1>1, <1>4, <2>2, <2>3, CutSent
  <2>5. CacheTyped'
    BY <1>4, <2>2 DEF CacheTyped
  <2> QED
    BY <1>1, <1>2, <1>4, <2>4, <2>5 DEF ServerMoves, Respond
<1>5. ASSUME NEW code \in {"Content", "Error"}, Respond(Bare(q.token, code)), UNCHANGED cache
      PROVE  ServerMoves
  <2>1. q.token \in Token \cup RandomToken
    BY <1>3, ObservationAssumption DEF IsRequest
  <2>2. Sent(Bare(q.token, code))
    BY <2>1, BareSent
  <2> QED
    BY <1>1, <1>2, <1>5, <2>2 DEF ServerMoves, Respond, SentInvariant, CacheTyped
<1> QED
  BY <1>4, <1>5 DEF Handled

LEMMA ServerStepMoves ==
    ASSUME SentInvariant, ServerStep
    PROVE  ServerMoves
<1>3. Sizes' \subseteq Sizes
  BY SizesMove
<1>1. ASSUME NEW n \in PayloadLen, ReceivePut(n) PROVE ServerMoves
  <2>1. Stated'
    BY <1>1, StatedPut DEF ReceivePut, SentInvariant, CallsInv
  <2> QED
    BY <1>1, <1>3, <2>1 DEF ReceivePut, ServerMoves, SentInvariant, CacheTyped
<1>2. CASE ListenerStops
  <2>1. Stated'
    BY <1>2, StatedKept DEF ListenerStops, SentInvariant, SameState, observerVars, vars
  <2> QED
    BY <1>2, <1>3, <2>1 DEF ListenerStops, ServerMoves, SentInvariant, CacheTyped
<1> QED
  BY <1>1, <1>2, <1>3, RegisterMoves, DeregisterMoves, FetchMoves, AckMoves, NotifyMoves,
     HandledMoves DEF ServerStep

-----------------------------------------------------------------------------
(***************************************************************************)
(* The task: what it has been told and what it has put together of a       *)
(* notification are from states the resource has had.  All blocks have the *)
(* size the registration asked for, so a block with the number that is     *)
(* waited for continues what has been put together.                        *)
(***************************************************************************)
MessagesTyped ==
    /\ outbox \in Seq(Response) /\ channel \in Seq(Response \cup {Error})
    /\ \A m \in Range(outbox) : IsMessage(m)
    /\ \A m \in Range(channel) : m = Error \/ IsMessage(m)
    /\ reply \notin {None, Error} => reply \in Response /\ IsMessage(reply)

RequestWanted == request # None /\ request.kind = "fetch" => request.block \in Wanted

\* What has been fetched when that block is asked for next.
Fetched(payload, block) ==
    [cached |-> Cells(payload, 0, Offset(block)), expected |-> block.num]

\* What is known of a fetch of a notification.
OfNotification(f, block) ==
    f.about # None =>
      /\ f.etag \in PayloadLen /\ Said(f.about, f.etag)
      /\ f.state = Fetched(f.etag, block)

FetchPlaced ==
    fetch # None =>
      /\ fetch \in Fetching
      /\ request.kind = "fetch" /\ request.block \in Wanted /\ request.block.num # 0
      /\ fetch.state.expected = request.block.num
      /\ OfNotification(fetch, request.block)

ToldWell ==
    told.tag = "ok" =>
      \E payload \in PayloadLen :
        Said(told.about, payload) /\ told.cells = Cells(payload, 0, payload)

\* Who is registered: the observation until it ends or is terminated, or until
\* a fetch takes its place, and a fetch beside it.
Running == {"registering", "registered", "observing"}
Watching == [token \in {ObserveToken} |-> "observation"]
Base == IF collided THEN Nobody ELSE Watching

Senders ==
    /\ failed => outgoing = Nobody
    /\ ~failed /\ phase \in Running =>
         outgoing = IF fetch = None THEN Base ELSE Bind(Base, request.token, "request")
    /\ ~failed /\ phase = "terminating" => outgoing = [token \in {ObserveToken} |-> "request"]
    /\ Ended => outgoing = Nobody
    /\ phase \in Running \cup {"terminating", "dropped"} \/ Ended
    /\ phase = "registering" => ~collided
    /\ fetch # None /\ ~collided => request.token # ObserveToken

ClientInv ==
    /\ SentInvariant /\ MessagesTyped /\ RequestWanted /\ FetchPlaced
    /\ ToldWell /\ Senders

\* All blocks that are asked for or sent have that size.
SizeAsked(b, q) == WantsBlock(q) => q.block.size = b
SizeSent(b, m) == m.block2 # None => m.block2.size = b

Sized(b) ==
    /\ Sizes \subseteq {b}
    /\ fetch # None \/ request # None => SizeAsked(b, request)
    /\ \A m \in Range(outbox) : SizeSent(b, m)
    /\ \A m \in Range(channel) : m = Error \/ SizeSent(b, m)
    /\ reply \notin {None, Error} => SizeSent(b, reply)

(* Blocks that are put together.                                           *)

State == [cached : Seq(Cell \cup {Error}), expected : Nat]

LEMMA CellsPresent ==
    ASSUME NEW s \in Seq(Cell)
    PROVE  s \in Seq(Cell \cup {Error}) /\ s # None
<1> DEFINE C == Cell \cup {Error}
<1>1. Cell \subseteq C
  OBVIOUS
<1> HIDE DEF C
<1>2. s \in Seq(C)
  BY <1>1, SeqMonotonic
<1> QED
  BY <1>2, AbsentAssumption DEF C

\* Whatever is put together is a payload, if one with gaps.
LEMMA SplicedTyped ==
    ASSUME NEW payload \in Seq(Cell \cup {Error}), NEW cells \in Seq(Cell), NEW block,
           block.num \in Nat, block.size \in Nat
    PROVE  Blocks!Splice(payload, block, cells) \in Seq(Cell \cup {Error})
<1> DEFINE C      == Cell \cup {Error}
           offset == Offset(block)
           end    == offset + block.size
           length == IF Len(payload) < end THEN end ELSE Len(payload)
           padded == [i \in 1 .. length |-> IF i \in DOMAIN payload THEN payload[i] ELSE Error]
           front  == SubSeq(padded, 1, offset)
           back   == SubSeq(padded, end + 1, Len(padded))
<1>1. offset \in Nat
  BY OffsetType
<1>2. Blocks!Splice(payload, block, cells) = front \o cells \o back
  BY Zenon DEF Blocks!Splice, Offset
<1> HIDE DEF offset, C
<1>3. Len(payload) \in Nat /\ DOMAIN payload = 1 .. Len(payload)
      /\ \A i \in DOMAIN payload : payload[i] \in C
  BY LenProperties, ElementOfSeq DEF C
<1>4. end \in Nat /\ length \in Nat /\ offset <= length
  BY <1>1, <1>3
<1>5. Error \in C
  BY DEF C
<1> HIDE DEF end, length
<1>6. padded \in [1 .. length -> C]
  BY <1>3, <1>5
<1> HIDE DEF padded
<1>7. Len(padded) = length /\ \A i \in 1 .. length : padded[i] \in C
  BY <1>4, <1>6
<1>8. front \in Seq(C)
  BY <1>1, <1>4, <1>7, SubSeqProperties
<1>9. back \in Seq(C)
  BY <1>4, <1>7, SubSeqProperties
<1>10. cells \in Seq(C)
  BY CellsPresent DEF C
<1> HIDE DEF front, back
<1>11. front \o cells \in Seq(C)
  BY <1>8, <1>10, ConcatProperties
<1>12. front \o cells \o back \in Seq(C)
  BY <1>9, <1>11, ConcatProperties
<1> QED
  BY <1>2, <1>12 DEF C

\* What handle_blockwise makes of any block.
LEMMA BlockHandled ==
    ASSUME NEW state, NEW m \in Response, m.block2 # None,
           Blocks!Cached(state) \in Seq(Cell \cup {Error})
    PROVE  LET outcome == Blocks!HandleBlockwise(state, m)
           IN  \/ outcome.tag = "error" /\ Blocks!Unexpected(state, m.block2)
               \/ outcome.tag = "whole" /\ ~m.block2.more
               \/ /\ outcome.tag = "more" /\ m.block2.more
                  /\ outcome.next \in Wanted /\ outcome.next.num # 0
                  /\ outcome.next.size = m.block2.size
                  /\ outcome.state \in State
                  /\ outcome.state.expected = outcome.next.num
<1> DEFINE block == m.block2
           spliced == Blocks!Splice(Blocks!Cached(state), block, m.cells)
           next == [num |-> block.num + 1, size |-> block.size]
           outcome == Blocks!HandleBlockwise(state, m)
<1>1. block \in Option2 /\ m.cells \in Seq(Cell)
  BY DEF Response
<1>2. /\ block.num \in Nat /\ block.size \in Nat /\ block.size \in BlockSize
      /\ block.more \in BOOLEAN
  BY <1>1, ObserverAssumption DEF Option2
<1>3. spliced \in Seq(Cell \cup {Error})
  BY <1>1, <1>2, SplicedTyped
<1>4. next \in Wanted /\ next.num # 0 /\ next.size = block.size /\ block.num + 1 \in Nat
  BY <1>2 DEF Wanted
<1> HIDE DEF spliced
<1>5. CASE Blocks!Unexpected(state, block)
  <2>1. outcome = [tag |-> "error"]
    BY <1>5 DEF Blocks!HandleBlockwise
  <2> QED
    BY <1>5, <2>1
<1>6. CASE ~Blocks!Unexpected(state, block) /\ block.more
  <2>1. outcome = [tag |-> "more",
                   state |-> [cached |-> spliced, expected |-> block.num + 1],
                   next |-> next]
    BY <1>6 DEF Blocks!HandleBlockwise, Blocks!NextNum, spliced
  <2> HIDE DEF next, outcome
  <2>2. [cached |-> spliced, expected |-> block.num + 1] \in State
    BY <1>3, <1>4 DEF State
  <2>3. next.num = block.num + 1
    BY DEF next
  <2> QED
    BY <1>4, <1>6, <2>1, <2>2, <2>3 DEF outcome
<1>7. CASE ~Blocks!Unexpected(state, block) /\ ~block.more
  <2>1. outcome = [tag |-> "whole", payload |-> spliced]
    BY <1>7 DEF Blocks!HandleBlockwise, spliced
  <2> QED
    BY <1>7, <2>1
<1> QED
  BY <1>5, <1>6, <1>7

\* What handle_blockwise makes of a block that continues the payload.
LEMMA Continues ==
    ASSUME NEW state, NEW m \in Response, m.block2 \in Option2, m.block2 # None,
           ~Blocks!Unexpected(state, m.block2), Blocks!Cached(state) \in Seq(Cell),
           Len(Blocks!Cached(state)) = Offset(m.block2)
    PROVE  LET spliced == Blocks!Cached(state) \o m.cells
               next == [num |-> m.block2.num + 1, size |-> m.block2.size]
           IN  Blocks!HandleBlockwise(state, m) =
                 IF m.block2.more
                 THEN [tag |-> "more", state |-> [cached |-> spliced, expected |-> next.num],
                       next |-> next]
                 ELSE [tag |-> "whole", payload |-> spliced]
<1>1. m.cells \in Seq(Cell)
  BY DEF Response
<1>2. m.block2.num \in Nat /\ m.block2.size \in Nat /\ m.block2.more \in BOOLEAN
  BY ObserverAssumption DEF Option2
<1>3. Blocks!Splice(Blocks!Cached(state), m.block2, m.cells) = Blocks!Cached(state) \o m.cells
  BY <1>1, <1>2, SplicedAfter
<1>4. CASE m.block2.more
  BY <1>3, <1>4 DEF Blocks!HandleBlockwise, Blocks!NextNum
<1>5. CASE ~m.block2.more
  BY <1>3, <1>5 DEF Blocks!HandleBlockwise
<1> QED
  BY <1>4, <1>5

LEMMA NextOffset ==
    ASSUME NEW num \in Nat, NEW size \in Nat
    PROVE  Offset([num |-> num + 1, size |-> size])
             = Offset([num |-> num, size |-> size]) + size
<1>1. (num + 1) * size = num * size + size
  OBVIOUS
<1> QED
  BY <1>1 DEF Offset

\* The first block of what is fetched, by which a notification is recognised.
LEMMA FirstBlock ==
    ASSUME NEW message \in Response, IsMessage(message), HasMore(message)
    PROVE  LET first == Blocks!HandleBlockwise(Blocks!EmptyState, message)
               new == [state |-> first.state, etag |-> message.etag,
                       about |-> message.sequence]
           IN  /\ first.next \in Wanted /\ first.next.num # 0
               /\ first.next.size = message.block2.size
               /\ first.state.expected = first.next.num
               /\ new \in Fetching /\ OfNotification(new, first.next)
<1> DEFINE block == message.block2
           next == [num |-> block.num + 1, size |-> block.size]
           cells == message.cells
           first == Blocks!HandleBlockwise(Blocks!EmptyState, message)
           new == [state |-> first.state, etag |-> message.etag, about |-> message.sequence]
<1>1. block # None /\ block.more
  BY DEF HasMore
<1>2. Blocks!Cached(Blocks!EmptyState) = <<>> /\ ~Blocks!Unexpected(Blocks!EmptyState, block)
  BY DEF Blocks!Cached, Blocks!EmptyState, Blocks!Unexpected
<1>3. <<>> \in Seq(Cell) /\ <<>> \in Seq(Cell \cup {Error}) /\ Len(<<>>) = 0
  BY EmptySeq
<1>4. /\ first.next \in Wanted /\ first.next.num # 0 /\ first.next.size = block.size
      /\ first.state \in State /\ first.state.expected = first.next.num
  BY <1>1, <1>2, <1>3, BlockHandled
<1>5. new \in Fetching
  BY <1>4 DEF Fetching, State, Response
<1>6. ASSUME message.sequence # None
      PROVE  /\ message.etag \in PayloadLen /\ Said(message.sequence, message.etag)
             /\ first.state = Fetched(message.etag, first.next)
  <2>1. IsNotification(message)
    BY <1>6 DEF IsMessage, IsBare, IsBlock
  <2>2. /\ block \in Option2 /\ block.more /\ block.num = 0
        /\ cells = Cells(message.etag, 0, block.size)
    BY <1>1, <2>1 DEF IsNotification
  <2>3. block.size \in BlockSize /\ block.size \in Nat
    BY <2>2, ObserverAssumption DEF Option2
  <2>4. Offset(block) = 0 /\ Offset(next) = block.size
    BY <2>2, <2>3 DEF Offset
  <2>5. cells \in Seq(Cell)
    BY DEF Response
  <2>6. <<>> \o cells = cells
    BY <2>5, ConcatEmptySeq
  <2>7. first = [tag |-> "more", state |-> [cached |-> <<>> \o cells, expected |-> next.num],
                 next |-> next]
    BY <1>1, <1>2, <1>3, <2>2, <2>4, Continues
  <2> HIDE DEF cells, next, first
  <2> QED
    BY <2>1, <2>2, <2>4, <2>6, <2>7 DEF Fetched, IsNotification
<1> HIDE DEF first
<1>7. OfNotification(new, first.next)
  BY <1>6 DEF OfNotification
<1> QED
  BY <1>4, <1>5, <1>7 DEF first

\* What a block makes of a notification that is fetched: it is the one that is
\* waited for, of the same payload.
LEMMA NotificationBlock ==
    ASSUME FetchPlaced, fetch # None, fetch.about # None,
           reply \in Response, IsMessage(reply), EtagMatches(reply), reply.block2 # None,
           ~Blocks!Unexpected(fetch.state, reply.block2),
           reply.block2.size = request.block.size
    PROVE  LET outcome == Blocks!HandleBlockwise(fetch.state, reply)
           IN  \/ /\ outcome.tag = "more"
                  /\ outcome.state = Fetched(fetch.etag, outcome.next)
               \/ /\ outcome.tag = "whole"
                  /\ outcome.payload = Cells(fetch.etag, 0, fetch.etag)
<1> DEFINE block == reply.block2
           asked == request.block
           next == [num |-> block.num + 1, size |-> block.size]
           cached == Cells(fetch.etag, 0, Offset(asked))
           outcome == Blocks!HandleBlockwise(fetch.state, reply)
<1>1. /\ fetch.etag \in PayloadLen /\ fetch.etag \in Nat /\ fetch.etag # None
      /\ fetch.state = [cached |-> cached, expected |-> asked.num]
      /\ asked.num \in Nat /\ asked.size \in Nat /\ asked.size \in BlockSize
      /\ asked.num # None /\ asked.num # 0
  BY ObserverAssumption DEF FetchPlaced, OfNotification, Fetched, Wanted
<1>2. reply.etag = fetch.etag
  BY <1>1 DEF EtagMatches
<1>3. block.num = asked.num /\ block.size = asked.size
  BY <1>1 DEF Blocks!Unexpected
<1>4. IsBlock(reply) /\ block \in Option2
  <2>1. ~IsBare(reply)
    BY DEF IsBare
  <2>2. ~IsNotification(reply)
    BY <1>1, <1>3 DEF IsNotification
  <2> QED
    BY <2>1, <2>2 DEF IsMessage, IsBlock
<1>5. PICK payload \in PayloadLen : CutFrom(reply, payload)
  BY <1>4 DEF IsBlock
<1>6. payload = fetch.etag
  BY <1>1, <1>2, <1>5 DEF CutFrom
<1> DEFINE offset == Offset(block)
           end == offset + block.size
           spliced == cached \o reply.cells
<1>7. offset = Offset(asked) /\ offset \in Nat /\ end \in Nat /\ offset <= end
  <2>1. offset = Offset(asked) /\ offset \in Nat
    BY <1>1, <1>3, OffsetType DEF Offset
  <2> HIDE DEF offset
  <2> QED
    BY <1>1, <1>3, <2>1
<1>8. cached \in Seq(Cell) /\ Len(cached) = offset
  <2> HIDE DEF cached, offset
  <2>1. cached = Cells(fetch.etag, 0, offset)
    BY <1>7 DEF cached
  <2>2. Cells(fetch.etag, 0, offset) \in Seq(Cell)
        /\ Len(Cells(fetch.etag, 0, offset)) = offset - 0
    <3>1. fetch.etag \in PayloadLen /\ offset \in Nat /\ 0 \in Nat /\ 0 <= offset
      BY <1>1, <1>7
    <3> QED
      BY <3>1, CellsTyped
  <2> QED
    BY <1>7, <2>1, <2>2
<1>9. Blocks!Cached(fetch.state) = cached
  BY <1>1, <1>8, CellsPresent DEF Blocks!Cached
<1>10. outcome = IF block.more
                 THEN [tag |-> "more", state |-> [cached |-> spliced, expected |-> next.num],
                       next |-> next]
                 ELSE [tag |-> "whole", payload |-> spliced]
  <2> HIDE DEF cached, offset
  <2>1. Blocks!Cached(fetch.state) \in Seq(Cell)
        /\ Len(Blocks!Cached(fetch.state)) = Offset(block)
    BY <1>8, <1>9 DEF offset
  <2> QED
    BY <1>4, <1>9, <2>1, Continues, Zenon
<1>11. /\ offset < payload /\ (block.more <=> end < payload)
       /\ reply.cells = Cells(payload, offset, Upto(payload, end))
  BY <1>5 DEF CutFrom
<1>12. Offset(next) = end
  <2>1. Offset(next) = Offset([num |-> block.num, size |-> block.size]) + block.size
    BY <1>1, <1>3, NextOffset
  <2>2. Offset([num |-> block.num, size |-> block.size]) = offset
    BY DEF Offset
  <2> QED
    BY <2>1, <2>2
<1> HIDE DEF offset, end, cached, outcome, next
<1>13. spliced = Cells(payload, 0, Upto(payload, end))
  <2>1. Upto(payload, end) \in Nat /\ offset <= Upto(payload, end)
    BY <1>1, <1>6, <1>7, <1>11 DEF Upto
  <2>2. cached = Cells(payload, 0, offset)
    BY <1>6, <1>7 DEF cached
  <2> QED
    BY <1>7, <1>11, <2>1, <2>2, CellsJoin
<1> HIDE DEF spliced
<1>14. CASE block.more
  <2>1. Upto(payload, end) = end
    BY <1>11, <1>14 DEF Upto
  <2>2. /\ outcome.tag = "more" /\ outcome.next = next
        /\ outcome.state = [cached |-> spliced, expected |-> next.num]
    BY <1>10, <1>14
  <2> QED
    BY <1>6, <1>12, <1>13, <2>1, <2>2 DEF Fetched, outcome
<1>15. CASE ~block.more
  <2>1. Upto(payload, end) = payload
    BY <1>11, <1>15 DEF Upto
  <2>2. outcome.tag = "whole" /\ outcome.payload = spliced
    BY <1>10, <1>15
  <2> QED
    BY <1>6, <1>13, <2>1, <2>2 DEF outcome
<1> QED
  BY <1>14, <1>15

\* What one turn of the loop of a fetch comes to.
LEMMA NextBlock ==
    ASSUME MessagesTyped, FetchPlaced, fetch # None, reply \notin {None, Error},
           EtagMatches(reply), reply.block2 # None => reply.block2.size = request.block.size
    PROVE  LET outcome == Blocks!HandleBlockwise(fetch.state, reply)
               new == [fetch EXCEPT !.state = outcome.state]
           IN  \/ outcome.tag = "error"
               \/ /\ outcome.tag = "more" /\ outcome.next \in Wanted /\ outcome.next.num # 0
                  /\ outcome.next.size = request.block.size
                  /\ outcome.state.expected = outcome.next.num
                  /\ new \in Fetching /\ OfNotification(new, outcome.next)
               \/ /\ outcome.tag = "whole"
                  /\ fetch.about # None => outcome.payload = Cells(fetch.etag, 0, fetch.etag)
<1> DEFINE outcome == Blocks!HandleBlockwise(fetch.state, reply)
           new == [fetch EXCEPT !.state = outcome.state]
<1>1. reply \in Response /\ IsMessage(reply)
  BY DEF MessagesTyped
<1>2. /\ fetch \in Fetching /\ OfNotification(fetch, request.block)
      /\ fetch.state \in State /\ fetch.state.cached \in Seq(Cell \cup {Error})
  BY DEF FetchPlaced, Fetching, State
<1>3. CASE reply.block2 = None
  <2>1. outcome = [tag |-> "whole", payload |-> reply.cells]
    BY <1>3 DEF Blocks!HandleBlockwise
  <2>2. ASSUME fetch.about # None PROVE reply.cells = Cells(fetch.etag, 0, fetch.etag)
    <3>1. fetch.etag \in PayloadLen /\ fetch.etag # None
      BY <1>2, <2>2, ObserverAssumption DEF OfNotification
    <3>2. reply.etag = fetch.etag
      BY <3>1 DEF EtagMatches
    <3>3. IsNotification(reply)
      BY <1>1, <1>3, <3>1, <3>2, AbsentAssumption DEF IsMessage, IsBare, IsBlock
    <3> QED
      BY <1>3, <3>2, <3>3, AbsentAssumption DEF IsNotification
  <2> QED
    BY <2>1, <2>2
<1>4. CASE reply.block2 # None
  <2>1. Blocks!Cached(fetch.state) \in Seq(Cell \cup {Error})
    BY <1>2, EmptySeq DEF Blocks!Cached
  <2>2. \/ outcome.tag = "error" /\ Blocks!Unexpected(fetch.state, reply.block2)
        \/ outcome.tag = "whole"
        \/ /\ outcome.tag = "more" /\ outcome.next \in Wanted /\ outcome.next.num # 0
           /\ outcome.next.size = reply.block2.size /\ outcome.state \in State
           /\ outcome.state.expected = outcome.next.num
    BY <1>1, <1>4, <2>1, BlockHandled
  <2>3. fetch.about # None /\ ~Blocks!Unexpected(fetch.state, reply.block2) =>
           \/ outcome.tag = "more" /\ outcome.state = Fetched(fetch.etag, outcome.next)
           \/ outcome.tag = "whole" /\ outcome.payload = Cells(fetch.etag, 0, fetch.etag)
    BY <1>1, <1>4, NotificationBlock
  <2>4. Blocks!Unexpected(fetch.state, reply.block2) => outcome.tag = "error"
    BY <1>4 DEF Blocks!HandleBlockwise
  <2> HIDE DEF outcome
  <2>5. CASE outcome.tag = "more"
    <3>1. /\ outcome.next \in Wanted /\ outcome.next.num # 0
          /\ outcome.next.size = request.block.size
          /\ outcome.state.expected = outcome.next.num /\ outcome.state \in State
      BY <1>4, <2>2, <2>5
    <3>2. /\ new \in Fetching /\ new.about = fetch.about /\ new.etag = fetch.etag
          /\ new.state = outcome.state
      BY <1>2, <3>1 DEF Fetching, State
    <3>3. fetch.about # None => outcome.state = Fetched(fetch.etag, outcome.next)
      BY <2>3, <2>4, <2>5
    <3> HIDE DEF new
    <3>4. OfNotification(new, outcome.next)
      BY <1>2, <3>2, <3>3 DEF OfNotification
    <3> QED
      BY <2>5, <3>1, <3>2, <3>4 DEF outcome, new
  <2>6. CASE outcome.tag = "whole"
    BY <2>3, <2>4, <2>6 DEF outcome
  <2>7. CASE outcome.tag = "error"
    BY <2>7 DEF outcome
  <2> QED
    BY <2>2, <2>5, <2>6, <2>7
<1> QED
  BY <1>3, <1>4

-----------------------------------------------------------------------------
(* Steps of the server and the network.                                    *)

Grows == history' = history \/ \E n \in PayloadLen : history' = Append(history, n)

LEMMA SaidStays ==
    ASSUME Stated, Grows, NEW sequence, NEW payload, Said(sequence, payload)
    PROVE  Said(sequence, payload)'
<1>1. CASE history' = history
  BY <1>1 DEF Said
<1>2. ASSUME NEW n \in PayloadLen, history' = Append(history, n)
      PROVE  Said(sequence, payload)'
  <2>1. /\ Len(history') = Len(history) + 1 /\ Len(history) \in Nat
        /\ \A i \in 1 .. Len(history) : history'[i] = history[i]
    BY <1>2, AppendProperties, LenProperties DEF Stated
  <2>2. sequence \in Nat /\ sequence < Len(history) /\ history[sequence + 1] = payload
    BY DEF Said
  <2>3. sequence + 1 \in 1 .. Len(history)
    BY <2>1, <2>2
  <2> QED
    BY <2>1, <2>2, <2>3 DEF Said
<1> QED
  BY <1>1, <1>2 DEF Grows

LEMMA MessageStays ==
    ASSUME Stated, Grows, NEW m, IsMessage(m)
    PROVE  IsMessage(m)'
<1>1. CASE IsBare(m)
  BY <1>1 DEF IsMessage, IsBare
<1>2. CASE IsNotification(m)
  <2>1. Said(m.sequence, m.etag)'
    BY <1>2, SaidStays DEF IsNotification
  <2> QED
    BY <1>2, <2>1 DEF IsMessage, IsNotification
<1>3. CASE IsBlock(m)
  BY <1>3 DEF IsMessage, IsBlock
<1> QED
  BY <1>1, <1>2, <1>3 DEF IsMessage

LEMMA ToldStays ==
    ASSUME Stated, ToldWell, told' = told, Grows
    PROVE  ToldWell'
BY SaidStays DEF ToldWell

LEMMA MessagesStay ==
    ASSUME Stated, MessagesTyped, Grows,
           outbox' \in Seq(Response), channel' \in Seq(Response \cup {Error}),
           \A m \in Range(outbox') : m \in Range(outbox) \/ IsMessage(m),
           \A m \in Range(channel') : m \in Range(channel) \/ m = Error \/ IsMessage(m),
           reply' \in {None, Error, reply} \/ (reply' \in Response /\ IsMessage(reply'))
    PROVE  MessagesTyped'
<1>1. \A m : IsMessage(m) => IsMessage(m)'
  BY MessageStays
<1>2. \A m \in Range(outbox') : IsMessage(m)'
  BY <1>1 DEF MessagesTyped
<1>3. \A m \in Range(channel') : m = Error \/ IsMessage(m)'
  BY <1>1 DEF MessagesTyped
<1>4. reply' \notin {None, Error} => reply' \in Response /\ IsMessage(reply')
  BY DEF MessagesTyped
<1>5. reply' \notin {None, Error} => IsMessage(reply)'
  <2> SUFFICES ASSUME reply' \notin {None, Error} PROVE IsMessage(reply)'
    OBVIOUS
  <2>1. PICK m : m = reply'
    OBVIOUS
  <2>2. IsMessage(m)'
    BY <1>1, <1>4, <2>1
  <2> QED
    BY <2>1, <2>2 DEF IsMessage, IsBare, IsNotification, IsBlock, CutFrom, Said
<1> QED
  BY <1>2, <1>3, <1>4, <1>5 DEF MessagesTyped

LEMMA FetchStays ==
    ASSUME Stated, FetchPlaced, Grows, UNCHANGED <<request, fetch>>
    PROVE  FetchPlaced'
<1> SUFFICES ASSUME fetch # None PROVE FetchPlaced'
  BY DEF FetchPlaced
<1>1. fetch.about # None => Said(fetch.about, fetch.etag)'
  <2> SUFFICES ASSUME fetch.about # None PROVE Said(fetch.about, fetch.etag)'
    OBVIOUS
  <2>1. Said(fetch.about, fetch.etag)
    BY DEF FetchPlaced, OfNotification
  <2>2. PICK s, p : s = fetch.about /\ p = fetch.etag
    OBVIOUS
  <2>3. Said(s, p)'
    BY <2>1, <2>2, SaidStays
  <2> QED
    BY <2>2, <2>3 DEF Said
<1> QED
  BY <1>1 DEF FetchPlaced, OfNotification, Fetched

\* What is to be shown of every step; the rest of the invariant is the server's.
Kept ==
    /\ FetchesTyped' /\ Stated' /\ CacheTyped'
    /\ MessagesTyped' /\ RequestWanted' /\ FetchPlaced' /\ ToldWell' /\ Senders'

\* What the client has, is what it had.
SendersStay ==
    UNCHANGED <<phase, outgoing, request, fetch, failed, collided>>

LEMMA SendersKept == Senders /\ SendersStay => Senders'
BY DEF Senders, SendersStay, Ended, Base, Watching, Running

LEMMA ServerKeeps ==
    ASSUME ClientInv, ServerStep, UNCHANGED clientVars
    PROVE  Kept /\ \A b : Sized(b) => Sized(b)'
<1>1. ServerMoves
  BY ServerStepMoves DEF ClientInv
<1>2. UNCHANGED <<request, fetch, told, channel, reply>> /\ SendersStay
  BY DEF clientVars, SendersStay
<1>3. Grows /\ Stated /\ MessagesTyped /\ channel \in Seq(Response \cup {Error})
  BY <1>1 DEF ServerMoves, Grows, ClientInv, SentInvariant, MessagesTyped
<1>4. /\ outbox' \in Seq(Response)
      /\ \A m \in Range(outbox') : m \in Range(outbox) \/ Sent(m)
  <2>1. outbox \in Seq(Response)
    BY DEF ClientInv, MessagesTyped
  <2>2. ASSUME NEW m, Sent(m), outbox' = Append(outbox, m)
        PROVE  outbox' \in Seq(Response) /\ Range(outbox') = Range(outbox) \cup {m}
    BY <2>1, <2>2, Appended DEF Sent
  <2> QED
    BY <1>1, <2>1, <2>2 DEF ServerMoves
<1>5. MessagesTyped'
  <2>1. \A m \in Range(outbox') : m \in Range(outbox) \/ IsMessage(m)
    BY <1>4 DEF Sent, IsMessage
  <2> QED
    BY <1>2, <1>3, <1>4, <2>1, MessagesStay
<1>6. FetchesTyped' /\ RequestWanted'
  BY <1>1, <1>2 DEF ClientInv, SentInvariant, ServerMoves, FetchesTyped, RequestWanted
<1>7. FetchPlaced' /\ ToldWell' /\ Senders'
  BY <1>2, <1>3, FetchStays, ToldStays, SendersKept DEF ClientInv
<1>8. ASSUME NEW b, Sized(b) PROVE Sized(b)'
  <2>1. \A m \in Range(outbox') : SizeSent(b, m)
    BY <1>4, <1>8 DEF Sized, Sent, SizeSent
  <2>2. Sizes' \subseteq {b}
    BY <1>1, <1>8 DEF ServerMoves, Sized
  <2> QED
    BY <1>2, <1>8, <2>1, <2>2 DEF Sized, SizeAsked, WantsBlock, SizeSent
<1> QED
  BY <1>1, <1>5, <1>6, <1>7, <1>8 DEF Kept, ServerMoves

\* The server is where it was.
LEMMA UntouchedKept ==
    ASSUME ClientInv, Untouched
    PROVE  /\ Stated' /\ CacheTyped' /\ Stated /\ history' = history /\ UNCHANGED tasks
           /\ Grows
<1>1. UNCHANGED <<history, cache, tasks, resources>>
  BY DEF Untouched, observerVars, vars
<1>2. Stated' /\ CacheTyped' /\ Stated
  BY <1>1, StatedKept DEF ClientInv, SentInvariant, SameState, CacheTyped
<1> QED
  BY <1>1, <1>2 DEF Grows

LEMMA NoneOf == Range(<<>>) = {}
<1>1. <<>> \in Seq(Response) /\ Len(<<>>) = 0
  BY EmptySeq
<1>2. DOMAIN <<>> = 1 .. 0
  BY <1>1, LenProperties
<1> QED
  BY <1>2 DEF Range

\* The client and the network make no messages, they only move them.
Flows ==
    /\ outbox' \in Seq(Response) /\ channel' \in Seq(Response \cup {Error})
    /\ Range(outbox') \subseteq Range(outbox)
    /\ Range(channel') \subseteq Range(channel) \cup Range(outbox) \cup {Error}
    /\ reply' \in {None, Error, reply} \cup Range(outbox)

LEMMA ClientFlows ==
    ASSUME MessagesTyped, Task \/ Terminate \/ Dropped \/ Network
    PROVE  Flows
<1> DEFINE S == Response \cup {Error}
<1>1. outbox \in Seq(Response) /\ channel \in Seq(S) /\ Error \in S /\ Response \subseteq S
  BY DEF MessagesTyped
<1>2. \/ outbox' \in {outbox, <<>>}
      \/ \E i \in DOMAIN outbox : outbox' = Without(outbox, i)
  BY DEF Task, Registered, RegistrationFails, Notified, Lost, Terminated, FetchStep,
         FetchAnswered, FetchFails, Terminate, Dropped, Network, Resend, Deliver, Lose, Leaves,
         TransportFails
<1>3. \/ channel' \in {channel, <<>>, Append(channel, Error)}
      \/ channel # <<>> /\ channel' = Tail(channel)
      \/ \E i \in DOMAIN outbox : channel' = Append(channel, outbox[i])
  BY DEF Task, Registered, RegistrationFails, Notified, Lost, Terminated, FetchStep,
         FetchAnswered, FetchFails, Terminate, Dropped, Network, Resend, Deliver, Lose, Leaves,
         TransportFails, clientVars
<1>4. \/ reply' \in {None, Error, reply}
      \/ \E i \in DOMAIN outbox : reply' = outbox[i]
  <2>1. \A message : HandleMessage(message) => reply' \in {None, Error, reply}
    BY DEF HandleMessage, Ask
  <2>2. \A outcome : Tell(outcome) => reply' = None
    BY DEF Tell, Forget
  <2>3. Registered \/ RegistrationFails \/ Notified \/ Lost => reply' \in {None, Error, reply}
    BY <2>1 DEF Registered, RegistrationFails, Notified, Lost
  <2>4. Terminated \/ FetchFails \/ Terminate \/ Dropped => reply' \in {None, Error, reply}
    BY <2>2 DEF Terminated, Forget, FetchFails, Terminate, Ask, Dropped
  <2>5. FetchAnswered => reply' \in {None, Error, reply}
    BY <2>2 DEF FetchAnswered, Ask
  <2>6. Network => reply' \in {None, Error, reply} \/ \E i \in DOMAIN outbox : reply' = outbox[i]
    BY DEF Network, Resend, Deliver, Lose, Leaves, TransportFails, clientVars
  <2> QED
    BY <2>3, <2>4, <2>5, <2>6 DEF Task, FetchStep
<1>5. \A i \in DOMAIN outbox : outbox[i] \in Range(outbox) /\ outbox[i] \in Response
  BY <1>1, WithoutOne
<1>6. outbox' \in Seq(Response) /\ Range(outbox') \subseteq Range(outbox)
  <2>1. CASE outbox' = outbox
    BY <1>1, <2>1
  <2>2. CASE outbox' = <<>>
    BY <2>2, NoneOf, EmptySeq
  <2>3. ASSUME NEW i \in DOMAIN outbox, outbox' = Without(outbox, i)
        PROVE  outbox' \in Seq(Response) /\ Range(outbox') \subseteq Range(outbox)
    BY <1>1, <2>3, WithoutOne
  <2> QED
    BY <1>2, <2>1, <2>2, <2>3
<1> HIDE DEF S
<1>7. channel' \in Seq(S) /\ Range(channel') \subseteq Range(channel) \cup Range(outbox) \cup {Error}
  <2>1. CASE channel' \in {channel, <<>>}
    BY <1>1, <2>1, NoneOf, EmptySeq
  <2>2. ASSUME NEW m \in S, m \in Range(outbox) \cup {Error}, channel' = Append(channel, m)
        PROVE  channel' \in Seq(S) /\ Range(channel') = Range(channel) \cup {m}
    BY <1>1, <2>2, Appended
  <2>3. CASE channel # <<>> /\ channel' = Tail(channel)
    BY <1>1, <2>3, TailOf
  <2>4. \A i \in DOMAIN outbox : outbox[i] \in S
    BY <1>1, <1>5
  <2> QED
    BY <1>1, <1>3, <1>5, <2>1, <2>2, <2>3, <2>4
<1> QED
  BY <1>4, <1>5, <1>6, <1>7 DEF Flows, S

LEMMA FlowsKept ==
    ASSUME ClientInv, Untouched, Flows
    PROVE  MessagesTyped'
<1>1. Stated /\ Grows /\ MessagesTyped
  BY UntouchedKept DEF ClientInv
<1>2. outbox \in Seq(Response) /\ \A m \in Range(outbox) : IsMessage(m)
  BY DEF ClientInv, MessagesTyped
<1>3. reply' \in {None, Error, reply} \/ (reply' \in Response /\ IsMessage(reply'))
  BY <1>2, RangeOfSeq DEF Flows
<1>4. outbox' \in Seq(Response) /\ channel' \in Seq(Response \cup {Error})
  BY DEF Flows
<1>5. \A m \in Range(channel') : m \in Range(channel) \/ m = Error \/ IsMessage(m)
  BY <1>2 DEF Flows
<1>6. \A m \in Range(outbox') : m \in Range(outbox)
  BY DEF Flows
<1> QED
  BY <1>1, <1>3, <1>4, <1>5, <1>6, MessagesStay

\* What is asked for has the size of everything else.
Sends(b) ==
    /\ \A q \in inbox' : q \in inbox \/ SizeAsked(b, q)
    /\ fetch' # None \/ request' # None => SizeAsked(b, request')

LEMMA SizesKept ==
    ASSUME NEW b, Sized(b), Untouched, Flows, Sends(b)
    PROVE  Sized(b)'
<1>1. UNCHANGED <<tasks, registerResources>>
  BY DEF Untouched, observerVars, vars
<1>2. Sizes' \subseteq {b}
  BY <1>1 DEF Sized, Sizes, Sends, SizeAsked
<1>3. \A m \in Range(outbox') : SizeSent(b, m)
  BY DEF Flows, Sized
<1>4. \A m \in Range(channel') : m = Error \/ SizeSent(b, m)
  BY DEF Flows, Sized
<1>5. reply' \notin {None, Error} => SizeSent(b, reply')
  BY DEF Flows, Sized
<1> QED
  BY <1>2, <1>3, <1>4, <1>5 DEF Sized, Sends, SizeAsked, SizeSent, WantsBlock

LEMMA NetworkKeeps ==
    ASSUME ClientInv, Network, ~Over
    PROVE  Kept /\ \A b : Sized(b) => Sends(b)
<1>1. Untouched /\ UNCHANGED <<request, fetch, told, phase, collided>>
  BY DEF Network, Resend, Deliver, Lose, TransportFails, clientVars
<1>2. Stated' /\ CacheTyped' /\ Grows /\ Stated /\ UNCHANGED tasks
  BY <1>1, UntouchedKept
<1>3. FetchPlaced' /\ ToldWell' /\ RequestWanted'
  BY <1>1, <1>2, FetchStays, ToldStays DEF ClientInv, RequestWanted
<1>4. MessagesTyped'
  BY <1>1, ClientFlows, FlowsKept DEF ClientInv
<1>5. \A q \in inbox' : q \in inbox \/ ~WantsBlock(q) \/ (q = request /\ request # None)
  <2>1. \A m : \A q \in Acks(m) : ~WantsBlock(q)
    BY DEF Acks, WantsBlock
  <2> QED
    BY <2>1 DEF Network, Resend, Deliver, Lose, TransportFails
<1>6. FetchesTyped'
  BY <1>2, <1>5 DEF ClientInv, SentInvariant, FetchesTyped, RequestWanted, WantsBlock
<1>7. Senders'
  <2>1. CASE TransportFails
    BY <1>1, <2>1 DEF TransportFails, Over, ClientInv, Senders, Ended
  <2>2. CASE ~TransportFails
    <3>1. UNCHANGED <<outgoing, failed>>
      BY <2>2 DEF Network, Resend, Deliver, Lose, clientVars
    <3> QED
      BY <1>1, <3>1, SendersKept DEF ClientInv, SendersStay
  <2> QED
    BY <2>1, <2>2
<1>8. ASSUME NEW b, Sized(b) PROVE Sends(b)
  BY <1>1, <1>5, <1>8 DEF Sized, Sends, SizeAsked
<1> QED
  BY <1>2, <1>3, <1>4, <1>6, <1>7, <1>8 DEF Kept

(* Steps of the task.                                                      *)

\* What is to be shown of them: the network moves the messages.
Held ==
    /\ FetchesTyped' /\ RequestWanted' /\ FetchPlaced' /\ ToldWell' /\ Senders'
    /\ \A b : Sized(b) => Sends(b)

LEMMA Bindings ==
    /\ \A f, x, v : Bind(Bind(f, x, v), x, v) = Bind(f, x, v)
    /\ Bind(Watching, ObserveToken, "request") = Bind(Nobody, ObserveToken, "request")
    /\ Bind(Base, ObserveToken, "request") = [token \in {ObserveToken} |-> "request"]
<1>1. ASSUME NEW f, NEW x, NEW v PROVE Bind(Bind(f, x, v), x, v) = Bind(f, x, v)
  BY DEF Bind
<1>2. /\ Bind(Watching, ObserveToken, "request") = [token \in {ObserveToken} |-> "request"]
      /\ Bind(Nobody, ObserveToken, "request") = [token \in {ObserveToken} |-> "request"]
  BY DEF Bind, Watching, Nobody
<1> QED
  BY <1>1, <1>2 DEF Base

LEMMA NobodyLeft ==
    /\ \A token : Unbind(Nobody, token) = Nobody
    /\ Unbind(Watching, ObserveToken) = Nobody
    /\ Unbind([token \in {ObserveToken} |-> "request"], ObserveToken) = Nobody
    /\ \A token : Unbind(Bind(Nobody, token, "request"), token) = Nobody
    /\ \A token : token # ObserveToken =>
         Unbind(Bind(Watching, token, "request"), token) = Watching
<1>1. \A token : Unbind(Nobody, token) = Nobody
  BY DEF Unbind, Restrict, Nobody
<1>2. Unbind(Watching, ObserveToken) = Nobody
  BY DEF Unbind, Restrict, Nobody, Watching
<1>3. Unbind([token \in {ObserveToken} |-> "request"], ObserveToken) = Nobody
  BY DEF Unbind, Restrict, Nobody
<1>4. ASSUME NEW token PROVE Unbind(Bind(Nobody, token, "request"), token) = Nobody
  BY DEF Unbind, Restrict, Bind, Nobody
<1>5. ASSUME NEW token, token # ObserveToken
      PROVE  Unbind(Bind(Watching, token, "request"), token) = Watching
  BY <1>5 DEF Unbind, Restrict, Bind, Watching
<1> QED
  BY <1>1, <1>2, <1>3, <1>4, <1>5

\* A block is asked for, under a token that is drawn or the one that is fetched
\* with: it is registered, and may have taken the observation's place.
LEMMA BlockAsked ==
    ASSUME ClientInv, Untouched, UNCHANGED <<told, failed>>, phase \in Running,
           phase' \in {"registered", "observing"}, NEW token \in RandomToken,
           NEW block \in Wanted, block.num # 0, Ask(Fetch(token, block)),
           fetch' \in Fetching, fetch'.state.expected = block.num,
           OfNotification(fetch', block),
           IF fetch = None THEN collided' = (collided \/ token = ObserveToken)
           ELSE token = request.token /\ collided' = collided,
           \A b : Sized(b) => block.size = b
    PROVE  Held
<1> DEFINE q == Fetch(token, block)
<1>1. q.kind = "fetch" /\ q.token = token /\ q.block = block
  BY DEF Fetch
<1>2. /\ request' = q /\ inbox' = inbox \cup {q}
      /\ outgoing' = IF failed THEN outgoing ELSE Bind(outgoing, token, "request")
  BY <1>1 DEF Ask
<1> HIDE DEF q
<1>3. UNCHANGED <<tasks, history>> /\ Grows /\ Stated
  BY UntouchedKept
<1>4. FetchesTyped' /\ RequestWanted'
  BY <1>1, <1>2, <1>3 DEF FetchesTyped, RequestWanted, ClientInv, SentInvariant
<1>5. fetch' # None
  BY AbsentAssumption
<1>6. FetchPlaced'
  <2>1. OfNotification(fetch, request.block)'
    BY <1>1, <1>2, <1>3 DEF OfNotification, Said, Fetched
  <2> QED
    BY <1>1, <1>2, <2>1 DEF FetchPlaced
<1>7. ToldWell'
  BY <1>3, ToldStays DEF ClientInv
<1>8. ~collided' => token # ObserveToken
  <2>1. fetch # None /\ ~collided => request.token # ObserveToken
    BY DEF ClientInv, Senders
  <2> QED
    BY <2>1
<1>9. ~failed => outgoing' = Bind(Base, token, "request")'
  <2> SUFFICES ASSUME ~failed PROVE outgoing' = Bind(Base, token, "request")'
    OBVIOUS
  <2>1. outgoing = IF fetch = None THEN Base ELSE Bind(Base, token, "request")
    BY DEF ClientInv, Senders
  <2>2. outgoing' = Bind(Base, token, "request")
    BY <1>2, <2>1, Bindings
  <2>3. CASE collided' <=> collided
    BY <2>2, <2>3 DEF Base, Bind, Nobody, Watching
  <2>4. CASE ~collided /\ collided' /\ token = ObserveToken
    BY <2>2, <2>4, Bindings DEF Base, Bind, Nobody, Watching
  <2> QED
    BY <2>3, <2>4
<1>10. Senders'
  <2>1. failed => outgoing' = Nobody
    BY <1>2 DEF ClientInv, Senders
  <2>2. ~failed => outgoing' = Bind(Base, request.token, "request")'
    BY <1>1, <1>2, <1>9 DEF Bind
  <2> QED
    BY <1>1, <1>2, <1>5, <1>8, <2>1, <2>2 DEF Senders, Ended, Running
<1>11. ASSUME NEW b, Sized(b) PROVE Sends(b)
  BY <1>1, <1>2, <1>11 DEF Sends, SizeAsked
<1> QED
  BY <1>4, <1>6, <1>7, <1>10, <1>11 DEF Held

\* Nothing is asked for, and no fetch is going on any more.
LEMMA Rests ==
    ASSUME ClientInv, Untouched, UNCHANGED inbox, request' \in {None, request},
           fetch' = None, ToldWell', Senders'
    PROVE  Held
<1>1. UNCHANGED tasks
  BY UntouchedKept
<1>2. FetchesTyped' /\ RequestWanted' /\ FetchPlaced'
  BY <1>1 DEF FetchesTyped, RequestWanted, FetchPlaced, ClientInv, SentInvariant
<1>3. ASSUME NEW b, Sized(b) PROVE Sends(b)
  BY <1>3 DEF Sized, Sends
<1> QED
  BY <1>2, <1>3 DEF Held

LEMMA Handles ==
    ASSUME ClientInv, Untouched, UNCHANGED failed, fetch = None, phase \in Running,
           phase' \in {"registered", "observing"},
           NEW message \in Range(channel), HandleMessage(message)
    PROVE  Held
<1>1. message # Error => message \in Response /\ IsMessage(message)
  <2>1. Range(channel) \subseteq Response \cup {Error}
    BY RangeOfSeq DEF ClientInv, MessagesTyped
  <2> QED
    BY <2>1 DEF ClientInv, MessagesTyped
<1>2. history' = history /\ Grows /\ Stated
  BY UntouchedKept
<1>3. ASSUME UNCHANGED <<inbox, outgoing, reply, fetch, collided>>, request' = None, ToldWell'
      PROVE  Held
  <2>1. Senders'
    BY <1>3 DEF ClientInv, Senders, Ended, Running, Base, Watching
  <2> QED
    BY <1>3, <2>1, Rests
<1>4. CASE message = Error /\ told' = Failure(told.about)
           /\ request' = None /\ UNCHANGED <<inbox, outgoing, reply, fetch, collided>>
  <2>1. ToldWell'
    BY <1>4 DEF ToldWell, Failure
  <2> QED
    BY <1>3, <1>4, <2>1
<1>5. CASE /\ message # Error /\ ~HasMore(message)
           /\ told' = IF message.sequence = None THEN told
                      ELSE Payload(message.cells, message.sequence)
           /\ request' = None /\ UNCHANGED <<inbox, outgoing, reply, fetch, collided>>
  <2>1. CASE message.sequence = None
    BY <1>2, <1>3, <1>5, <2>1, ToldStays DEF ClientInv
  <2>2. CASE message.sequence # None
    <3>1. IsNotification(message)
      BY <1>1, <1>5, <2>2 DEF IsMessage, IsBare, IsBlock
    <3>2. message.block2 = None
      BY <1>5, <3>1 DEF IsNotification, HasMore
    <3>3. /\ message.etag \in PayloadLen /\ Said(message.sequence, message.etag)
          /\ message.cells = Cells(message.etag, 0, message.etag)
      BY <3>1, <3>2, AbsentAssumption DEF IsNotification
    <3>4. told'.about = message.sequence /\ told'.cells = message.cells
      BY <1>5, <2>2 DEF Payload
    <3>5. ToldWell'
      BY <1>2, <3>3, <3>4 DEF ToldWell, Said, Cells
    <3> QED
      BY <1>3, <1>5, <3>5
  <2> QED
    BY <2>1, <2>2
<1>6. CASE /\ HasMore(message) /\ UNCHANGED told
           /\ \E token \in RandomToken :
                LET first == Blocks!HandleBlockwise(Blocks!EmptyState, message)
                IN  /\ GenToken(token)
                    /\ Ask(Fetch(token, first.next))
                    /\ fetch' = [state |-> first.state, etag |-> message.etag,
                                 about |-> message.sequence]
  <2> DEFINE first == Blocks!HandleBlockwise(Blocks!EmptyState, message)
             new == [state |-> first.state, etag |-> message.etag, about |-> message.sequence]
  <2>1. message # Error
    BY <1>6 DEF HasMore
  <2>2. PICK token \in RandomToken :
          /\ collided' = (collided \/ token = ObserveToken)
          /\ Ask(Fetch(token, first.next)) /\ fetch' = new
    BY <1>6 DEF GenToken
  <2>3. /\ first.next \in Wanted /\ first.next.num # 0
        /\ first.next.size = message.block2.size
        /\ first.state.expected = first.next.num
        /\ new \in Fetching /\ OfNotification(new, first.next)
    BY <1>1, <1>6, <2>1, FirstBlock
  <2>4. new.state = first.state
    OBVIOUS
  <2> HIDE DEF new, first
  <2>5. PICK next : next = first.next
    OBVIOUS
  <2>6. \A b : Sized(b) => next.size = b
    BY <1>6, <2>1, <2>3, <2>5 DEF Sized, SizeSent, HasMore
  <2>7. OfNotification(fetch', next) /\ fetch' \in Fetching /\ fetch'.state.expected = next.num
    BY <2>2, <2>3, <2>4, <2>5
  <2>8. Ask(Fetch(token, next)) /\ next \in Wanted /\ next.num # 0
    BY <2>2, <2>3, <2>5
  <2> QED
    BY <1>6, <2>2, <2>6, <2>7, <2>8, BlockAsked
<1> QED
  BY <1>4, <1>5, <1>6 DEF HandleMessage

\* A fetch is over: its own sender is removed, which is the only one left when
\* it has taken the observation's place.
LEMMA TellKeeps ==
    ASSUME ClientInv, fetch # None, Untouched, UNCHANGED <<failed, collided>>,
           NEW outcome, Tell(outcome),
           \/ outcome.tag = "error"
           \/ fetch.about # None => /\ outcome.about = fetch.about
                                    /\ outcome.cells = Cells(fetch.etag, 0, fetch.etag)
    PROVE  Held
<1>1. /\ told' = (IF fetch.about = None THEN told ELSE outcome) /\ phase' = "observing"
      /\ fetch' = None /\ request' = None /\ UNCHANGED inbox
      /\ outgoing' = Unbind(outgoing, request.token)
  BY DEF Tell, Forget
<1>2. history' = history /\ Grows /\ Stated
  BY UntouchedKept
<1>3. phase \in Running
  BY DEF ClientInv, SentInvariant, CallsInv, RequestsTyped, Running
<1>4. ToldWell'
  <2>1. CASE fetch.about = None
    BY <1>1, <1>2, <2>1, ToldStays DEF ClientInv
  <2>2. CASE fetch.about # None /\ outcome.tag = "error"
    BY <1>1, <2>2 DEF ToldWell
  <2>3. CASE fetch.about # None /\ outcome.about = fetch.about
             /\ outcome.cells = Cells(fetch.etag, 0, fetch.etag)
    <3>1. PICK n \in PayloadLen : n = fetch.etag /\ Said(fetch.about, n)
      BY <2>3 DEF ClientInv, FetchPlaced, OfNotification
    <3>2. Said(told.about, n)' /\ told'.cells = Cells(n, 0, n)
      BY <1>1, <1>2, <2>3, <3>1 DEF Said
    <3> QED
      BY <3>2 DEF ToldWell, Cells
  <2> QED
    BY <2>1, <2>2, <2>3
<1>5. Senders'
  <2>1. CASE failed
    BY <1>1, <2>1, NobodyLeft DEF ClientInv, Senders, Ended, Running
  <2>2. CASE ~failed
    <3>1. outgoing = Bind(Base, request.token, "request")
          /\ (~collided => request.token # ObserveToken)
      BY <1>3, <2>2 DEF ClientInv, Senders
    <3>2. outgoing' = Base
      BY <1>1, <3>1, NobodyLeft DEF Base
    <3>3. Base' = Base
      BY DEF Base, Nobody, Watching
    <3> QED
      BY <1>1, <2>2, <3>2, <3>3 DEF Senders, Ended, Running
  <2> QED
    BY <2>1, <2>2
<1> QED
  BY <1>1, <1>4, <1>5, Rests

LEMMA FetchAnsweredKeeps ==
    ASSUME ClientInv, NEW size, Sized(size), FetchAnswered
    PROVE  Held
<1>1. /\ fetch # None /\ reply \notin {None, Error} /\ Untouched
      /\ UNCHANGED <<failed, collided>>
  BY DEF FetchAnswered
<1>2. phase \in {"registered", "observing"} /\ request.token \in RandomToken
  BY <1>1 DEF ClientInv, SentInvariant, CallsInv, RequestsTyped
<1>3. request.kind = "fetch" /\ request.block.size = size
  BY <1>1 DEF ClientInv, FetchPlaced, Sized, SizeAsked, WantsBlock
<1>4. reply.block2 # None => reply.block2.size = request.block.size
  BY <1>1, <1>3 DEF Sized, SizeSent
<1> DEFINE outcome == Blocks!HandleBlockwise(fetch.state, reply)
<1>5. CASE Tell(Failure(fetch.about))
  BY <1>1, <1>5, TellKeeps DEF Failure
<1>6. CASE EtagMatches(reply) /\ outcome.tag = "whole"
           /\ Tell(Payload(outcome.payload, fetch.about))
  <2>1. fetch.about # None => outcome.payload = Cells(fetch.etag, 0, fetch.etag)
    BY <1>1, <1>4, <1>6, NextBlock DEF ClientInv
  <2> HIDE DEF outcome
  <2>2. PICK end : end = Payload(outcome.payload, fetch.about)
    OBVIOUS
  <2>3. fetch.about # None => /\ end.about = fetch.about
                              /\ end.cells = Cells(fetch.etag, 0, fetch.etag)
    BY <2>1, <2>2 DEF Payload
  <2>4. Tell(end)
    BY <1>6, <2>2
  <2> QED
    BY <1>1, <2>3, <2>4, TellKeeps
<1>7. CASE /\ EtagMatches(reply) /\ outcome.tag = "more"
           /\ Ask(Fetch(request.token, outcome.next))
           /\ fetch' = [fetch EXCEPT !.state = outcome.state]
           /\ UNCHANGED <<told, phase>>
  <2> DEFINE new == [fetch EXCEPT !.state = outcome.state]
  <2>1. /\ outcome.next \in Wanted /\ outcome.next.num # 0
        /\ outcome.next.size = request.block.size
        /\ outcome.state.expected = outcome.next.num
        /\ new \in Fetching /\ OfNotification(new, outcome.next)
    BY <1>1, <1>4, <1>7, NextBlock DEF ClientInv
  <2>2. new.state = outcome.state
    BY <1>1 DEF ClientInv, FetchPlaced, Fetching
  <2>3. fetch' = new
    BY <1>7
  <2> HIDE DEF outcome, new
  <2>4. PICK next : next = outcome.next
    OBVIOUS
  <2>5. PICK token \in RandomToken : token = request.token
    BY <1>2
  <2>6. Ask(Fetch(token, next)) /\ next \in Wanted /\ next.num # 0
    BY <1>7, <2>1, <2>4, <2>5
  <2>7. OfNotification(fetch', next) /\ fetch' \in Fetching /\ fetch'.state.expected = next.num
    BY <2>1, <2>2, <2>3, <2>4
  <2>8. \A b : Sized(b) => next.size = b
    BY <1>1, <1>3, <2>1, <2>4 DEF Sized, SizeAsked, WantsBlock
  <2>9. phase \in Running /\ phase' \in {"registered", "observing"}
    BY <1>2, <1>7 DEF Running
  <2> QED
    BY <1>1, <1>7, <2>5, <2>6, <2>7, <2>8, <2>9, BlockAsked
<1> QED
  BY <1>5, <1>6, <1>7 DEF FetchAnswered

LEMMA TaskHolds ==
    ASSUME ClientInv, NEW size, Sized(size), Task \/ Terminate \/ Dropped
    PROVE  Held
<1>1. Untouched /\ UNCHANGED failed
  BY DEF Task, Registered, RegistrationFails, Notified, Lost, Terminated, FetchStep,
         FetchAnswered, FetchFails, Terminate, Dropped
<1>2. fetch # None => phase \in {"registered", "observing"}
  BY DEF ClientInv, SentInvariant, CallsInv, RequestsTyped
<1>3. UNCHANGED told => ToldWell'
  BY <1>1, UntouchedKept, ToldStays DEF ClientInv
<1>4. CASE /\ channel # <<>> /\ fetch = None
           /\ phase \in Running /\ phase' \in {"registered", "observing"}
           /\ HandleMessage(Head(channel))
  <2>1. Head(channel) \in Range(channel)
    <3>1. channel \in Seq(Response \cup {Error})
      BY DEF ClientInv, MessagesTyped
    <3> QED
      BY <1>4, <3>1, TailOf
  <2> QED
    BY <1>1, <1>4, <2>1, Handles
<1>5. CASE Refused /\ phase = "registering" /\ UNCHANGED <<inbox, fetch, told, collided>>
  <2>1. fetch' = None /\ request' = None /\ phase' = "refused"
        /\ outgoing' = Unbind(outgoing, ObserveToken)
    BY <1>2, <1>5 DEF Refused
  <2>2. outgoing = Nobody \/ outgoing = Watching
    BY <1>5, <2>1 DEF ClientInv, Senders, Running, Base
  <2>3. Senders'
    BY <1>1, <2>1, <2>2, NobodyLeft DEF Senders, Ended, Running
  <2> QED
    BY <1>1, <1>3, <1>5, <2>1, <2>3, Rests
<1>6. CASE Lost
  <2>1. /\ fetch = None /\ fetch' = None /\ phase = "observing" /\ phase' = "lost"
        /\ UNCHANGED <<inbox, request, outgoing, told, collided>>
    BY <1>6 DEF Lost, Listening
  <2>2. outgoing = Nobody
    <3>1. outgoing # Watching
      BY <1>6 DEF Lost, Watching
    <3> QED
      BY <2>1, <3>1 DEF ClientInv, Senders, Running, Base
  <2>3. Senders'
    BY <1>1, <2>1, <2>2 DEF Senders, Ended, Running
  <2> QED
    BY <1>1, <1>3, <2>1, <2>3, Rests
<1>7. CASE Terminated
  <2>1. /\ fetch' = None /\ UNCHANGED <<inbox, told, collided>> /\ request' = None
        /\ outgoing' = Unbind(outgoing, ObserveToken)
        /\ phase = "terminating" /\ phase' = "terminated"
    BY <1>2, <1>7 DEF Terminated, Forget
  <2>2. outgoing' = Nobody
    BY <2>1, NobodyLeft DEF ClientInv, Senders
  <2>3. Senders'
    BY <1>1, <2>1, <2>2 DEF Senders, Ended, Running
  <2> QED
    BY <1>1, <1>3, <2>1, <2>3, Rests
<1>8. CASE FetchFails
  BY <1>1, <1>8, TellKeeps DEF FetchFails, Failure
<1>9. CASE Terminate
  <2> DEFINE q == [kind |-> "deregister", token |-> ObserveToken, block |-> None]
  <2>1. /\ fetch = None /\ fetch' = None /\ phase = "observing" /\ phase' = "terminating"
        /\ request' = q /\ inbox' = inbox \cup {q}
        /\ outgoing' = IF failed THEN outgoing ELSE Bind(outgoing, ObserveToken, "request")
        /\ UNCHANGED <<told, collided>>
    BY <1>9 DEF Terminate, Listening, Ask
  <2>2. FetchesTyped' /\ RequestWanted' /\ FetchPlaced'
    BY <1>1, <2>1, UntouchedKept
       DEF ClientInv, SentInvariant, FetchesTyped, RequestWanted, FetchPlaced
  <2>3. outgoing = IF failed THEN Nobody ELSE Base
    BY <2>1 DEF ClientInv, Senders, Running
  <2>4. outgoing' = IF failed THEN Nobody ELSE [token \in {ObserveToken} |-> "request"]
    BY <2>1, <2>3, Bindings
  <2>5. Senders'
    BY <1>1, <2>1, <2>4 DEF Senders, Ended, Running
  <2>6. ASSUME NEW b PROVE Sends(b)
    BY <2>1 DEF Sends, SizeAsked, WantsBlock
  <2> QED
    BY <1>3, <2>1, <2>2, <2>5, <2>6 DEF Held
<1>10. CASE Dropped
  <2>1. /\ fetch' = None /\ request' = None /\ phase' = "dropped"
        /\ UNCHANGED <<inbox, outgoing, told, collided>>
    BY <1>10 DEF Dropped
  <2>2. Senders'
    BY <1>1, <2>1 DEF ClientInv, Senders, Ended, Running
  <2> QED
    BY <1>1, <1>3, <2>1, <2>2, Rests
<1>11. CASE Registered
  <2>1. fetch = None /\ phase = "registering" /\ phase \in Running
    BY <1>2, <1>11 DEF Registered, Running
  <2> QED
    BY <1>4, <1>5, <1>11, <2>1 DEF Registered
<1>12. CASE Notified
  BY <1>4, <1>12 DEF Notified, Listening, Running
<1>13. CASE RegistrationFails
  BY <1>5, <1>13 DEF RegistrationFails
<1> QED
  BY <1>6, <1>7, <1>8, <1>9, <1>10, <1>11, <1>12, <1>13, FetchAnsweredKeeps
     DEF Task, FetchStep

LEMMA TaskKeeps ==
    ASSUME ClientInv, NEW size, Sized(size), Task \/ Terminate \/ Dropped
    PROVE  Kept /\ Sends(size)
<1>1. Untouched
  BY DEF Task, Registered, RegistrationFails, Notified, Lost, Terminated, FetchStep,
         FetchAnswered, FetchFails, Terminate, Dropped
<1>2. Stated' /\ CacheTyped' /\ MessagesTyped'
  BY <1>1, UntouchedKept, ClientFlows, FlowsKept DEF ClientInv
<1>3. Held
  BY TaskHolds
<1> QED
  BY <1>2, <1>3 DEF Kept, Held

\* One size is enough for everything: that of the registration.
OneSize == \E b : Sized(b)

LEMMA ClientStep == ClientInv /\ OneSize /\ [ObservationNext]_allVars => ClientInv' /\ OneSize'
<1> SUFFICES ASSUME ClientInv, NEW b, Sized(b), [ObservationNext]_allVars
             PROVE  ClientInv' /\ Sized(b)'
  BY DEF OneSize
<1>1. CallsInv'
  BY CallsStep DEF ClientInv, SentInvariant
<1>2. IndexesAgree'
  BY StepImplements, NextIndexes DEF ClientInv, SentInvariant, CallsInv
<1>3. Kept /\ Sized(b)'
  <2>1. CASE ~Over /\ ServerStep /\ UNCHANGED clientVars
    BY <2>1, ServerKeeps
  <2>2. CASE Task \/ Terminate \/ Dropped \/ (~Over /\ Network)
    <3>1. Untouched /\ Flows
      <4>1. Untouched
        BY <2>2 DEF Task, Registered, RegistrationFails, Notified, Lost, Terminated, FetchStep,
           FetchAnswered, FetchFails, Terminate, Dropped, Network, Resend, Deliver, Lose,
           TransportFails
      <4> QED
        BY <2>2, <4>1, ClientFlows DEF ClientInv
    <3>2. Kept /\ Sends(b)
      BY <2>2, TaskKeeps, NetworkKeeps
    <3> QED
      BY <3>1, <3>2, SizesKept
  <2>3. CASE UNCHANGED allVars
    <3>1. /\ Untouched /\ SendersStay
          /\ UNCHANGED <<inbox, outbox, channel, request, reply, fetch, told>>
      BY <2>3 DEF allVars, serverVars, clientVars, observerVars, Untouched, SendersStay
    <3>2. /\ Stated' /\ CacheTyped' /\ Stated /\ Grows /\ UNCHANGED tasks
      BY <3>1, UntouchedKept
    <3>3. MessagesTyped' /\ FetchPlaced' /\ ToldWell' /\ Senders'
      BY <3>1, <3>2, MessagesStay, FetchStays, ToldStays, SendersKept
         DEF ClientInv, MessagesTyped
    <3>4. FetchesTyped' /\ RequestWanted'
      BY <3>1, <3>2 DEF ClientInv, SentInvariant, FetchesTyped, RequestWanted
    <3>5. Sized(b)'
      <4>1. Sends(b) /\ Flows
        BY <3>1 DEF Sends, Sized, Flows, ClientInv, MessagesTyped
      <4> QED
        BY <3>1, <4>1, SizesKept
    <3> QED
      BY <3>2, <3>3, <3>4, <3>5 DEF Kept
  <2> QED
    BY <2>1, <2>2, <2>3 DEF ObservationNext
<1> QED
  BY <1>1, <1>2, <1>3 DEF ClientInv, SentInvariant, Kept

LEMMA ClientInit == ObservationInit => ClientInv /\ OneSize
<1> SUFFICES ASSUME ObservationInit PROVE ClientInv /\ OneSize
  OBVIOUS
<1>1. CallsInv
  BY CallsInit
<1>2. /\ Init /\ outbox = <<>> /\ channel = <<>> /\ history = <<>> /\ ~collided
      /\ tasks = {} /\ fetch = None /\ reply = None /\ told.tag = "none" /\ ~failed
      /\ phase = "registering" /\ outgoing = Watching /\ inbox = {request}
      /\ cache \in {None} \cup [payload : PayloadLen, etag : {None}]
  BY DEF ObservationInit, ServerInit, Watching
<1>3. request.kind = "register"
  BY DEF ObservationInit, RegisterRequest
<1>4. IndexesAgree /\ FetchesTyped /\ RequestWanted /\ Stated
  BY <1>2, <1>3, EmptySeq DEF Init, IndexesAgree, NoFunction, FetchesTyped, RequestWanted,
     Stated
<1>5. MessagesTyped /\ CacheTyped /\ FetchPlaced /\ ToldWell /\ Senders
  BY <1>2, NoneOf, EmptySeq
     DEF MessagesTyped, CacheTyped, FetchPlaced, ToldWell, Senders, Ended, Running, Base
<1>6. Sized(request.block.size)
  <2>1. DOMAIN registerResources = {}
    BY <1>2 DEF Init, NoFunction
  <2>2. Sizes \subseteq {request.block.size}
    BY <1>2, <2>1 DEF Sizes
  <2> QED
    BY <1>2, <2>2, NoneOf DEF Sized, SizeAsked
<1> QED
  BY <1>1, <1>4, <1>5, <1>6 DEF ClientInv, SentInvariant, OneSize

LEMMA ClientCorrect == ObservationSpec => []ClientInv
<1>1. ObservationSpec => [](ClientInv /\ OneSize)
  BY ClientInit, ClientStep, PTL DEF ObservationSpec
<1> QED
  BY <1>1, PTL

\* For every length of payloads and every block size, whatever tokens the
\* fetches draw, and however blocks, answers from the cache and repeated
\* requests interleave with changes of the resource: what the handler is told of
\* a notification is the payload the resource had when it was made
\* (server.rs:345-358, client.rs:1075-1096).
THEOREM ToldIsNotifiedCorrect == ObservationSpec => []ToldIsNotified
<1>1. ClientInv => ToldIsNotified
  BY DEF ClientInv, ToldWell, ToldIsNotified, Said
<1> QED
  BY <1>1, ClientCorrect, PTL

\* An observation that was refused, was terminated or has lost its channel
\* leaves nothing in the registry of senders, also when a fetch has drawn its
\* token and taken its place, or the transport fails in between
\* (client.rs:765-772, 790-803).  Nothing is said of an observation whose future
\* was dropped before observe_with returned: its senders do stay.
THEOREM NothingLeftCorrect == ObservationSpec => []NothingLeft
<1>1. ClientInv => NothingLeft
  BY DEF ClientInv, Senders, NothingLeft
<1> QED
  BY <1>1, ClientCorrect, PTL

-----------------------------------------------------------------------------
(***************************************************************************)
(* An observation that is lost though no fetch has taken its place has     *)
(* been told why: what the failure put into its channel comes last, and is *)
(* told before the channel is empty.                                       *)
(***************************************************************************)
FailureTold ==
    /\ failed /\ ~collided /\ phase \in Running =>
         \/ channel # <<>> /\ channel[Len(channel)] = Error
         \/ channel = <<>> /\ phase = "observing" /\ fetch = None /\ told.tag = "error"
    /\ phase = "lost" /\ ~collided => failed /\ told.tag = "error"

LEMMA LastStays ==
    ASSUME NEW S, NEW s \in Seq(S), s # <<>>
    PROVE  \/ Tail(s) = <<>> /\ Head(s) = s[Len(s)]
           \/ Tail(s) # <<>> /\ Tail(s)[Len(Tail(s))] = s[Len(s)]
<1>1. /\ Head(s) = s[1] /\ Len(s) >= 1 /\ Tail(s) \in Seq(S) /\ Len(Tail(s)) = Len(s) - 1
      /\ \A i \in 1 .. Len(Tail(s)) : Tail(s)[i] = s[i + 1]
  BY TailOf
<1>2. Len(s) \in Nat
  BY LenProperties
<1>3. Len(<<>>) = 0 /\ (Tail(s) # <<>> => Len(Tail(s)) # 0)
  BY <1>1, EmptySeq
<1>4. CASE Tail(s) = <<>>
  BY <1>1, <1>2, <1>3, <1>4
<1>5. CASE Tail(s) # <<>>
  <2>1. Len(Tail(s)) \in 1 .. Len(Tail(s)) /\ Len(Tail(s)) + 1 = Len(s)
    BY <1>1, <1>2, <1>3, <1>5
  <2> QED
    BY <1>1, <1>5, <2>1
<1> QED
  BY <1>4, <1>5

LEMMA FailureStep ==
    ASSUME ClientInv, FailureTold, [ObservationNext]_allVars
    PROVE  FailureTold'
<1> DEFINE S == Response \cup {Error}
<1>1. channel \in Seq(S)
  BY DEF ClientInv, MessagesTyped
<1>2. fetch # None => phase \in {"registered", "observing"}
  BY DEF ClientInv, SentInvariant, CallsInv, RequestsTyped
<1> HIDE DEF S
<1>3. CASE UNCHANGED clientVars
  BY <1>3 DEF clientVars, FailureTold
<1>4. CASE Network /\ ~Over
  <2>1. CASE ~failed' /\ phase' = phase
    BY <1>4, <2>1 DEF FailureTold, Over, Ended
  <2>2. CASE TransportFails
    <3>1. phase' = phase /\ phase # "lost" /\ collided' = collided
      BY <1>4, <2>2 DEF TransportFails, Over, Ended
    <3>2. ASSUME phase \in Running, ~collided
          PROVE  channel' # <<>> /\ channel'[Len(channel')] = Error
      <4>1. outgoing = Watching \/ outgoing = Bind(Watching, request.token, "request")
        BY <1>4, <3>2 DEF Over, ClientInv, Senders, Base
      <4>2. fetch # None => request.token # ObserveToken
        BY <3>2 DEF ClientInv, Senders
      <4>3. fetch = None => outgoing = Watching
        BY <1>4, <3>2 DEF Over, ClientInv, Senders, Base
      <4>4. ObserveToken \in DOMAIN outgoing /\ outgoing[ObserveToken] = "observation"
        BY <4>1, <4>2, <4>3 DEF Watching, Bind
      <4>5. channel' = Append(channel, Error)
        BY <2>2, <4>4 DEF TransportFails, Told
      <4>6. Error \in S
        BY DEF S
      <4>7. /\ Append(channel, Error) # <<>>
            /\ Len(Append(channel, Error)) = Len(channel) + 1
            /\ Append(channel, Error)[Len(channel) + 1] = Error
        BY <1>1, <4>6, AppendProperties
      <4> QED
        BY <4>5, <4>7
    <3> QED
      BY <3>1, <3>2 DEF FailureTold
  <2> QED
    BY <1>4, <2>1, <2>2 DEF Over, Network, Resend, Deliver, Lose, clientVars
<1>5. CASE /\ channel # <<>> /\ channel' = Tail(channel) /\ fetch = None
           /\ phase \in Running
           /\ phase' = "observing" \/ phase' = IF fetch' = None THEN "observing" ELSE "registered"
           /\ UNCHANGED failed /\ HandleMessage(Head(channel))
  <2>1. CASE ~failed \/ collided'
    BY <1>5, <2>1 DEF FailureTold
  <2>2. CASE failed /\ ~collided'
    <3>1. channel[Len(channel)] = Error
      <4>1. ~collided
        BY <1>5, <2>2 DEF HandleMessage, GenToken
      <4> QED
        BY <1>5, <2>2, <4>1 DEF FailureTold
    <3>2. \/ channel' = <<>> /\ Head(channel) = Error
          \/ channel' # <<>> /\ channel'[Len(channel')] = Error
      BY <1>1, <1>5, <3>1, LastStays
    <3>3. Head(channel) = Error => told'.tag = "error" /\ fetch' = None
      BY <1>5 DEF HandleMessage, Failure, HasMore
    <3> QED
      BY <1>5, <3>2, <3>3 DEF FailureTold
  <2> QED
    BY <2>1, <2>2
<1>6. CASE Lost
  <2>1. phase = "observing" /\ fetch = None /\ channel = <<>> /\ outgoing # Watching
    BY <1>6 DEF Lost, Listening, Watching
  <2>2. ~collided => failed
    BY <2>1 DEF ClientInv, Senders, Running, Base
  <2>3. ~collided => told.tag = "error"
    BY <2>1, <2>2 DEF FailureTold, Running
  <2> QED
    BY <1>6, <2>2, <2>3 DEF Lost, FailureTold, Running
<1>7. CASE FetchStep
  <2>1. /\ UNCHANGED <<channel, failed, collided>> /\ fetch # None
        /\ phase' \in {phase, "observing"}
    BY <1>7 DEF FetchStep, FetchAnswered, FetchFails, Tell
  <2>2. phase \in Running /\ phase' \in {"registered", "observing"}
    BY <1>2, <2>1 DEF Running
  <2> QED
    BY <2>1, <2>2 DEF FailureTold
<1>8. CASE phase' \in {"refused", "terminated", "terminating", "dropped"}
  BY <1>8 DEF FailureTold, Running
<1>9. Task => phase' \in {"refused", "terminated"} \/ Lost \/ FetchStep \/
              (/\ channel # <<>> /\ channel' = Tail(channel) /\ fetch = None
               /\ phase \in Running
               /\ \/ phase' = "observing"
                  \/ phase' = IF fetch' = None THEN "observing" ELSE "registered"
               /\ UNCHANGED failed /\ HandleMessage(Head(channel)))
  <2>1. phase = "registering" => fetch = None
    BY <1>2
  <2> QED
    BY <2>1 DEF Task, Registered, Refused, RegistrationFails, Notified, Listening, Terminated,
       Running
<1>10. /\ Terminate => phase' = "terminating"
       /\ Dropped => phase' = "dropped"
  BY DEF Terminate, Dropped
<1> QED
  BY <1>3, <1>4, <1>5, <1>6, <1>7, <1>8, <1>9, <1>10 DEF ObservationNext, allVars

\* As long as no fetch has drawn the observation's own token, its task ends by
\* itself only after the transport has failed, and then the last thing the
\* handler was told is an error, whatever fetches and notifications were under
\* way (client.rs:792, 901-903).  gen_token draws without a check
\* (client.rs:1212): a fetch that draws that token takes the observation's place
\* in the registry, and nothing is claimed then.
THEOREM LostOnlyWithErrorCorrect == ObservationSpec => []LostOnlyWithError
<1>1. ObservationInit => FailureTold
  BY DEF ObservationInit, FailureTold
<1>2. ClientInv /\ FailureTold /\ [ObservationNext]_allVars => FailureTold'
  BY FailureStep
<1>3. FailureTold => LostOnlyWithError
  BY DEF FailureTold, LostOnlyWithError
<1> QED
  BY <1>1, <1>2, <1>3, ClientCorrect, PTL DEF ObservationSpec

-----------------------------------------------------------------------------
(***************************************************************************)
(* With the UDP listener the states of the resource reach the handler in   *)
(* order: the channel is ahead of what is on its way, the fetch ahead of   *)
(* the channel, and what has been told ahead of all of them.               *)
(***************************************************************************)
Says(m) == m # Error /\ m.sequence # None

\* No state in the sequence of messages is older than that.
Behind(about, s) == \A m \in Range(s) : Says(m) => about <= m.sequence
Ascending(s) ==
    \A i, j \in DOMAIN s :
       i < j /\ Says(s[i]) /\ Says(s[j]) => s[i].sequence <= s[j].sequence

InOrderFrom(about) == about \in Nat /\ Behind(about, channel) /\ Behind(about, outbox)

Ordered ==
    /\ told.about = 0 \/ told.about < Len(history)
    /\ Ascending(channel) /\ Ascending(outbox)
    /\ \A m \in Range(channel) : Says(m) => Behind(m.sequence, outbox)
    /\ InOrderFrom(told.about)
    /\ fetch # None /\ fetch.about # None =>
         InOrderFrom(fetch.about) /\ told.about <= fetch.about

OrderedInv == transport = "udp" => Ordered

\* What is said is a state the resource has had.
LEMMA SaysPast ==
    ASSUME ClientInv, NEW m \in Range(channel) \cup Range(outbox), Says(m)
    PROVE  m.sequence \in Nat /\ m.sequence < Len(history)
<1>1. IsMessage(m)
  BY DEF ClientInv, MessagesTyped, Says
<1> QED
  BY <1>1 DEF Says, IsMessage, IsBare, IsNotification, IsBlock, Said

LEMMA AscendingAppended ==
    ASSUME NEW S, NEW s \in Seq(S), NEW x \in S, Ascending(s),
           Says(x) => \A m \in Range(s) : Says(m) => m.sequence <= x.sequence
    PROVE  Ascending(Append(s, x))
<1> DEFINE t == Append(s, x)
<1>1. /\ t \in Seq(S) /\ Len(t) = Len(s) + 1 /\ t[Len(s) + 1] = x
      /\ \A i \in 1 .. Len(s) : t[i] = s[i]
  BY AppendProperties
<1>2. Len(s) \in Nat /\ DOMAIN s = 1 .. Len(s) /\ DOMAIN t = 1 .. Len(s) + 1
  BY <1>1, LenProperties
<1> HIDE DEF t
<1>3. ASSUME NEW i \in DOMAIN t, NEW j \in DOMAIN t, i < j, Says(t[i]), Says(t[j])
      PROVE  t[i].sequence <= t[j].sequence
  <2>1. i \in 1 .. Len(s) /\ i \in DOMAIN s /\ t[i] = s[i]
    BY <1>1, <1>2, <1>3
  <2>2. CASE j = Len(s) + 1
    <3>1. t[j] = x /\ t[i] \in Range(s)
      BY <1>1, <2>1, <2>2 DEF Range
    <3> QED
      BY <1>3, <3>1
  <2>3. CASE j # Len(s) + 1
    <3>1. j \in DOMAIN s /\ t[j] = s[j]
      BY <1>1, <1>2, <2>3
    <3> QED
      BY <1>3, <2>1, <3>1 DEF Ascending
  <2> QED
    BY <2>2, <2>3
<1> QED
  BY <1>3 DEF Ascending, t

\* Without its first element a sequence is in order still, and that element was
\* ahead of the others.
LEMMA AscendingRest ==
    ASSUME NEW S, NEW s \in Seq(S), NEW t \in Seq(S), Ascending(s), Len(s) >= 1,
           Len(t) = Len(s) - 1, \A i \in 1 .. Len(s) - 1 : t[i] = s[i + 1]
    PROVE  /\ Ascending(t) /\ Range(t) \subseteq Range(s)
           /\ Says(s[1]) => Behind(s[1].sequence, t)
<1>1. Len(s) \in Nat /\ DOMAIN s = 1 .. Len(s) /\ DOMAIN t = 1 .. Len(s) - 1
  BY LenProperties
<1>2. \A i \in DOMAIN t : i + 1 \in DOMAIN s /\ t[i] = s[i + 1] /\ 1 < i + 1 /\ i \in Int
  BY <1>1
<1>3. ASSUME NEW i \in DOMAIN t, NEW j \in DOMAIN t, i < j, Says(t[i]), Says(t[j])
      PROVE  t[i].sequence <= t[j].sequence
  <2>1. i + 1 < j + 1
    BY <1>2, <1>3
  <2> QED
    BY <1>2, <1>3, <2>1 DEF Ascending
<1>4. Range(t) \subseteq Range(s)
  BY <1>2 DEF Range
<1>5. ASSUME Says(s[1]), NEW i \in DOMAIN t, Says(t[i])
      PROVE  s[1].sequence <= t[i].sequence
  <2>1. 1 \in DOMAIN s
    BY <1>1
  <2> QED
    BY <1>2, <1>5, <2>1 DEF Ascending
<1> QED
  BY <1>3, <1>4, <1>5 DEF Ascending, Behind, Range

LEMMA ChannelInOrder ==
    ASSUME ClientInv, Ordered, channel # <<>>
    PROVE  /\ Head(channel) \in Range(channel)
           /\ Ascending(Tail(channel)) /\ Range(Tail(channel)) \subseteq Range(channel)
           /\ Says(Head(channel)) => Behind(Head(channel).sequence, Tail(channel))
<1> DEFINE S == Response \cup {Error}
<1>1. channel \in Seq(S)
  BY DEF ClientInv, MessagesTyped
<1> HIDE DEF S
<1>2. /\ Head(channel) \in Range(channel) /\ Head(channel) = channel[1]
      /\ Len(channel) >= 1 /\ Tail(channel) \in Seq(S)
      /\ Len(Tail(channel)) = Len(channel) - 1
      /\ \A i \in 1 .. Len(Tail(channel)) : Tail(channel)[i] = channel[i + 1]
  BY <1>1, TailOf
<1>3. \A i \in 1 .. Len(channel) - 1 : Tail(channel)[i] = channel[i + 1]
  BY <1>2
<1> QED
  BY <1>1, <1>2, <1>3, AscendingRest DEF Ordered

LEMMA OutboxInOrder ==
    ASSUME ClientInv, Ordered, 1 \in DOMAIN outbox
    PROVE  /\ outbox[1] \in Range(outbox)
           /\ Ascending(Without(outbox, 1)) /\ Range(Without(outbox, 1)) \subseteq Range(outbox)
           /\ Says(outbox[1]) => Behind(outbox[1].sequence, Without(outbox, 1))
<1>1. outbox \in Seq(Response)
  BY DEF ClientInv, MessagesTyped
<1>2. /\ Without(outbox, 1) \in Seq(Response) /\ outbox[1] \in Range(outbox)
      /\ Len(Without(outbox, 1)) = Len(outbox) - 1
      /\ \A j \in 1 .. Len(outbox) - 1 : Without(outbox, 1)[j] = outbox[j + 1]
  BY <1>1, WithoutOne
<1>3. Len(outbox) >= 1
  BY <1>1, LenProperties
<1> QED
  BY <1>1, <1>2, <1>3, AscendingRest DEF Ordered

LEMMA NothingInOrder == Ascending(<<>>) /\ Range(<<>>) = {}
<1>1. <<>> \in Seq(Response) /\ Len(<<>>) = 0
  BY EmptySeq
<1>2. DOMAIN <<>> = 1 .. 0
  BY <1>1, LenProperties
<1>3. DOMAIN <<>> = {}
  BY <1>2
<1> QED
  BY <1>3 DEF Range, Ascending

\* Less is on its way, and told and fetch are as they were.
LEMMA OrderedKept ==
    ASSUME Ordered, UNCHANGED <<told, history>>, fetch' \in {fetch, None},
           Ascending(channel'), Ascending(outbox'),
           Range(channel') \subseteq Range(channel) \cup {Error},
           Range(outbox') \subseteq Range(outbox)
    PROVE  Ordered'
<1>1. \A a : InOrderFrom(a) => InOrderFrom(a)'
  BY DEF InOrderFrom, Behind, Says
<1>2. \A m \in Range(channel') : Says(m) => m \in Range(channel) /\ Behind(m.sequence, outbox')
  BY DEF Says, Ordered, Behind
<1> QED
  BY <1>1, <1>2 DEF Ordered, Ascending, InOrderFrom, Behind, Says

LEMMA ServerOrdered ==
    ASSUME ClientInv, Ordered, ServerStep, UNCHANGED clientVars
    PROVE  Ordered'
<1>1. ServerMoves /\ history \in Seq(PayloadLen) /\ outbox \in Seq(Response)
  BY ServerStepMoves DEF ClientInv, SentInvariant, Stated, MessagesTyped
<1>2. Len(history) \in Nat /\ Len(history') \in Nat /\ Len(history) <= Len(history')
  <2>1. ASSUME NEW n \in PayloadLen, history' = Append(history, n)
        PROVE  Len(history') = Len(history) + 1
    BY <1>1, <2>1, AppendProperties
  <2>2. Len(history) \in Nat
    BY <1>1, LenProperties
  <2> QED
    BY <1>1, <2>1, <2>2 DEF ServerMoves
<1>3. told.about = 0 \/ told'.about < Len(history')
  BY <1>2 DEF clientVars, Ordered, InOrderFrom
<1>4. CASE UNCHANGED outbox
  BY <1>3, <1>4 DEF Ordered, clientVars, Ascending, InOrderFrom, Behind, Says
<1>5. ASSUME NEW m, Sent(m), outbox' = Append(outbox, m)
      PROVE  Ordered'
  <2>1. Says(m) => m.sequence \in Nat /\ m.sequence + 1 = Len(history)
    BY <1>5 DEF Sent, Says, IsBare, IsBlock, IsNotification, Said
  <2>2. m \in Response /\ Range(outbox') = Range(outbox) \cup {m}
    BY <1>1, <1>5, Appended DEF Sent
  <2>3. \A x \in Range(channel) \cup Range(outbox) :
          Says(x) /\ Says(m) => x.sequence <= m.sequence
    BY <1>2, <2>1, SaysPast
  <2>4. Ascending(outbox')
    BY <1>1, <1>5, <2>2, <2>3, AscendingAppended DEF Ordered
  <2>5. Says(m) => told.about <= m.sequence
    BY <1>2, <2>1 DEF Ordered, InOrderFrom
  <2>6. fetch # None /\ fetch.about # None /\ Says(m) => fetch.about <= m.sequence
    <3>1. fetch # None /\ fetch.about # None =>
            fetch.about \in Nat /\ fetch.about < Len(history)
      BY DEF ClientInv, FetchPlaced, OfNotification, Said
    <3> QED
      BY <1>2, <2>1, <3>1
  <2>7. \A about : Behind(about, outbox) /\ (Says(m) => about <= m.sequence)
          => Behind(about, outbox')
    BY <2>2 DEF Behind
  <2>8. /\ InOrderFrom(told.about)'
        /\ fetch # None /\ fetch.about # None => InOrderFrom(fetch.about)'
    BY <2>5, <2>6, <2>7 DEF Ordered, InOrderFrom, clientVars, Behind, Says
  <2>9. \A x \in Range(channel') : Says(x) => Behind(x.sequence, outbox')
    BY <2>3, <2>7 DEF Ordered, clientVars
  <2>10. UNCHANGED <<channel, told, fetch>>
    BY DEF clientVars
  <2>11. Ascending(channel)' /\ Ascending(outbox)'
    BY <2>4, <2>10 DEF Ordered, Ascending, Says
  <2>12. \A x \in Range(channel') : Says(x) => Behind(x.sequence, outbox)'
    BY <2>9 DEF Behind, Says
  <2>13. (InOrderFrom(told.about) /\ (told.about = 0 \/ told.about < Len(history)))'
    BY <1>3, <2>8, <2>10
  <2>14. (fetch # None /\ fetch.about # None =>
            InOrderFrom(fetch.about) /\ told.about <= fetch.about)'
    BY <2>8, <2>10 DEF Ordered
  <2> QED
    BY <2>11, <2>12, <2>13, <2>14 DEF Ordered, Says
<1> QED
  BY <1>1, <1>4, <1>5 DEF ServerMoves

LEMMA NetworkOrdered ==
    ASSUME ClientInv, Ordered, transport = "udp", Network
    PROVE  Ordered'
<1>1. UNCHANGED <<told, fetch, history>>
  BY DEF Network, Resend, Deliver, Lose, TransportFails, clientVars, Untouched
<1>2. CASE Resend
  BY <1>1, <1>2, OrderedKept DEF Resend, Ordered
<1>3. ASSUME NEW i, Lose(i) PROVE Ordered'
  <2>1. 1 \in DOMAIN outbox /\ outbox' = Without(outbox, 1) /\ channel' = channel
    BY <1>3 DEF Lose, Leaves, clientVars
  <2> QED
    BY <1>1, <2>1, OutboxInOrder, OrderedKept DEF Ordered
<1>4. ASSUME NEW i, Deliver(i) PROVE Ordered'
  <2> DEFINE m == outbox[1]
  <2>1. /\ 1 \in DOMAIN outbox /\ outbox' = Without(outbox, 1)
        /\ channel' \in {channel, Append(channel, m)}
    BY <1>4 DEF Deliver, Leaves
  <2>2. /\ m \in Range(outbox) /\ Ascending(outbox') /\ Range(outbox') \subseteq Range(outbox)
        /\ Says(m) => Behind(m.sequence, outbox')
    BY <2>1, OutboxInOrder
  <2>3. CASE channel' = channel
    BY <1>1, <2>1, <2>2, <2>3, OrderedKept DEF Ordered
  <2>4. CASE channel' = Append(channel, m)
    <3> DEFINE S == Response \cup {Error}
    <3>1. channel \in Seq(S) /\ m \in S
      BY <2>1, WithoutOne DEF ClientInv, MessagesTyped
    <3> HIDE DEF S, m
    <3>2. Range(channel') = Range(channel) \cup {m}
      BY <2>4, <3>1, Appended
    <3>3. Says(m) => \A x \in Range(channel) : Says(x) => x.sequence <= m.sequence
      BY <2>2 DEF Ordered, Behind
    <3>4. Ascending(channel')
      BY <2>4, <3>1, <3>3, AscendingAppended DEF Ordered
    <3>5. \A about : InOrderFrom(about) => InOrderFrom(about)'
      BY <2>2, <3>2 DEF InOrderFrom, Behind, Says
    <3>6. \A x \in Range(channel') : Says(x) => Behind(x.sequence, outbox')
      BY <2>2, <3>2 DEF Ordered, Behind
    <3>7. /\ InOrderFrom(told.about)'
          /\ fetch # None /\ fetch.about # None => InOrderFrom(fetch.about)'
      BY <1>1, <3>5 DEF Ordered, InOrderFrom, Behind, Says
    <3> QED
      BY <1>1, <2>2, <3>4, <3>6, <3>7 DEF Ordered, Ascending, Behind, Says
  <2> QED
    BY <2>1, <2>3, <2>4
<1>5. CASE TransportFails
  <2>1. outbox' = <<>> /\ channel' \in {channel, Append(channel, Error)}
    BY <1>5 DEF TransportFails
  <2>2. Ascending(channel') /\ Range(channel') \subseteq Range(channel) \cup {Error}
    <3> DEFINE S == Response \cup {Error}
    <3>1. channel \in Seq(S) /\ Error \in S
      BY DEF ClientInv, MessagesTyped
    <3> HIDE DEF S
    <3>2. ~Says(Error)
      BY DEF Says
    <3>3. Range(Append(channel, Error)) = Range(channel) \cup {Error}
      BY <3>1, Appended
    <3>4. Ascending(Append(channel, Error))
      BY <3>1, <3>2, AscendingAppended DEF Ordered
    <3> QED
      BY <2>1, <3>3, <3>4 DEF Ordered
  <2>3. Ascending(outbox') /\ Range(outbox') = {}
    BY <2>1, NothingInOrder
  <2> QED
    BY <1>1, <2>2, <2>3, OrderedKept
<1> QED
  BY <1>2, <1>3, <1>4, <1>5 DEF Network

\* The handler is told of a later state, or of the same.
Forwards == told'.about >= told.about

LEMMA HandlesInOrder ==
    ASSUME ClientInv, Ordered, channel # <<>>, channel' = Tail(channel), fetch = None,
           HandleMessage(Head(channel)), UNCHANGED <<outbox, history>>
    PROVE  Ordered' /\ Forwards
<1> DEFINE m == Head(channel)
<1>1. /\ m \in Range(channel) /\ Ascending(channel') /\ Range(channel') \subseteq Range(channel)
      /\ Says(m) => Behind(m.sequence, channel') /\ Behind(m.sequence, outbox)
  BY ChannelInOrder DEF Ordered
<1>2. told.about \in Nat
  BY DEF Ordered, InOrderFrom
<1>3. CASE UNCHANGED told /\ (fetch' = None \/ fetch'.about = None)
  <2>1. InOrderFrom(told.about) /\ InOrderFrom(told.about)'
    BY <1>1, <1>3 DEF Ordered, InOrderFrom, Behind, Says
  <2> QED
    BY <1>1, <1>2, <1>3, <2>1 DEF Ordered, Forwards, Ascending, Behind, Says
<1>4. CASE told' = Failure(told.about) /\ fetch' = None
  <2>1. told'.about = told.about
    BY <1>4 DEF Failure
  <2>2. InOrderFrom(told.about)'
    BY <1>1, <2>1 DEF Ordered, InOrderFrom, Behind, Says
  <2> QED
    BY <1>1, <1>2, <1>4, <2>1, <2>2 DEF Ordered, Forwards, Ascending, Behind, Says
<1>5. ASSUME NEW n \in Nat, n < Len(history), Behind(n, channel'), Behind(n, outbox'),
             told.about <= n,
             \/ told'.about = n /\ fetch' = None
             \/ UNCHANGED told /\ fetch'.about = n
      PROVE  Ordered' /\ Forwards
  <2>1. InOrderFrom(n)'
    BY <1>5 DEF InOrderFrom, Behind, Says
  <2>2. InOrderFrom(told.about) /\ (UNCHANGED told => InOrderFrom(told.about)')
    BY <1>1 DEF Ordered, InOrderFrom, Behind, Says
  <2>3. InOrderFrom(told.about)' /\ (fetch' # None => InOrderFrom(fetch.about)')
    BY <1>5, <2>1, <2>2 DEF InOrderFrom, Behind, Says
  <2>4. (told.about = 0 \/ told.about < Len(history))'
    BY <1>5 DEF Ordered
  <2>5. (fetch # None => told.about <= fetch.about)' /\ Forwards
    BY <1>2, <1>5 DEF Forwards
  <2>6. (\A x \in Range(channel) : Says(x) => Behind(x.sequence, outbox))'
    BY <1>1 DEF Ordered, Behind, Says
  <2>7. Ascending(channel)' /\ Ascending(outbox)'
    BY <1>1 DEF Ordered, Ascending, Says
  <2> QED
    BY <2>3, <2>4, <2>5, <2>6, <2>7 DEF Ordered
<1>6. ASSUME Says(m), \/ told'.about = m.sequence /\ fetch' = None
                      \/ UNCHANGED told /\ fetch'.about = m.sequence
      PROVE  Ordered' /\ Forwards
  <2>1. m.sequence \in Nat /\ m.sequence < Len(history) /\ told.about <= m.sequence
    BY <1>1, <1>6, SaysPast DEF Ordered, InOrderFrom, Behind
  <2>2. PICK n \in Nat : n = m.sequence
    BY <2>1
  <2>3. Behind(n, channel') /\ Behind(n, outbox')
    BY <1>1, <1>6, <2>2 DEF Behind
  <2> QED
    BY <1>5, <1>6, <2>1, <2>2, <2>3
<1>7. CASE HasMore(m)
  <2>1. m # Error
    BY <1>7 DEF HasMore
  <2>2. UNCHANGED told /\ fetch'.about = m.sequence
    BY <1>7, <2>1 DEF HandleMessage
  <2> QED
    BY <1>3, <1>6, <2>1, <2>2 DEF Says
<1>8. CASE m # Error /\ ~HasMore(m)
  <2>1. fetch' = None /\ (UNCHANGED told \/ (Says(m) /\ told'.about = m.sequence))
    BY <1>8 DEF HandleMessage, Payload, Says
  <2> QED
    BY <1>3, <1>6, <2>1
<1>9. CASE m = Error
  <2>1. told' = Failure(told.about) /\ fetch' = None
    BY <1>9 DEF HandleMessage, HasMore
  <2> QED
    BY <1>4, <2>1
<1> QED
  BY <1>7, <1>8, <1>9

LEMMA TaskOrdered ==
    ASSUME ClientInv, Ordered, Task \/ Terminate \/ Dropped
    PROVE  Ordered' /\ Forwards
<1>1. UNCHANGED <<outbox, history>>
  BY DEF Task, Registered, RegistrationFails, Notified, Lost, Terminated, FetchStep,
         FetchAnswered, FetchFails, Terminate, Dropped, Untouched
<1>2. told.about \in Nat
  BY DEF Ordered, InOrderFrom
<1>3. phase = "registering" => fetch = None
  BY DEF ClientInv, SentInvariant, CallsInv, RequestsTyped
<1>4. CASE /\ channel # <<>> /\ channel' = Tail(channel) /\ fetch = None
           /\ HandleMessage(Head(channel))
  BY <1>1, <1>4, HandlesInOrder
<1>5. CASE /\ UNCHANGED told /\ fetch' \in {fetch, None}
           /\ channel' \in {channel, <<>>} \/ (channel # <<>> /\ channel' = Tail(channel))
  <2>1. Ascending(<<>>) /\ Range(<<>>) = {}
    BY NothingInOrder
  <2>2. Ascending(channel') /\ Range(channel') \subseteq Range(channel)
    BY <1>5, <2>1, ChannelInOrder DEF Ordered
  <2>3. Ordered'
    BY <1>1, <1>5, <2>2, OrderedKept DEF Ordered
  <2> QED
    BY <1>2, <1>5, <2>3 DEF Forwards
<1>6. CASE /\ fetch # None /\ fetch.about # None /\ UNCHANGED channel
           /\ \/ UNCHANGED told /\ fetch'.about = fetch.about
              \/ told'.about = fetch.about /\ fetch' = None
  <2>1. /\ InOrderFrom(fetch.about) /\ InOrderFrom(told.about)
        /\ told.about <= fetch.about /\ fetch.about < Len(history)
    BY <1>6 DEF Ordered, ClientInv, FetchPlaced, OfNotification, Said
  <2>2. InOrderFrom(told.about)' /\ (fetch' # None => InOrderFrom(fetch.about)')
    BY <1>1, <1>6, <2>1 DEF InOrderFrom, Behind, Says
  <2>3. Forwards /\ (fetch' # None => told'.about <= fetch'.about)
    BY <1>2, <1>6, <2>1 DEF Forwards, InOrderFrom
  <2>4. told'.about = 0 \/ told'.about < Len(history')
    BY <1>1, <1>6, <2>1 DEF Ordered
  <2>5. Ascending(channel)' /\ Ascending(outbox)'
        /\ (\A x \in Range(channel) : Says(x) => Behind(x.sequence, outbox))'
    BY <1>1, <1>6 DEF Ordered, Ascending, Says, Behind
  <2> QED
    BY <2>2, <2>3, <2>4, <2>5 DEF Ordered
<1>7. CASE Registered
  BY <1>3, <1>4, <1>5, <1>7 DEF Registered, Refused
<1>8. CASE Notified
  BY <1>4, <1>8 DEF Notified, Listening
<1>9. CASE RegistrationFails \/ Lost \/ Terminated \/ Terminate \/ Dropped
  BY <1>5, <1>9 DEF RegistrationFails, Lost, Terminated, Terminate, Dropped, Listening
<1>10. CASE fetch # None /\ fetch.about = None /\ UNCHANGED <<channel, told>>
            /\ (fetch' = None \/ fetch'.about = None)
  <2>1. InOrderFrom(told.about) /\ InOrderFrom(told.about)'
    BY <1>1, <1>10 DEF Ordered, InOrderFrom, Behind, Says
  <2> QED
    BY <1>1, <1>2, <1>10, <2>1 DEF Ordered, Forwards, Ascending, Behind, Says
<1>11. CASE FetchFails
  BY <1>6, <1>10, <1>11 DEF FetchFails, Tell, Failure
<1>12. CASE FetchAnswered
  <2>1. fetch # None /\ UNCHANGED channel
    BY <1>12 DEF FetchAnswered
  <2>2. fetch \in Fetching
    BY <2>1 DEF ClientInv, FetchPlaced
  <2>3. \A state : [fetch EXCEPT !.state = state].about = fetch.about
    BY <2>2 DEF Fetching
  <2>4. \/ UNCHANGED told /\ \E state : fetch' = [fetch EXCEPT !.state = state]
        \/ Tell(Failure(fetch.about)) \/ \E cells : Tell(Payload(cells, fetch.about))
    BY <1>12 DEF FetchAnswered
  <2>5. \/ UNCHANGED told /\ fetch'.about = fetch.about
        \/ /\ fetch' = None
           /\ IF fetch.about = None THEN UNCHANGED told ELSE told'.about = fetch.about
    <3>1. ASSUME NEW state, fetch' = [fetch EXCEPT !.state = state]
          PROVE  fetch'.about = fetch.about
      BY <2>3, <3>1
    <3>2. Failure(fetch.about).about = fetch.about
          /\ \A cells : Payload(cells, fetch.about).about = fetch.about
      BY DEF Failure, Payload
    <3>3. ASSUME NEW outcome, Tell(outcome), outcome.about = fetch.about
          PROVE  /\ fetch' = None
                 /\ IF fetch.about = None THEN UNCHANGED told ELSE told'.about = fetch.about
      BY <3>3 DEF Tell
    <3> QED
      BY <2>4, <3>1, <3>2, <3>3
  <2> QED
    BY <1>6, <1>10, <2>1, <2>5
<1> QED
  BY <1>7, <1>8, <1>9, <1>11, <1>12 DEF Task, FetchStep

LEMMA TransportStays ==
    ASSUME ObservationNext
    PROVE  transport' = transport
BY DEF ObservationNext, ServerStep, ReceiveRegister, ReceiveDeregister, ReceiveFetch,
       ReceiveAck, ReceivePut, Received, Notify, Handled, ListenerStops, Task, Registered,
       RegistrationFails, Notified, Lost, Terminated, FetchStep, FetchAnswered, FetchFails,
       Terminate, Dropped, Network, Resend, Deliver, Lose, TransportFails, Untouched

LEMMA OrderedStep ==
    ASSUME ClientInv, OrderedInv, [ObservationNext]_allVars
    PROVE  OrderedInv' /\ (transport = "udp" => Forwards \/ UNCHANGED told)
<1>1. CASE UNCHANGED allVars
  <2>1. UNCHANGED <<transport, told, fetch, channel, outbox, history>>
    BY <1>1 DEF allVars, serverVars, clientVars
  <2>2. Ordered => Ordered'
    BY <2>1 DEF Ordered, InOrderFrom, Behind, Ascending, Says
  <2> QED
    BY <2>1, <2>2 DEF OrderedInv
<1>2. ASSUME ObservationNext, transport = "udp"
      PROVE  Ordered' /\ (Forwards \/ UNCHANGED told)
  <2>1. Ordered
    BY <1>2 DEF OrderedInv
  <2>2. Network => UNCHANGED told
    BY DEF Network, Resend, Deliver, Lose, TransportFails, clientVars
  <2> QED
    BY <1>2, <2>1, <2>2, ServerOrdered, NetworkOrdered, TaskOrdered
       DEF ObservationNext, clientVars
<1> QED
  BY <1>1, <1>2, TransportStays DEF OrderedInv

\* With the UDP listener, which sends one message after the other, and a network
\* that keeps the order, the handler is never told of an older state after a
\* newer one: a fetch, which takes any number of rounds, holds the others up
\* (client.rs:788-811).
THEOREM ToldForwardsCorrect == ObservationSpec => ToldForwards
<1>1. ObservationInit => OrderedInv
  <2> SUFFICES ASSUME ObservationInit PROVE Ordered
    BY DEF OrderedInv
  <2>1. channel = <<>> /\ outbox = <<>> /\ fetch = None /\ told.about = 0
    BY DEF ObservationInit, ServerInit
  <2> QED
    BY <2>1, NothingInOrder DEF Ordered, InOrderFrom, Behind
<1>2. ClientInv /\ OrderedInv /\ [ObservationNext]_allVars => OrderedInv'
  BY OrderedStep
<1>3. ClientInv /\ OrderedInv /\ [ObservationNext]_allVars =>
        [transport = "udp" => told'.about >= told.about]_told
  BY OrderedStep DEF Forwards
<1> QED
  BY <1>1, <1>2, <1>3, ClientCorrect, PTL DEF ObservationSpec, ToldForwards
=============================================================================
