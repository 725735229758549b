--------------------------- MODULE ObserverProofs ---------------------------
(***************************************************************************)
(* Proofs about the observe registry, for every value of its constants.    *)
(***************************************************************************)
EXTENDS Observer, TLAPS

-----------------------------------------------------------------------------
\* Binding x keeps the type of a partial function.
LEMMA BindType ==
    ASSUME NEW S, NEW T, NEW f, NEW x \in S, NEW v \in T,
           f \in [DOMAIN f -> T], DOMAIN f \subseteq S
    PROVE  /\ DOMAIN Bind(f, x, v) = DOMAIN f \cup {x}
           /\ DOMAIN Bind(f, x, v) \subseteq S
           /\ Bind(f, x, v) \in [DOMAIN Bind(f, x, v) -> T]
           /\ Bind(f, x, v)[x] = v
           /\ \A y \in DOMAIN f \ {x} : Bind(f, x, v)[y] = f[y]
BY DEF Bind

\* Unbinding x keeps the type of a partial function, also when x is unbound.
LEMMA UnbindType ==
    ASSUME NEW S, NEW T, NEW f, NEW x,
           f \in [DOMAIN f -> T], DOMAIN f \subseteq S
    PROVE  /\ DOMAIN Unbind(f, x) = DOMAIN f \ {x}
           /\ DOMAIN Unbind(f, x) \subseteq S
           /\ Unbind(f, x) \in [DOMAIN Unbind(f, x) -> T]
           /\ \A y \in DOMAIN f \ {x} : Unbind(f, x)[y] = f[y]
BY DEF Unbind, Restrict

\* A message built from a registration and a resource is a message.
LEMMA MessageForType ==
    ASSUME NEW kind \in {"registered", "notification"},
           NEW mid \in Mid \cup {None}, NEW r \in RegisterResourceItem,
           NEW s \in ResourceItem
    PROVE  MessageFor(kind, mid, r, s) \in Message
BY ObserverAssumption DEF MessageFor, Message, RegisterResourceItem, ResourceItem

\* A message is bound, or dropped because it cannot be encoded.
LEMMA HandOverEffect ==
    ASSUME NEW k, NEW message, HandOver(k, message)
    PROVE  /\ DOMAIN lastSent' \subseteq DOMAIN lastSent \cup {k}
           /\ \A j \in DOMAIN lastSent \ {k} :
                 j \in DOMAIN lastSent' /\ lastSent'[j] = lastSent[j]
           /\ \/ /\ Encodable(message) /\ k \in DOMAIN lastSent'
                 /\ DOMAIN lastSent \subseteq DOMAIN lastSent'
                 /\ lastSent'[k] = message
              \/ ~Encodable(message) /\ UNCHANGED lastSent
BY DEF HandOver, Bind

LEMMA HandOverType ==
    ASSUME TypeOK, NEW k \in Key, NEW message \in Message, HandOver(k, message)
    PROVE  lastSent' \in [DOMAIN lastSent' -> Message] /\ DOMAIN lastSent' \subseteq Key
<1>1. lastSent \in [DOMAIN lastSent -> Message] /\ DOMAIN lastSent \subseteq Key
  BY DEF TypeOK
<1>2. CASE lastSent' = Bind(lastSent, k, message)
  BY <1>1, <1>2, BindType
<1>3. CASE UNCHANGED lastSent
  BY <1>1, <1>3
<1> QED
  BY <1>2, <1>3 DEF HandOver

LEMMA WithoutPendingOfType ==
    ASSUME TypeOK, NEW k
    PROVE  /\ DOMAIN WithoutPendingOf(k) \subseteq DOMAIN unacknowledgeMessages
           /\ DOMAIN WithoutPendingOf(k) \subseteq Mid
           /\ WithoutPendingOf(k) \in
                [DOMAIN WithoutPendingOf(k) -> UnacknowledgeMessageItem]
BY UnbindType DEF WithoutPendingOf, TypeOK

-----------------------------------------------------------------------------
(***************************************************************************)
(* Type correctness needs no other invariant: what an action reads outside *)
(* the domain of a table makes it panic instead.                           *)
(***************************************************************************)
LEMMA InitType == Init => TypeOK
<1>1. /\ DOMAIN NoFunction = {}
      /\ \A S : NoFunction \in [DOMAIN NoFunction -> S]
  BY DEF NoFunction
<1>2. 0 \in Mid
  BY ObserverAssumption DEF Mid
<1> QED BY <1>1, <1>2 DEF Init, TypeOK

LEMMA RegisterType ==
    ASSUME TypeOK, NEW a \in Addr, NEW p \in Path, NEW t \in Token,
           NEW b \in BlockSize \cup {None}, Register(a, p, t, b)
    PROVE  TypeOK'
<1> DEFINE k == <<a, p>>
           r == [token |-> t, unacknowledged |-> None, block |-> b]
           own == IF a \in DOMAIN registers THEN registers[a] ELSE {}
<1>1. k \in Key /\ r \in RegisterResourceItem /\ {k} \cup own \in SUBSET Key
  BY DEF TypeOK, RegisterResourceItem, Key
<1>2. resources[p] \in ResourceItem
  BY DEF TypeOK, Register, RecordRegisterResource
<1>3. MessageFor("registered", None, r, resources[p]) \in Message
  BY <1>1, <1>2, MessageForType
<1>4. registers' \in [DOMAIN registers' -> SUBSET Key] /\ DOMAIN registers' \subseteq Addr
  <2> DEFINE all == {k} \cup own
  <2>1. registers' = Bind(registers, a, all)
    BY DEF Register, RecordRegisterResource
  <2>2. a \in Addr /\ all \in SUBSET Key
    BY <1>1
  <2>3. registers \in [DOMAIN registers -> SUBSET Key] /\ DOMAIN registers \subseteq Addr
    BY DEF TypeOK
  <2> HIDE DEF all
  <2> QED BY <2>1, <2>2, <2>3 DEF Bind
<1>5. resources' \in [DOMAIN resources' -> ResourceItem] /\ DOMAIN resources' \subseteq Path
  BY <1>1 DEF TypeOK, Register, RecordRegisterResource, ResourceItem
<1>6. /\ registerResources' \in [DOMAIN registerResources' -> RegisterResourceItem]
      /\ DOMAIN registerResources' \subseteq Key
  <2>1. registerResources' = Bind(registerResources, k, r)
    BY DEF Register, RecordRegisterResource
  <2>2. k \in Key /\ r \in RegisterResourceItem
    BY <1>1
  <2> HIDE DEF r, k
  <2> QED BY <2>1, <2>2, BindType DEF TypeOK
<1>7. /\ unacknowledgeMessages' \in [DOMAIN unacknowledgeMessages' -> UnacknowledgeMessageItem]
      /\ DOMAIN unacknowledgeMessages' \subseteq Mid
  BY WithoutPendingOfType DEF Register, RecordRegisterResource
<1>8. lastSent' \in [DOMAIN lastSent' -> Message] /\ DOMAIN lastSent' \subseteq Key
  <2> DEFINE sent == MessageFor("registered", None, r, resources[p])
  <2>1. HandOver(k, sent)
    BY DEF Register, RecordRegisterResource
  <2>2. k \in Key
    BY <1>1
  <2>3. sent \in Message
    BY <1>3
  <2> HIDE DEF sent, r, k
  <2> QED BY <2>1, <2>2, <2>3, HandOverType
<1> QED BY <1>4, <1>5, <1>6, <1>7, <1>8 DEF TypeOK, Register, RecordRegisterResource

\* What remove_register_resource leaves of the indexes.
LEMMA RemoveFromIndexesType ==
    ASSUME TypeOK, NEW k \in Key, ~IndexBroken(k), RemoveFromIndexes(k)
    PROVE  /\ registers' \in [DOMAIN registers' -> SUBSET Key]
           /\ DOMAIN registers' \subseteq Addr
           /\ resources' \in [DOMAIN resources' -> ResourceItem]
           /\ DOMAIN resources' \subseteq Path
           /\ registerResources' \in [DOMAIN registerResources' -> RegisterResourceItem]
           /\ DOMAIN registerResources' \subseteq Key
<1>1. resources' \in [DOMAIN resources' -> ResourceItem] /\ DOMAIN resources' \subseteq Path
  BY DEF TypeOK, RemoveFromIndexes, ResourceItem
<1>2. registers' \in [DOMAIN registers' -> SUBSET Key] /\ DOMAIN registers' \subseteq Addr
  <2>1. CASE registers[k[1]] \subseteq {k}
    <3>1. registers' = Unbind(registers, k[1])
      BY <2>1 DEF RemoveFromIndexes
    <3>2. registers \in [DOMAIN registers -> SUBSET Key] /\ DOMAIN registers \subseteq Addr
      BY DEF TypeOK
    <3> QED BY <3>1, <3>2 DEF Unbind, Restrict
  <2>2. CASE ~(registers[k[1]] \subseteq {k})
    <3>1. registers' = [registers EXCEPT ![k[1]] = @ \ {k}]
      BY <2>2 DEF RemoveFromIndexes
    <3> QED BY <3>1 DEF TypeOK, IndexBroken
  <2> QED BY <2>1, <2>2
<1>3. /\ registerResources' \in [DOMAIN registerResources' -> RegisterResourceItem]
      /\ DOMAIN registerResources' \subseteq Key
  <2>1. registerResources' = Unbind(registerResources, k)
    BY DEF RemoveFromIndexes
  <2> QED BY <2>1, UnbindType DEF TypeOK
<1> QED BY <1>1, <1>2, <1>3

LEMMA PanicType == ASSUME TypeOK, Panic PROVE TypeOK'
BY DEF TypeOK, Panic

LEMMA DeregisterType ==
    ASSUME TypeOK, NEW a \in Addr, NEW p \in Path, NEW t \in Token,
           Deregister(a, p, t)
    PROVE  TypeOK'
<1> DEFINE k == <<a, p>>
<1>1. CASE Panic
  BY <1>1, PanicType
<1>2. CASE ~Panic
  <2>1. /\ ~IndexBroken(k)
        /\ unacknowledgeMessages' = WithoutPendingOf(k)
        /\ RemoveFromIndexes(k)
        /\ canceller' = [source |-> a, token |-> t]
    BY <1>2 DEF Deregister
  <2>2. k \in Key
    BY DEF Key
  <2>3. canceller' \in Canceller
    BY <2>1 DEF Canceller
  <2> QED BY <2>1, <2>2, <2>3, RemoveFromIndexesType, WithoutPendingOfType
          DEF TypeOK, RemoveFromIndexes
<1> QED BY <1>1, <1>2

LEMMA ResetNotificationType ==
    ASSUME TypeOK, NEW a \in Addr, NEW m \in Mid, ResetNotification(a, m)
    PROVE  TypeOK'
<1> DEFINE k == unacknowledgeMessages[m].key
<1>1. CASE Panic
  BY <1>1, PanicType
<1>2. CASE ~Panic
  <2>1. /\ ~IndexBroken(k)
        /\ unacknowledgeMessages' = Unbind(unacknowledgeMessages, m)
        /\ RemoveFromIndexes(k)
        /\ canceller' = [source |-> a, token |-> None]
    BY <1>2 DEF ResetNotification
  <2>2. k \in Key
    BY DEF ResetNotification, TypeOK, UnacknowledgeMessageItem
  <2>3. canceller' \in Canceller
    BY <2>1 DEF Canceller
  <2>4. /\ unacknowledgeMessages' \in
             [DOMAIN unacknowledgeMessages' -> UnacknowledgeMessageItem]
        /\ DOMAIN unacknowledgeMessages' \subseteq Mid
    BY <2>1, UnbindType DEF TypeOK
  <2> QED BY <2>1, <2>2, <2>3, <2>4, RemoveFromIndexesType
          DEF TypeOK, RemoveFromIndexes
<1> QED BY <1>1, <1>2

LEMMA AcknowledgeType ==
    ASSUME TypeOK, NEW m \in Mid, NEW t \in Token, Acknowledge(m, t)
    PROVE  TypeOK'
<1> DEFINE k == unacknowledgeMessages[m].key
<1>1. CASE Panic
  BY <1>1, PanicType
<1>2. CASE ~Panic
  <2>1. /\ registerResources' = [registerResources EXCEPT ![k].unacknowledged = None]
        /\ unacknowledgeMessages' = Unbind(unacknowledgeMessages, m)
        /\ UNCHANGED <<registers, resources, currentMessageId, loop, todo,
                       panicked, lastSent, canceller>>
    BY <1>2 DEF Acknowledge
  <2>2. /\ unacknowledgeMessages' \in
             [DOMAIN unacknowledgeMessages' -> UnacknowledgeMessageItem]
        /\ DOMAIN unacknowledgeMessages' \subseteq Mid
    BY <2>1, UnbindType DEF TypeOK
  <2>3. /\ registerResources' \in [DOMAIN registerResources' -> RegisterResourceItem]
        /\ DOMAIN registerResources' \subseteq Key
    BY <2>1 DEF TypeOK, RegisterResourceItem
  <2> QED BY <2>1, <2>2, <2>3 DEF TypeOK
<1> QED BY <1>1, <1>2

LEMMA ResourceChangedType ==
    ASSUME TypeOK, NEW p \in Path, NEW n \in PayloadLen, ResourceChanged(p, n)
    PROVE  TypeOK'
<1> DEFINE known == p \in DOMAIN resources
           new == IF known
                  THEN [resources[p] EXCEPT !.sequence = @ + 1, !.payload = n]
                  ELSE [payload |-> n, registered |-> {}, sequence |-> 0]
<1>1. /\ known => resources[p].sequence < MaxSequence
      /\ resources' = Bind(resources, p, new)
      /\ todo' = new.registered
      /\ loop' \in {"idle", "changed"}
      /\ UNCHANGED <<registers, registerResources, unacknowledgeMessages,
                     currentMessageId, panicked, lastSent, canceller>>
  BY DEF ResourceChanged
<1>2. new \in ResourceItem
  <2>1. CASE known
    <3>1. resources[p] \in ResourceItem
      BY <2>1 DEF TypeOK
    <3>2. resources[p].sequence + 1 \in 0 .. MaxSequence
      BY <1>1, <2>1, <3>1, ObserverAssumption DEF ResourceItem
    <3> QED BY <2>1, <3>1, <3>2 DEF ResourceItem
  <2>2. CASE ~known
    BY <2>2, ObserverAssumption DEF ResourceItem
  <2> QED BY <2>1, <2>2
<1>3. todo' \subseteq Key
  BY <1>1, <1>2 DEF ResourceItem
<1> HIDE DEF new
<1>4. resources' \in [DOMAIN resources' -> ResourceItem] /\ DOMAIN resources' \subseteq Path
  BY <1>1, <1>2, BindType DEF TypeOK
<1> QED BY <1>1, <1>3, <1>4 DEF TypeOK

LEMMA NextMidType == currentMessageId \in Mid => NextMid \in Mid
BY ObserverAssumption DEF NextMid, Mid

LEMMA NotifyChangedType ==
    ASSUME TypeOK, NEW k \in Key, NotifyChanged(k)
    PROVE  TypeOK'
<1> DEFINE r == [registerResources[k] EXCEPT !.unacknowledged = NextMid]
           sent == MessageFor("notification", NextMid, r, resources[k[2]])
           item == [key |-> k, tries |-> 1]
<1>1. CASE Panic
  BY <1>1, PanicType
<1>2. CASE ~Panic
  <2>1. /\ ~NotifyBroken(k)
        /\ currentMessageId' = NextMid
        /\ HandOver(k, sent)
        /\ registerResources' = [registerResources EXCEPT ![k] = r]
        /\ unacknowledgeMessages' = Bind(WithoutPendingOf(k), NextMid, item)
        /\ EndRound(k)
        /\ UNCHANGED <<registers, resources, panicked, canceller>>
    BY <1>2 DEF NotifyChanged
  <2>2. k \in DOMAIN registerResources /\ k[2] \in DOMAIN resources
    BY <2>1 DEF NotifyBroken
  <2>3. NextMid \in Mid
    BY NextMidType DEF TypeOK
  <2>4. r \in RegisterResourceItem
    BY <2>2, <2>3 DEF TypeOK, RegisterResourceItem
  <2>5. sent \in Message
    <3>1. resources[k[2]] \in ResourceItem
      BY <2>2 DEF TypeOK
    <3> HIDE DEF r
    <3> QED BY <2>3, <2>4, <3>1, MessageForType
  <2>6. item \in UnacknowledgeMessageItem
    BY ObserverAssumption DEF UnacknowledgeMessageItem
  <2>7. todo' \subseteq Key /\ loop' \in {"idle", "changed", "timer"}
    BY <2>1 DEF EndRound, TypeOK
  <2> HIDE DEF r, sent, item
  <2>8. lastSent' \in [DOMAIN lastSent' -> Message] /\ DOMAIN lastSent' \subseteq Key
    BY <2>1, <2>5, HandOverType
  <2>9. /\ unacknowledgeMessages' \in
             [DOMAIN unacknowledgeMessages' -> UnacknowledgeMessageItem]
        /\ DOMAIN unacknowledgeMessages' \subseteq Mid
    BY <2>1, <2>3, <2>6, WithoutPendingOfType, BindType
  <2>10. /\ registerResources' \in [DOMAIN registerResources' -> RegisterResourceItem]
         /\ DOMAIN registerResources' \subseteq Key
    BY <2>1, <2>4 DEF TypeOK
  <2> QED BY <2>1, <2>3, <2>7, <2>8, <2>9, <2>10 DEF TypeOK
<1> QED BY <1>1, <1>2

LEMMA TimerHandlerType == ASSUME TypeOK, TimerHandler PROVE TypeOK'
<1>1. todo' \subseteq Key
  BY DEF TypeOK, TimerHandler, UnacknowledgeMessageItem
<1> QED BY <1>1 DEF TypeOK, TimerHandler, tables

LEMMA RetryUnacknowledgedType ==
    ASSUME TypeOK, NEW k \in Key, RetryUnacknowledged(k)
    PROVE  TypeOK'
<1> DEFINE m == registerResources[k].unacknowledged
           sent == MessageFor("notification", currentMessageId,
                              registerResources[k], resources[k[2]])
<1>1. CASE Panic
  BY <1>1, PanicType
<1>2. CASE ~Panic
  <2>1. /\ ~NotifyBroken(k)
        /\ m \in DOMAIN unacknowledgeMessages
        /\ EndRound(k)
        /\ UNCHANGED <<registers, resources, currentMessageId, panicked, canceller>>
    BY <1>2 DEF RetryUnacknowledged
  <2>2. k \in DOMAIN registerResources /\ k[2] \in DOMAIN resources
    BY <2>1 DEF NotifyBroken
  <2>3. todo' \subseteq Key /\ loop' \in {"idle", "changed", "timer"}
    BY <2>1 DEF EndRound, TypeOK
  <2>4. CASE TriesExceeded(m)
    <3>1. /\ registerResources' = [registerResources EXCEPT ![k].unacknowledged = None]
          /\ unacknowledgeMessages' = Unbind(unacknowledgeMessages, m)
          /\ UNCHANGED lastSent
      BY <1>2, <2>4 DEF RetryUnacknowledged
    <3>2. /\ unacknowledgeMessages' \in
               [DOMAIN unacknowledgeMessages' -> UnacknowledgeMessageItem]
          /\ DOMAIN unacknowledgeMessages' \subseteq Mid
      BY <3>1, UnbindType DEF TypeOK
    <3>3. /\ registerResources' \in [DOMAIN registerResources' -> RegisterResourceItem]
          /\ DOMAIN registerResources' \subseteq Key
      BY <3>1 DEF TypeOK, RegisterResourceItem
    <3> QED BY <2>1, <2>3, <3>1, <3>2, <3>3 DEF TypeOK
  <2>5. CASE ~TriesExceeded(m)
    <3>1. /\ unacknowledgeMessages' = CountTry(m)
          /\ HandOver(k, sent)
          /\ UNCHANGED registerResources
      BY <1>2, <2>5 DEF RetryUnacknowledged
    <3>2. sent \in Message
      BY <2>2, MessageForType DEF TypeOK
    <3>3. /\ unacknowledgeMessages' \in
               [DOMAIN unacknowledgeMessages' -> UnacknowledgeMessageItem]
          /\ DOMAIN unacknowledgeMessages' \subseteq Mid
      BY <2>1, <2>5, <3>1, ObserverAssumption
         DEF TypeOK, CountTry, TriesExceeded, UnacknowledgeMessageItem
    <3> HIDE DEF sent
    <3>4. lastSent' \in [DOMAIN lastSent' -> Message] /\ DOMAIN lastSent' \subseteq Key
      BY <3>1, <3>2, HandOverType
    <3> QED BY <2>1, <2>3, <3>1, <3>3, <3>4 DEF TypeOK
  <2> QED BY <2>4, <2>5
<1> QED BY <1>1, <1>2

LEMMA NextType == TypeOK /\ [Next]_vars => TypeOK'
<1> SUFFICES ASSUME TypeOK, [Next]_vars PROVE TypeOK'
  OBVIOUS
<1>1. CASE Request
  BY <1>1, RegisterType, DeregisterType, ResetNotificationType,
     AcknowledgeType, ResourceChangedType DEF Request
<1>2. CASE Rounds
  BY <1>2, NotifyChangedType, RetryUnacknowledgedType DEF Rounds
<1>3. CASE TimerHandler
  BY <1>3, TimerHandlerType
<1>4. CASE UNCHANGED vars
  BY <1>4 DEF TypeOK, vars
<1> QED BY <1>1, <1>2, <1>3, <1>4 DEF Next

\* The tables of observer.rs keep their shape, and the number of tries of a
\* notification stays within one of its maximum, whatever requests arrive,
\* also when message ids wrap.
THEOREM TypeCorrect == Spec => []TypeOK
BY InitType, NextType, PTL DEF Spec

-----------------------------------------------------------------------------
(***************************************************************************)
(* The indexes agree, with or without overflow checks.                     *)
(***************************************************************************)
LEMMA RegisterIndexes ==
    ASSUME TypeOK, IndexesAgree, NEW a \in Addr, NEW p \in Path, NEW t \in Token,
           NEW b \in BlockSize \cup {None}, Register(a, p, t, b)
    PROVE  IndexesAgree'
<1> DEFINE k == <<a, p>>
<1>1. /\ DOMAIN registerResources' = DOMAIN registerResources \cup {k}
      /\ DOMAIN registers' = DOMAIN registers \cup {a}
      /\ DOMAIN resources' = DOMAIN resources
      /\ p \in DOMAIN resources
  BY DEF Register, RecordRegisterResource, Bind, TypeOK
<1>2. /\ registers'[a] = (IF a \in DOMAIN registers THEN registers[a] ELSE {}) \cup {k}
      /\ \A c \in DOMAIN registers \ {a} : registers'[c] = registers[c]
  BY DEF Register, RecordRegisterResource, Bind, TypeOK
<1>3. /\ resources'[p].registered = resources[p].registered \cup {k}
      /\ \A q \in DOMAIN resources \ {p} : resources'[q] = resources[q]
  BY <1>1 DEF Register, RecordRegisterResource, TypeOK, ResourceItem
<1>4. \A j \in Key : j[1] = a /\ j[2] = p => j = k
  BY DEF Key
<1>5. k \in Key /\ k[1] = a /\ k[2] = p
  BY DEF Key
<1> HIDE DEF k
<1>6. ASSUME NEW c \in DOMAIN registers'
      PROVE  /\ registers'[c] = {j \in DOMAIN registerResources' : j[1] = c}
             /\ registers'[c] # {}
  <2>1. a \notin DOMAIN registers => {j \in DOMAIN registerResources : j[1] = a} = {}
    BY DEF IndexesAgree
  <2>2. CASE c = a /\ a \in DOMAIN registers
    <3>1. registers'[c] = {j \in DOMAIN registerResources : j[1] = a} \cup {k}
      BY <1>2, <2>2 DEF IndexesAgree
    <3> QED BY <1>1, <1>5, <2>2, <3>1
  <2>3. CASE c = a /\ a \notin DOMAIN registers
    <3>1. registers'[c] = {k}
      BY <1>2, <2>3
    <3> QED BY <1>1, <1>5, <2>1, <2>3, <3>1
  <2>4. CASE c # a
    <3>1. c \in DOMAIN registers /\ registers'[c] = registers[c]
      BY <1>1, <1>2, <2>4
    <3> QED BY <1>1, <1>5, <2>4, <3>1 DEF IndexesAgree
  <2> QED BY <2>2, <2>3, <2>4
<1>7. ASSUME NEW q \in DOMAIN resources'
      PROVE  resources'[q].registered = {j \in DOMAIN registerResources' : j[2] = q}
  BY <1>1, <1>3, <1>5 DEF IndexesAgree
<1>8. ASSUME NEW j \in DOMAIN registerResources'
      PROVE  j[1] \in DOMAIN registers' /\ j[2] \in DOMAIN resources'
  BY <1>1, <1>5 DEF IndexesAgree
<1> QED BY <1>6, <1>7, <1>8 DEF IndexesAgree

LEMMA RemoveIndexes ==
    ASSUME TypeOK, IndexesAgree, NEW k \in Key, ~IndexBroken(k), RemoveFromIndexes(k)
    PROVE  IndexesAgree'
<1>1. /\ DOMAIN registerResources' = DOMAIN registerResources \ {k}
      /\ DOMAIN resources' = DOMAIN resources
      /\ k[2] \in DOMAIN resources /\ k[1] \in DOMAIN registers
  <2>1. registerResources' = Unbind(registerResources, k)
    BY DEF RemoveFromIndexes
  <2>2. DOMAIN registerResources' = DOMAIN registerResources \ {k}
    BY <2>1 DEF Unbind, Restrict
  <2> QED BY <2>2 DEF RemoveFromIndexes, TypeOK, IndexBroken
<1>2. \A q \in DOMAIN resources :
         resources'[q].registered =
           IF q = k[2] THEN resources[q].registered \ {k} ELSE resources[q].registered
  BY <1>1 DEF RemoveFromIndexes, TypeOK, ResourceItem
<1>3. /\ \A c \in DOMAIN registers \ {k[1]} :
            c \in DOMAIN registers' /\ registers'[c] = registers[c]
      /\ DOMAIN registers' \subseteq DOMAIN registers
      /\ k[1] \in DOMAIN registers' =>
            registers'[k[1]] = registers[k[1]] \ {k} /\ registers'[k[1]] # {}
      /\ k[1] \notin DOMAIN registers' => registers[k[1]] \subseteq {k}
  <2>1. CASE registers[k[1]] \subseteq {k}
    <3>1. registers' = Unbind(registers, k[1])
      BY <2>1 DEF RemoveFromIndexes
    <3> QED BY <2>1, <3>1 DEF Unbind, Restrict
  <2>2. CASE ~(registers[k[1]] \subseteq {k})
    <3>1. registers' = [registers EXCEPT ![k[1]] = @ \ {k}]
      BY <2>2 DEF RemoveFromIndexes
    <3>2. registers'[k[1]] = registers[k[1]] \ {k} /\ DOMAIN registers' = DOMAIN registers
      BY <1>1, <3>1 DEF TypeOK
    <3> QED BY <1>1, <2>2, <3>1, <3>2 DEF TypeOK
  <2> QED BY <2>1, <2>2
<1>4. ASSUME NEW c \in DOMAIN registers'
      PROVE  /\ registers'[c] = {j \in DOMAIN registerResources' : j[1] = c}
             /\ registers'[c] # {}
  <2>1. CASE c = k[1]
    BY <1>1, <1>3, <2>1 DEF IndexesAgree
  <2>2. CASE c # k[1]
    BY <1>1, <1>3, <2>2 DEF IndexesAgree
  <2> QED BY <2>1, <2>2
<1>5. ASSUME NEW q \in DOMAIN resources'
      PROVE  resources'[q].registered = {j \in DOMAIN registerResources' : j[2] = q}
  <2>1. resources[q].registered = {j \in DOMAIN registerResources : j[2] = q}
    BY <1>1 DEF IndexesAgree
  <2>2. CASE q = k[2]
    BY <1>1, <1>2, <2>1, <2>2
  <2>3. CASE q # k[2]
    BY <1>1, <1>2, <2>1, <2>3
  <2> QED BY <2>2, <2>3
<1>6. ASSUME NEW j \in DOMAIN registerResources'
      PROVE  j[1] \in DOMAIN registers' /\ j[2] \in DOMAIN resources'
  <2>1. j \in registers[j[1]] /\ j # k /\ j[1] \in DOMAIN registers
    BY <1>1 DEF IndexesAgree
  <2> QED BY <1>1, <1>3, <2>1 DEF IndexesAgree
<1> QED BY <1>4, <1>5, <1>6 DEF IndexesAgree

\* The steps that leave the indexes and the keys of registerResources alone.
LEMMA SameIndexes ==
    ASSUME IndexesAgree, registers' = registers, resources' = resources,
           DOMAIN registerResources' = DOMAIN registerResources
    PROVE  IndexesAgree'
BY DEF IndexesAgree

LEMMA NextIndexes == TypeOK /\ IndexesAgree /\ [Next]_vars => IndexesAgree'
<1> SUFFICES ASSUME TypeOK, IndexesAgree, [Next]_vars PROVE IndexesAgree'
  OBVIOUS
<1>0. CASE Panic
  BY <1>0, SameIndexes DEF Panic
<1>1. ASSUME NEW a \in Addr, NEW p \in Path, NEW t \in Token,
             NEW b \in BlockSize \cup {None}, Register(a, p, t, b)
      PROVE  IndexesAgree'
  BY <1>1, RegisterIndexes
<1>2. ASSUME NEW a \in Addr, NEW p \in Path, NEW t \in Token, Deregister(a, p, t), ~Panic
      PROVE  IndexesAgree'
  <2> DEFINE k == <<a, p>>
  <2>1. k \in Key /\ ~IndexBroken(k) /\ RemoveFromIndexes(k)
    BY <1>2 DEF Deregister, Key
  <2> QED BY <2>1, RemoveIndexes
<1>3. ASSUME NEW a \in Addr, NEW m \in Mid, ResetNotification(a, m), ~Panic
      PROVE  IndexesAgree'
  <2> DEFINE k == unacknowledgeMessages[m].key
  <2>1. ~IndexBroken(k) /\ RemoveFromIndexes(k)
    BY <1>3 DEF ResetNotification
  <2>2. k \in Key
    BY <1>3 DEF ResetNotification, TypeOK, UnacknowledgeMessageItem
  <2> QED BY <2>1, <2>2, RemoveIndexes
<1>4. ASSUME NEW m \in Mid, NEW t \in Token, Acknowledge(m, t), ~Panic
      PROVE  IndexesAgree'
  <2>1. /\ DOMAIN registerResources' = DOMAIN registerResources
        /\ registers' = registers /\ resources' = resources
    BY <1>4 DEF Acknowledge, TypeOK
  <2> QED BY <2>1, SameIndexes
<1>5. ASSUME NEW p \in Path, NEW n \in PayloadLen, ResourceChanged(p, n)
      PROVE  IndexesAgree'
  <2>1. registers' = registers /\ registerResources' = registerResources
    BY <1>5 DEF ResourceChanged
  <2> DEFINE new == IF p \in DOMAIN resources
                    THEN [resources[p] EXCEPT !.sequence = @ + 1, !.payload = n]
                    ELSE [payload |-> n, registered |-> {}, sequence |-> 0]
  <2>2. resources' = Bind(resources, p, new)
    BY <1>5 DEF ResourceChanged
  <2>3. new.registered = {k \in DOMAIN registerResources : k[2] = p}
    <3>1. CASE p \in DOMAIN resources
      BY <3>1 DEF IndexesAgree, TypeOK, ResourceItem
    <3>2. CASE p \notin DOMAIN resources
      BY <3>2 DEF IndexesAgree
    <3> QED BY <3>1, <3>2
  <2> HIDE DEF new
  <2> QED BY <2>1, <2>2, <2>3 DEF IndexesAgree, Bind
<1>6. ASSUME NEW k \in Key, NotifyChanged(k), ~Panic
      PROVE  IndexesAgree'
  <2>1. /\ DOMAIN registerResources' = DOMAIN registerResources
        /\ registers' = registers /\ resources' = resources
    BY <1>6 DEF NotifyChanged, TypeOK
  <2> QED BY <2>1, SameIndexes
<1>7. ASSUME NEW k \in Key, RetryUnacknowledged(k), ~Panic
      PROVE  IndexesAgree'
  <2>1. /\ DOMAIN registerResources' = DOMAIN registerResources
        /\ registers' = registers /\ resources' = resources
    BY <1>7 DEF RetryUnacknowledged, TypeOK
  <2> QED BY <2>1, SameIndexes
<1>8. CASE TimerHandler \/ UNCHANGED vars
  BY <1>8, SameIndexes DEF TimerHandler, tables, vars
<1> QED BY <1>0, <1>1, <1>2, <1>3, <1>4, <1>5, <1>6, <1>7, <1>8
        DEF Next, Request, Rounds

\* The tables by endpoint, by resource and by key always name the same
\* registrations, also when message ids wrap and after any other panic.
THEOREM IndexesCorrect == Spec => []IndexesAgree
<1>1. Init => IndexesAgree
  BY DEF Init, IndexesAgree, NoFunction
<1> QED BY <1>1, InitType, NextType, NextIndexes, PTL DEF Spec

-----------------------------------------------------------------------------
(***************************************************************************)
(* Only the endpoint of a registration removes it.                         *)
(***************************************************************************)
LEMMA NextOnlyOwner ==
    ASSUME TypeOK, [Next]_vars,
           NEW j \in DOMAIN registerResources \ DOMAIN registerResources'
    PROVE  /\ canceller'.source = j[1]
           /\ canceller'.token \in {registerResources[j].token, None}
<1>0. CASE Panic
  BY <1>0 DEF Panic
<1>1. ASSUME NEW a \in Addr, NEW p \in Path, NEW t \in Token,
             NEW b \in BlockSize \cup {None}, Register(a, p, t, b)
      PROVE  FALSE
  BY <1>1 DEF Register, RecordRegisterResource, Bind
<1>2. ASSUME NEW a \in Addr, NEW p \in Path, NEW t \in Token, Deregister(a, p, t), ~Panic
      PROVE  /\ canceller'.source = j[1]
             /\ canceller'.token = registerResources[j].token
  <2> DEFINE k == <<a, p>>
  <2>1. /\ registerResources[k].token = t
        /\ registerResources' = Unbind(registerResources, k)
        /\ canceller' = [source |-> a, token |-> t]
    BY <1>2 DEF Deregister, RemoveFromIndexes
  <2>2. j = k
    BY <2>1 DEF Unbind, Restrict
  <2> QED BY <2>1, <2>2
<1>3. ASSUME NEW a \in Addr, NEW m \in Mid, ResetNotification(a, m), ~Panic
      PROVE  canceller'.source = j[1] /\ canceller'.token = None
  <2> DEFINE k == unacknowledgeMessages[m].key
  <2>1. /\ a = k[1]
        /\ registerResources' = Unbind(registerResources, k)
        /\ canceller' = [source |-> a, token |-> None]
    BY <1>3 DEF ResetNotification, RemoveFromIndexes
  <2>2. j = k
    BY <2>1 DEF Unbind, Restrict
  <2> QED BY <2>1, <2>2
<1>4. ASSUME NEW m \in Mid, NEW t \in Token, Acknowledge(m, t), ~Panic
      PROVE  FALSE
  BY <1>4 DEF Acknowledge, TypeOK
<1>5. ASSUME NEW p \in Path, NEW n \in PayloadLen, ResourceChanged(p, n)
      PROVE  FALSE
  BY <1>5 DEF ResourceChanged
<1>6. ASSUME NEW k \in Key, NotifyChanged(k), ~Panic
      PROVE  FALSE
  BY <1>6 DEF NotifyChanged, TypeOK
<1>7. ASSUME NEW k \in Key, RetryUnacknowledged(k), ~Panic
      PROVE  FALSE
  BY <1>7 DEF RetryUnacknowledged, TypeOK
<1>8. CASE TimerHandler \/ UNCHANGED vars
  BY <1>8 DEF TimerHandler, tables, vars
<1> QED BY <1>0, <1>1, <1>2, <1>3, <1>4, <1>5, <1>6, <1>7, <1>8
        DEF Next, Request, Rounds

\* No endpoint can remove another's registration, whatever message ids it
\* names in a Reset and whatever tokens it names in a deregistration, also
\* when message ids wrap and are used for two registrations.
THEOREM OnlyOwnerCancelsCorrect == Spec => OnlyOwnerCancels
<1>1. TypeOK /\ [Next]_vars =>
        [\A k \in DOMAIN registerResources \ DOMAIN registerResources' :
            /\ canceller'.source = k[1]
            /\ canceller'.token \in {registerResources[k].token, None}]_vars
  BY NextOnlyOwner
<1> QED BY <1>1, TypeCorrect, PTL DEF Spec, OnlyOwnerCancels

-----------------------------------------------------------------------------
(***************************************************************************)
(* With overflow checks a message id is used once, so the pending messages *)
(* agree with the registrations and no unwrap or assert fails.             *)
(***************************************************************************)
\* Removing the pending message of k removes exactly the messages for k.
LEMMA WithoutPendingOfExact ==
    ASSUME TypeOK, PendingAgrees, NEW k
    PROVE  /\ DOMAIN WithoutPendingOf(k) =
                {m \in DOMAIN unacknowledgeMessages : unacknowledgeMessages[m].key # k}
           /\ \A m \in DOMAIN WithoutPendingOf(k) :
                 WithoutPendingOf(k)[m] = unacknowledgeMessages[m]
<1>1. CASE k \in DOMAIN registerResources
  <2> DEFINE m == registerResources[k].unacknowledged
  <2>1. WithoutPendingOf(k) = Unbind(unacknowledgeMessages, m)
    BY <1>1 DEF WithoutPendingOf
  <2>2. \A n \in DOMAIN unacknowledgeMessages :
           unacknowledgeMessages[n].key = k => n = m
    BY DEF PendingAgrees
  <2>3. m \in DOMAIN unacknowledgeMessages => unacknowledgeMessages[m].key = k
    <3>1. m # None \/ m \notin DOMAIN unacknowledgeMessages
      BY ObserverAssumption DEF TypeOK, Mid
    <3> QED BY <1>1, <3>1 DEF PendingAgrees
  <2> HIDE DEF m
  <2> QED BY <2>1, <2>2, <2>3 DEF Unbind, Restrict
<1>2. CASE k \notin DOMAIN registerResources
  BY <1>2 DEF WithoutPendingOf, PendingAgrees
<1> QED BY <1>1, <1>2

\* A step that drops the pending message of k and changes no other
\* registration keeps the two tables in agreement.
LEMMA DropPending ==
    ASSUME TypeOK, PendingAgrees, NEW k,
           unacknowledgeMessages' = WithoutPendingOf(k),
           k \in DOMAIN registerResources' => registerResources'[k].unacknowledged = None,
           DOMAIN registerResources' \ {k} = DOMAIN registerResources \ {k},
           \A j \in DOMAIN registerResources \ {k} : registerResources'[j] = registerResources[j]
    PROVE  PendingAgrees'
<1>1. /\ DOMAIN unacknowledgeMessages' =
           {m \in DOMAIN unacknowledgeMessages : unacknowledgeMessages[m].key # k}
      /\ \A m \in DOMAIN unacknowledgeMessages' :
            unacknowledgeMessages'[m] = unacknowledgeMessages[m]
  BY WithoutPendingOfExact
<1>2. ASSUME NEW j \in DOMAIN registerResources',
             registerResources'[j].unacknowledged # None
      PROVE  LET m == registerResources'[j].unacknowledged IN
             m \in DOMAIN unacknowledgeMessages' /\ unacknowledgeMessages'[m].key = j
  <2>1. j # k /\ j \in DOMAIN registerResources /\ registerResources'[j] = registerResources[j]
    BY <1>2
  <2> QED BY <1>1, <1>2, <2>1 DEF PendingAgrees
<1>3. ASSUME NEW m \in DOMAIN unacknowledgeMessages'
      PROVE  LET j == unacknowledgeMessages'[m].key IN
             j \in DOMAIN registerResources' /\ registerResources'[j].unacknowledged = m
  BY <1>1 DEF PendingAgrees
<1> QED BY <1>2, <1>3 DEF PendingAgrees

LEMMA IndexesNotBroken ==
    ASSUME IndexesAgree, NEW k \in DOMAIN registerResources
    PROVE  ~IndexBroken(k) /\ ~NotifyBroken(k)
BY DEF IndexesAgree, IndexBroken, NotifyBroken

\* A step that stays idle and issues no message id.
LEMMA IdleStep ==
    ASSUME IInv, Idle, PendingAgrees',
           DOMAIN unacknowledgeMessages' \subseteq DOMAIN unacknowledgeMessages,
           UNCHANGED <<currentMessageId, loop, todo, panicked>>
    PROVE  PendingAgrees' /\ RoundsLeft' /\ MidsIssued' /\ PanicOnlyOnOverflow'
BY DEF IInv, Idle, RoundsLeft, MidsIssued, PanicOnlyOnOverflow

LEMMA PendingRegister ==
    ASSUME IInv, NEW a \in Addr, NEW p \in Path, NEW t \in Token,
           NEW b \in BlockSize \cup {None}, Register(a, p, t, b)
    PROVE  PendingAgrees' /\ RoundsLeft' /\ MidsIssued' /\ PanicOnlyOnOverflow'
<1> DEFINE k == <<a, p>>
           r == [token |-> t, unacknowledged |-> None, block |-> b]
<1>1. /\ Idle
      /\ registerResources' = Bind(registerResources, k, r)
      /\ unacknowledgeMessages' = WithoutPendingOf(k)
      /\ UNCHANGED <<currentMessageId, loop, todo, panicked>>
  BY DEF Register, RecordRegisterResource
<1>2. r.unacknowledged = None
  OBVIOUS
<1> HIDE DEF k, r
<1>3. PendingAgrees'
  BY <1>1, <1>2, DropPending DEF IInv, Bind
<1>4. DOMAIN unacknowledgeMessages' \subseteq DOMAIN unacknowledgeMessages
  BY <1>1, WithoutPendingOfType DEF IInv
<1> QED BY <1>1, <1>3, <1>4, IdleStep

LEMMA PendingDeregister ==
    ASSUME IInv, NEW a \in Addr, NEW p \in Path, NEW t \in Token, Deregister(a, p, t)
    PROVE  PendingAgrees' /\ RoundsLeft' /\ MidsIssued' /\ PanicOnlyOnOverflow'
<1> DEFINE k == <<a, p>>
<1>1. /\ Idle
      /\ k \in DOMAIN registerResources
  BY DEF Deregister
<1>2. /\ registerResources' = Unbind(registerResources, k)
      /\ unacknowledgeMessages' = WithoutPendingOf(k)
      /\ UNCHANGED <<currentMessageId, loop, todo, panicked>>
  BY <1>1, IndexesNotBroken DEF Deregister, RemoveFromIndexes, IInv, PendingAgrees
<1> HIDE DEF k
<1>3. PendingAgrees'
  BY <1>2, DropPending DEF IInv, Unbind, Restrict
<1>4. DOMAIN unacknowledgeMessages' \subseteq DOMAIN unacknowledgeMessages
  BY <1>2, WithoutPendingOfType DEF IInv
<1> QED BY <1>1, <1>2, <1>3, <1>4, IdleStep

\* The message id of an entry is the one its registration waits for.
LEMMA UnbindIsWithout ==
    ASSUME PendingAgrees, NEW m \in DOMAIN unacknowledgeMessages
    PROVE  /\ unacknowledgeMessages[m].key \in DOMAIN registerResources
           /\ Unbind(unacknowledgeMessages, m) =
                WithoutPendingOf(unacknowledgeMessages[m].key)
BY DEF PendingAgrees, WithoutPendingOf

LEMMA PendingReset ==
    ASSUME IInv, NEW a \in Addr, NEW m \in Mid, ResetNotification(a, m)
    PROVE  PendingAgrees' /\ RoundsLeft' /\ MidsIssued' /\ PanicOnlyOnOverflow'
<1> DEFINE k == unacknowledgeMessages[m].key
<1>1. /\ Idle
      /\ m \in DOMAIN unacknowledgeMessages
      /\ k \in DOMAIN registerResources
  BY DEF ResetNotification
<1>2. /\ registerResources' = Unbind(registerResources, k)
      /\ unacknowledgeMessages' = WithoutPendingOf(k)
      /\ UNCHANGED <<currentMessageId, loop, todo, panicked>>
  BY <1>1, IndexesNotBroken, UnbindIsWithout
     DEF ResetNotification, RemoveFromIndexes, IInv
<1> HIDE DEF k
<1>3. PendingAgrees'
  BY <1>2, DropPending DEF IInv, Unbind, Restrict
<1>4. DOMAIN unacknowledgeMessages' \subseteq DOMAIN unacknowledgeMessages
  BY <1>2, WithoutPendingOfType DEF IInv
<1> QED BY <1>1, <1>2, <1>3, <1>4, IdleStep

LEMMA PendingAcknowledge ==
    ASSUME IInv, NEW m \in Mid, NEW t \in Token, Acknowledge(m, t)
    PROVE  PendingAgrees' /\ RoundsLeft' /\ MidsIssued' /\ PanicOnlyOnOverflow'
<1> DEFINE k == unacknowledgeMessages[m].key
<1>1. Idle /\ m \in DOMAIN unacknowledgeMessages
  BY DEF Acknowledge
<1>2. k \in DOMAIN registerResources /\ PendingAgrees
  BY <1>1, UnbindIsWithout DEF IInv
<1>3. /\ registerResources' = [registerResources EXCEPT ![k].unacknowledged = None]
      /\ unacknowledgeMessages' = WithoutPendingOf(k)
      /\ UNCHANGED <<currentMessageId, loop, todo, panicked>>
  BY <1>1, <1>2, UnbindIsWithout DEF Acknowledge
<1> HIDE DEF k
<1>4. /\ registerResources'[k].unacknowledged = None
      /\ DOMAIN registerResources' = DOMAIN registerResources
      /\ \A j \in DOMAIN registerResources \ {k} : registerResources'[j] = registerResources[j]
  BY <1>2, <1>3 DEF IInv, TypeOK, RegisterResourceItem
<1>5. PendingAgrees'
  BY <1>3, <1>4, DropPending DEF IInv
<1>6. DOMAIN unacknowledgeMessages' \subseteq DOMAIN unacknowledgeMessages
  BY <1>3, WithoutPendingOfType DEF IInv
<1> QED BY <1>1, <1>3, <1>5, <1>6, IdleStep

LEMMA PendingResourceChanged ==
    ASSUME IInv, NEW p \in Path, NEW n \in PayloadLen, ResourceChanged(p, n)
    PROVE  PendingAgrees' /\ RoundsLeft' /\ MidsIssued' /\ PanicOnlyOnOverflow'
<1>1. /\ Idle /\ loop' \in {"idle", "changed"}
      /\ UNCHANGED <<registers, registerResources, unacknowledgeMessages,
                     currentMessageId, panicked>>
  BY DEF ResourceChanged
<1>2. todo' \subseteq DOMAIN registerResources
  <2>1. CASE p \in DOMAIN resources
    <3>1. todo' = resources[p].registered
      BY <2>1 DEF ResourceChanged, IInv, TypeOK, ResourceItem
    <3> QED BY <2>1, <3>1 DEF IInv, IndexesAgree
  <2>2. CASE p \notin DOMAIN resources
    BY <2>2 DEF ResourceChanged
  <2> QED BY <2>1, <2>2
<1>3. PendingAgrees' /\ MidsIssued'
  BY <1>1 DEF IInv, PendingAgrees, MidsIssued
<1>4. RoundsLeft' /\ PanicOnlyOnOverflow'
  BY <1>1, <1>2 DEF RoundsLeft, PanicOnlyOnOverflow, Idle
<1> QED BY <1>3, <1>4

LEMMA PendingTimerHandler ==
    ASSUME IInv, TimerHandler
    PROVE  PendingAgrees' /\ RoundsLeft' /\ MidsIssued' /\ PanicOnlyOnOverflow'
<1>1. /\ Idle /\ loop' = "timer"
      /\ todo' = {unacknowledgeMessages[m].key : m \in DOMAIN unacknowledgeMessages}
      /\ UNCHANGED <<tables, currentMessageId, panicked>>
  BY DEF TimerHandler
<1>2. PendingAgrees' /\ MidsIssued'
  BY <1>1 DEF IInv, PendingAgrees, MidsIssued, tables
<1>3. RoundsLeft'
  BY <1>1 DEF IInv, PendingAgrees, RoundsLeft, tables
<1> QED BY <1>1, <1>2, <1>3 DEF PanicOnlyOnOverflow, Idle

\* The id generated next is new, for ids are issued in increasing order.
LEMMA NextMidFresh ==
    ASSUME IInv, OverflowChecks, ~MidOverflows
    PROVE  /\ NextMid = currentMessageId + 1
           /\ NextMid \in Mid
           /\ NextMid \notin DOMAIN unacknowledgeMessages
<1>1. currentMessageId \in Mid /\ DOMAIN unacknowledgeMessages \subseteq Mid
  BY DEF IInv, TypeOK
<1>2. NextMid = currentMessageId + 1 /\ NextMid \in Mid
  BY <1>1, ObserverAssumption DEF NextMid, MidOverflows, Mid
<1>3. ASSUME NEW m \in DOMAIN unacknowledgeMessages PROVE m # currentMessageId + 1
  BY <1>1, ObserverAssumption DEF IInv, MidsIssued, Mid
<1> QED BY <1>2, <1>3

LEMMA PendingNotifyChanged ==
    ASSUME IInv, OverflowChecks, NEW k \in Key, NotifyChanged(k)
    PROVE  PendingAgrees' /\ RoundsLeft' /\ MidsIssued' /\ PanicOnlyOnOverflow'
<1>1. /\ loop = "changed" /\ ~panicked /\ k \in todo
      /\ todo \subseteq DOMAIN registerResources
      /\ ~NotifyBroken(k)
  BY IndexesNotBroken DEF NotifyChanged, IInv, RoundsLeft
<1>2. CASE MidOverflows
  <2>1. Panic
    BY <1>2 DEF NotifyChanged
  <2>2. PendingAgrees' /\ RoundsLeft' /\ MidsIssued'
    BY <2>1 DEF Panic, IInv, PendingAgrees, RoundsLeft, MidsIssued
  <2> QED BY <1>1, <1>2, <2>1, <2>2 DEF Panic, PanicOnlyOnOverflow, MidOverflows
<1>3. CASE ~MidOverflows
  <2> DEFINE r == [registerResources[k] EXCEPT !.unacknowledged = NextMid]
             item == [key |-> k, tries |-> 1]
             rest == WithoutPendingOf(k)
  <2>1. /\ registerResources' = [registerResources EXCEPT ![k] = r]
        /\ unacknowledgeMessages' = Bind(rest, NextMid, item)
        /\ currentMessageId' = NextMid
        /\ EndRound(k)
        /\ panicked' = panicked
    BY <1>1, <1>3 DEF NotifyChanged
  <2>2. /\ NextMid = currentMessageId + 1
        /\ NextMid \in Mid
        /\ NextMid \notin DOMAIN unacknowledgeMessages
    BY <1>3, NextMidFresh
  <2>3. r.unacknowledged = NextMid /\ item.key = k
    BY <1>1 DEF IInv, TypeOK, RegisterResourceItem
  <2>4. /\ DOMAIN rest = {m \in DOMAIN unacknowledgeMessages :
                             unacknowledgeMessages[m].key # k}
        /\ \A m \in DOMAIN rest : rest[m] = unacknowledgeMessages[m]
    BY WithoutPendingOfExact DEF IInv
  <2> HIDE DEF r, item, rest
  <2>5. /\ DOMAIN unacknowledgeMessages' = DOMAIN rest \cup {NextMid}
        /\ unacknowledgeMessages'[NextMid] = item
        /\ \A m \in DOMAIN rest : unacknowledgeMessages'[m] = unacknowledgeMessages[m]
    BY <2>1, <2>2, <2>4 DEF Bind
  <2>6. /\ DOMAIN registerResources' = DOMAIN registerResources
        /\ registerResources'[k] = r
        /\ \A j \in DOMAIN registerResources \ {k} :
              registerResources'[j] = registerResources[j]
    BY <1>1, <2>1 DEF IInv, TypeOK
  <2>7. PendingAgrees'
    <3>1. ASSUME NEW j \in DOMAIN registerResources',
                 registerResources'[j].unacknowledged # None
          PROVE  LET m == registerResources'[j].unacknowledged IN
                 m \in DOMAIN unacknowledgeMessages' /\ unacknowledgeMessages'[m].key = j
      <4>1. CASE j = k
        BY <2>3, <2>5, <2>6, <4>1
      <4>2. CASE j # k
        BY <2>4, <2>5, <2>6, <3>1, <4>2 DEF IInv, PendingAgrees
      <4> QED BY <4>1, <4>2
    <3>2. ASSUME NEW m \in DOMAIN unacknowledgeMessages'
          PROVE  LET j == unacknowledgeMessages'[m].key IN
                 j \in DOMAIN registerResources' /\ registerResources'[j].unacknowledged = m
      <4>1. CASE m = NextMid
        BY <1>1, <2>3, <2>5, <2>6, <4>1
      <4>2. CASE m # NextMid
        BY <2>4, <2>5, <2>6, <4>2 DEF IInv, PendingAgrees
      <4> QED BY <4>1, <4>2
    <3> QED BY <3>1, <3>2 DEF PendingAgrees
  <2>8. RoundsLeft'
    BY <1>1, <2>1, <2>6 DEF EndRound, RoundsLeft
  <2>9. MidsIssued'
    <3>1. currentMessageId \in Int /\ DOMAIN unacknowledgeMessages \subseteq Int
      BY ObserverAssumption DEF IInv, TypeOK, Mid
    <3> QED BY <2>1, <2>2, <2>4, <2>5, <3>1 DEF IInv, MidsIssued
  <2> QED BY <1>1, <2>1, <2>7, <2>8, <2>9 DEF PanicOnlyOnOverflow
<1> QED BY <1>2, <1>3

LEMMA PendingRetryUnacknowledged ==
    ASSUME IInv, NEW k \in Key, RetryUnacknowledged(k)
    PROVE  PendingAgrees' /\ RoundsLeft' /\ MidsIssued' /\ PanicOnlyOnOverflow'
<1> DEFINE m == registerResources[k].unacknowledged
<1>1. /\ loop = "timer" /\ ~panicked /\ k \in todo
      /\ k \in DOMAIN registerResources
      /\ m \in DOMAIN unacknowledgeMessages
      /\ ~NotifyBroken(k)
  BY IndexesNotBroken DEF RetryUnacknowledged, IInv, RoundsLeft
<1>2. EndRound(k) /\ UNCHANGED <<currentMessageId, panicked>>
  BY <1>1 DEF RetryUnacknowledged
<1>3. unacknowledgeMessages[m].key = k
  <2>1. m # None
    BY <1>1, ObserverAssumption DEF IInv, TypeOK, Mid
  <2> QED BY <1>1, <2>1 DEF IInv, PendingAgrees
<1>4. CASE TriesExceeded(m)
  <2>1. /\ registerResources' = [registerResources EXCEPT ![k].unacknowledged = None]
        /\ unacknowledgeMessages' = WithoutPendingOf(k)
    BY <1>1, <1>4 DEF RetryUnacknowledged, WithoutPendingOf
  <2>2. /\ registerResources'[k].unacknowledged = None
        /\ DOMAIN registerResources' = DOMAIN registerResources
        /\ \A j \in DOMAIN registerResources \ {k} :
              registerResources'[j] = registerResources[j]
    BY <1>1, <2>1 DEF IInv, TypeOK, RegisterResourceItem
  <2>3. PendingAgrees'
    BY <2>1, <2>2, DropPending DEF IInv
  <2>4. /\ DOMAIN unacknowledgeMessages' =
             {n \in DOMAIN unacknowledgeMessages : unacknowledgeMessages[n].key # k}
        /\ \A n \in DOMAIN unacknowledgeMessages' :
              unacknowledgeMessages'[n] = unacknowledgeMessages[n]
    BY <2>1, WithoutPendingOfExact DEF IInv
  <2>5. RoundsLeft'
    <3>1. ASSUME NEW j \in todo'
          PROVE  /\ j \in DOMAIN registerResources'
                 /\ registerResources'[j].unacknowledged \in DOMAIN unacknowledgeMessages'
      <4>1. j \in todo /\ j # k
        BY <1>2 DEF EndRound
      <4>2. /\ j \in DOMAIN registerResources
            /\ registerResources[j].unacknowledged \in DOMAIN unacknowledgeMessages
        BY <1>1, <4>1 DEF IInv, RoundsLeft
      <4>3. registerResources[j].unacknowledged # None
        BY <4>2, ObserverAssumption DEF IInv, TypeOK, Mid
      <4>4. unacknowledgeMessages[registerResources[j].unacknowledged].key = j
        BY <4>2, <4>3 DEF IInv, PendingAgrees
      <4> QED BY <2>2, <2>4, <4>1, <4>2, <4>4
    <3>2. loop' # "changed"
      BY <1>1, <1>2 DEF EndRound
    <3> QED BY <3>1, <3>2 DEF RoundsLeft
  <2>6. MidsIssued'
    BY <1>2, <2>4 DEF IInv, MidsIssued
  <2> QED BY <1>1, <1>2, <2>3, <2>5, <2>6 DEF PanicOnlyOnOverflow
<1>5. CASE ~TriesExceeded(m)
  <2>1. /\ registerResources' = registerResources
        /\ unacknowledgeMessages' = CountTry(m)
    BY <1>1, <1>5 DEF RetryUnacknowledged
  <2>2. /\ DOMAIN unacknowledgeMessages' = DOMAIN unacknowledgeMessages
        /\ \A n \in DOMAIN unacknowledgeMessages :
              unacknowledgeMessages'[n].key = unacknowledgeMessages[n].key
    BY <1>1, <2>1 DEF CountTry, IInv, TypeOK, UnacknowledgeMessageItem
  <2>3. PendingAgrees' /\ MidsIssued'
    BY <1>2, <2>1, <2>2 DEF IInv, PendingAgrees, MidsIssued
  <2>4. RoundsLeft'
    BY <1>1, <1>2, <2>1, <2>2 DEF EndRound, IInv, RoundsLeft
  <2> QED BY <1>1, <1>2, <2>3, <2>4 DEF PanicOnlyOnOverflow
<1> QED BY <1>4, <1>5

LEMMA NextIInv ==
    ASSUME OverflowChecks
    PROVE  IInv /\ [Next]_vars => IInv'
<1> SUFFICES ASSUME IInv, [Next]_vars PROVE IInv'
  OBVIOUS
<1>1. TypeOK' /\ IndexesAgree'
  BY NextType, NextIndexes DEF IInv
<1>2. PendingAgrees' /\ RoundsLeft' /\ MidsIssued' /\ PanicOnlyOnOverflow'
  <2>1. CASE Request
    BY <2>1, PendingRegister, PendingDeregister, PendingReset, PendingAcknowledge,
       PendingResourceChanged DEF Request
  <2>2. CASE Rounds
    BY <2>2, PendingNotifyChanged, PendingRetryUnacknowledged DEF Rounds
  <2>3. CASE TimerHandler
    BY <2>3, PendingTimerHandler
  <2>4. CASE UNCHANGED vars
    BY <2>4 DEF IInv, vars, PendingAgrees, RoundsLeft, MidsIssued,
                PanicOnlyOnOverflow, MidOverflows
  <2> QED BY <2>1, <2>2, <2>3, <2>4 DEF Next
<1> QED BY <1>1, <1>2 DEF IInv

\* With overflow checks every entry of the table of unacknowledged messages
\* belongs to the registration that waits for it, and the only panic of the
\* registry is the one of gen_message_id when the ids are used up.
THEOREM PendingCorrect ==
    ASSUME OverflowChecks
    PROVE  Spec => []PendingAgrees /\ []PanicOnlyOnOverflow
<1>1. Init => IInv
  <2>1. Init => IndexesAgree /\ PendingAgrees /\ RoundsLeft /\ MidsIssued
    BY DEF Init, NoFunction, IndexesAgree, PendingAgrees, RoundsLeft, MidsIssued
  <2>2. Init => PanicOnlyOnOverflow
    BY DEF Init, PanicOnlyOnOverflow
  <2> QED BY <2>1, <2>2, InitType DEF IInv
<1>2. IInv => PendingAgrees /\ PanicOnlyOnOverflow
  BY DEF IInv
<1>3. IInv /\ [Next]_vars => IInv'
  BY NextIInv
<1> QED BY <1>1, <1>2, <1>3, PTL DEF Spec

\* What stops the registry is the overflow of the message id, and nothing else.
COROLLARY PanicCorrect ==
    ASSUME OverflowChecks
    PROVE  Spec => []PanicOnlyOnOverflow
BY PendingCorrect, PTL

-----------------------------------------------------------------------------
(***************************************************************************)
(* Every observer has been sent the newest state it can be sent, with or   *)
(* without overflow checks: while the loop of a change runs, the rounds    *)
(* that are left are those of the registrations that have not.             *)
(***************************************************************************)
Current(k) ==
    Encodable(MessageFor("notification", None, registerResources[k], resources[k[2]])) =>
      /\ k \in DOMAIN lastSent
      /\ lastSent[k] = MessageFor(lastSent[k].kind, lastSent[k].mid,
                                  registerResources[k], resources[k[2]])

NewestInv ==
    /\ loop = "idle" => todo = {}
    /\ ~panicked => \A k \in DOMAIN registerResources :
                       Current(k) \/ (loop = "changed" /\ k \in todo)

\* A message depends on token and block size, payload and sequence number.
LEMMA SameMessage ==
    ASSUME NEW kind, NEW mid, NEW q, NEW r, NEW s, NEW u,
           q.token = r.token, q.block = r.block,
           s.payload = u.payload, s.sequence = u.sequence
    PROVE  MessageFor(kind, mid, q, s) = MessageFor(kind, mid, r, u)
BY DEF MessageFor

\* Whether a message can be encoded does not depend on its kind and id.
LEMMA SameEncoding ==
    ASSUME NEW kind, NEW mid, NEW r, NEW s
    PROVE  Encodable(MessageFor(kind, mid, r, s)) <=>
             Encodable(MessageFor("notification", None, r, s))
BY DEF Encodable, MessageFor

LEMMA CurrentStays ==
    ASSUME NEW k, Current(k),
           k \in DOMAIN lastSent =>
             k \in DOMAIN lastSent' /\ lastSent'[k] = lastSent[k],
           registerResources'[k].token = registerResources[k].token,
           registerResources'[k].block = registerResources[k].block,
           resources'[k[2]].payload = resources[k[2]].payload,
           resources'[k[2]].sequence = resources[k[2]].sequence
    PROVE  Current(k)'
BY SameMessage DEF Current

LEMMA CurrentAfresh ==
    ASSUME NEW k, NEW kind, NEW mid, NEW r, NEW s,
           HandOver(k, MessageFor(kind, mid, r, s)),
           registerResources'[k].token = r.token,
           registerResources'[k].block = r.block,
           resources'[k[2]].payload = s.payload,
           resources'[k[2]].sequence = s.sequence
    PROVE  Current(k)'
<1>1. /\ MessageFor(kind, mid, r, s) =
           MessageFor(kind, mid, registerResources'[k], resources'[k[2]])
      /\ MessageFor("notification", None, r, s) =
           MessageFor("notification", None, registerResources'[k], resources'[k[2]])
  BY SameMessage
<1>2. CASE Encodable(MessageFor(kind, mid, r, s))
  <2>1. k \in DOMAIN lastSent' /\ lastSent'[k] = MessageFor(kind, mid, r, s)
    BY <1>2, HandOverEffect
  <2>2. lastSent'[k].kind = kind /\ lastSent'[k].mid = mid
    BY <2>1 DEF MessageFor
  <2> QED
    BY <1>1, <2>1, <2>2 DEF Current
<1>3. CASE ~Encodable(MessageFor(kind, mid, r, s))
  <2>1. ~Encodable(MessageFor("notification", None, registerResources'[k], resources'[k[2]]))
    BY <1>1, <1>3, SameEncoding
  <2> QED
    BY <2>1 DEF Current, Encodable
<1> QED
  BY <1>2, <1>3

LEMMA NewestPanic ==
    ASSUME NewestInv, Panic
    PROVE  NewestInv'
BY DEF NewestInv, Panic

LEMMA NewestRegister ==
    ASSUME TypeOK, IndexesAgree, NewestInv, NEW a \in Addr, NEW p \in Path,
           NEW t \in Token, NEW b \in BlockSize \cup {None}, Register(a, p, t, b)
    PROVE  NewestInv'
<1> DEFINE k == <<a, p>>
           r == [token |-> t, unacknowledged |-> None, block |-> b]
           sent == MessageFor("registered", None, r, resources[p])
<1>1. /\ Idle /\ p \in DOMAIN resources
      /\ registerResources' = Bind(registerResources, k, r)
      /\ HandOver(k, sent)
      /\ resources' = [resources EXCEPT ![p].registered = @ \cup {k}]
      /\ UNCHANGED <<loop, todo, panicked>>
  BY DEF Register, RecordRegisterResource
<1>2. \A q \in DOMAIN resources :
         /\ resources'[q].payload = resources[q].payload
         /\ resources'[q].sequence = resources[q].sequence
  BY <1>1 DEF TypeOK, ResourceItem
<1>3. k[2] = p
  OBVIOUS
<1> HIDE DEF k, r, sent
<1>4. DOMAIN registerResources' = DOMAIN registerResources \cup {k}
      /\ registerResources'[k] = r
      /\ \A j \in DOMAIN registerResources \ {k} :
            registerResources'[j] = registerResources[j]
      /\ \A i \in DOMAIN lastSent \ {k} :
            i \in DOMAIN lastSent' /\ lastSent'[i] = lastSent[i]
  BY <1>1, HandOverEffect DEF Bind
<1>5. Current(k)'
  BY <1>1, <1>2, <1>3, <1>4, CurrentAfresh DEF sent
<1>6. ASSUME NEW j \in DOMAIN registerResources, j # k PROVE Current(j)'
  <2>1. Current(j)
    BY <1>1, <1>6 DEF NewestInv, Idle
  <2>2. j[2] \in DOMAIN resources
    BY DEF IndexesAgree
  <2> QED
    BY <1>2, <1>4, <1>6, <2>1, <2>2, CurrentStays
<1> QED
  BY <1>1, <1>4, <1>5, <1>6 DEF NewestInv

\* A registration is removed; the others, and what they were sent, stay.
LEMMA NewestRemove ==
    ASSUME TypeOK, IndexesAgree, NewestInv, Idle, NEW k \in Key, RemoveFromIndexes(k)
    PROVE  NewestInv'
<1>1. /\ resources' = [resources EXCEPT ![k[2]].registered = @ \ {k}]
      /\ DOMAIN registerResources' = DOMAIN registerResources \ {k}
      /\ \A j \in DOMAIN registerResources' : registerResources'[j] = registerResources[j]
      /\ UNCHANGED <<loop, todo, panicked, lastSent>>
  BY DEF RemoveFromIndexes, Unbind, Restrict
<1>2. \A q \in DOMAIN resources :
         /\ resources'[q].payload = resources[q].payload
         /\ resources'[q].sequence = resources[q].sequence
  BY <1>1 DEF TypeOK, ResourceItem
<1>3. ASSUME NEW j \in DOMAIN registerResources' PROVE Current(j)'
  <2>1. Current(j) /\ j[2] \in DOMAIN resources
    BY <1>1 DEF NewestInv, Idle, IndexesAgree
  <2> QED
    BY <1>1, <1>2, <2>1, CurrentStays
<1> QED
  BY <1>1, <1>3 DEF NewestInv

LEMMA NewestDeregister ==
    ASSUME TypeOK, IndexesAgree, NewestInv, NEW a \in Addr, NEW p \in Path,
           NEW t \in Token, Deregister(a, p, t)
    PROVE  NewestInv'
<1> DEFINE k == <<a, p>>
<1>1. Idle /\ k \in Key
  BY DEF Deregister, Key
<1>2. Panic \/ RemoveFromIndexes(k)
  BY DEF Deregister
<1> QED
  BY <1>1, <1>2, NewestPanic, NewestRemove

LEMMA NewestReset ==
    ASSUME TypeOK, IndexesAgree, NewestInv, NEW a \in Addr, NEW m \in Mid,
           ResetNotification(a, m)
    PROVE  NewestInv'
<1> DEFINE k == unacknowledgeMessages[m].key
<1>1. Idle /\ k \in Key
  BY DEF ResetNotification, TypeOK
<1>2. Panic \/ RemoveFromIndexes(k)
  BY DEF ResetNotification
<1> QED
  BY <1>1, <1>2, NewestPanic, NewestRemove

\* Registration k waits for another message id, or for none any more.
LEMMA NewestUnacknowledged ==
    ASSUME TypeOK, NewestInv, loop # "changed", ~panicked, panicked' = panicked,
           loop' # "changed", loop' = "idle" => todo' = {},
           NEW k \in DOMAIN registerResources, NEW m,
           registerResources' = [registerResources EXCEPT ![k].unacknowledged = m],
           UNCHANGED <<resources, lastSent>>
    PROVE  NewestInv'
<1>1. /\ DOMAIN registerResources' = DOMAIN registerResources
      /\ \A j \in DOMAIN registerResources :
            /\ registerResources'[j].token = registerResources[j].token
            /\ registerResources'[j].block = registerResources[j].block
  BY DEF TypeOK, RegisterResourceItem
<1>2. ASSUME NEW j \in DOMAIN registerResources PROVE Current(j)'
  BY <1>1, CurrentStays DEF NewestInv
<1> QED
  BY <1>1, <1>2 DEF NewestInv

LEMMA NewestAcknowledge ==
    ASSUME TypeOK, NewestInv, NEW m \in Mid, NEW t \in Token, Acknowledge(m, t)
    PROVE  NewestInv'
<1> DEFINE k == unacknowledgeMessages[m].key
<1>1. CASE k \notin DOMAIN registerResources
  BY <1>1, NewestPanic DEF Acknowledge
<1>2. CASE k \in DOMAIN registerResources
  <2>1. /\ Idle
        /\ registerResources' = [registerResources EXCEPT ![k].unacknowledged = None]
        /\ UNCHANGED <<resources, lastSent, loop, todo, panicked>>
    BY <1>2 DEF Acknowledge
  <2> HIDE DEF k
  <2>2. loop' = "idle" => todo' = {}
    BY <2>1 DEF NewestInv
  <2> QED
    BY <1>2, <2>1, <2>2, NewestUnacknowledged DEF Idle
<1> QED
  BY <1>1, <1>2

LEMMA NewestResourceChanged ==
    ASSUME TypeOK, IndexesAgree, NewestInv, NEW p \in Path, NEW n \in PayloadLen,
           ResourceChanged(p, n)
    PROVE  NewestInv'
<1>1. /\ Idle
      /\ loop' = (IF todo' = {} THEN "idle" ELSE "changed")
      /\ UNCHANGED <<registerResources, panicked, lastSent>>
      /\ \A q \in DOMAIN resources \ {p} : resources'[q] = resources[q]
  BY DEF ResourceChanged, Bind
<1>2. ASSUME NEW j \in DOMAIN registerResources
      PROVE  Current(j)' \/ j \in todo'
  <2>1. Current(j) /\ j[2] \in DOMAIN resources
    BY <1>1 DEF NewestInv, Idle, IndexesAgree
  <2>2. CASE j[2] = p
    <3>1. todo' = resources[p].registered
      BY <2>1, <2>2 DEF ResourceChanged, TypeOK, ResourceItem
    <3> QED
      BY <2>1, <2>2, <3>1 DEF IndexesAgree
  <2>3. CASE j[2] # p
    BY <1>1, <2>1, <2>3, CurrentStays
  <2> QED
    BY <2>2, <2>3
<1> QED
  BY <1>1, <1>2 DEF NewestInv

\* What a round leaves: the other registrations, and the rounds of the others.
LEMMA NewestRound ==
    ASSUME TypeOK, NewestInv, ~panicked, panicked' = panicked,
           NEW k \in DOMAIN registerResources, EndRound(k), Current(k)',
           DOMAIN registerResources' = DOMAIN registerResources,
           UNCHANGED resources,
           \A j \in DOMAIN registerResources \ {k} :
              registerResources'[j] = registerResources[j],
           \A i \in DOMAIN lastSent \ {k} :
              i \in DOMAIN lastSent' /\ lastSent'[i] = lastSent[i]
    PROVE  NewestInv'
<1>1. ASSUME NEW j \in DOMAIN registerResources, j # k
      PROVE  Current(j)' \/ (loop' = "changed" /\ j \in todo')
  <2>1. CASE Current(j)
    BY <1>1, <2>1, CurrentStays
  <2>2. CASE loop = "changed" /\ j \in todo
    BY <1>1, <2>2 DEF EndRound
  <2> QED
    BY <2>1, <2>2 DEF NewestInv
<1>2. loop' = "idle" => todo' = {}
  BY DEF EndRound, NewestInv
<1> QED
  BY <1>1, <1>2 DEF NewestInv

LEMMA NewestNotifyChanged ==
    ASSUME TypeOK, NewestInv, NEW k \in Key, NotifyChanged(k)
    PROVE  NewestInv'
<1>1. CASE MidOverflows \/ NotifyBroken(k)
  BY <1>1, NewestPanic DEF NotifyChanged
<1>2. CASE ~(MidOverflows \/ NotifyBroken(k))
  <2> DEFINE r == [registerResources[k] EXCEPT !.unacknowledged = NextMid]
             sent == MessageFor("notification", NextMid, r, resources[k[2]])
  <2>1. /\ ~panicked /\ k \in DOMAIN registerResources
        /\ registerResources' = [registerResources EXCEPT ![k] = r]
        /\ HandOver(k, sent)
        /\ EndRound(k)
        /\ UNCHANGED <<resources, panicked>>
    BY <1>2 DEF NotifyChanged, NotifyBroken
  <2> HIDE DEF r, sent
  <2>2. /\ DOMAIN registerResources' = DOMAIN registerResources
        /\ registerResources'[k] = r
        /\ \A j \in DOMAIN registerResources \ {k} :
              registerResources'[j] = registerResources[j]
    BY <2>1 DEF TypeOK
  <2>3. \A i \in DOMAIN lastSent \ {k} :
           i \in DOMAIN lastSent' /\ lastSent'[i] = lastSent[i]
    BY <2>1, HandOverEffect
  <2>4. Current(k)'
    BY <2>1, <2>2, CurrentAfresh DEF sent
  <2> QED
    BY <2>1, <2>2, <2>3, <2>4, NewestRound
<1> QED
  BY <1>1, <1>2

LEMMA NewestRetryUnacknowledged ==
    ASSUME TypeOK, NewestInv, NEW k \in Key, RetryUnacknowledged(k)
    PROVE  NewestInv'
<1> DEFINE m == registerResources[k].unacknowledged
           sent == MessageFor("notification", currentMessageId,
                              registerResources[k], resources[k[2]])
<1>1. CASE NotifyBroken(k) \/ m \notin DOMAIN unacknowledgeMessages
  BY <1>1, NewestPanic DEF RetryUnacknowledged
<1>2. CASE ~(NotifyBroken(k) \/ m \notin DOMAIN unacknowledgeMessages)
  <2>1. /\ loop = "timer" /\ ~panicked /\ k \in DOMAIN registerResources
        /\ EndRound(k)
        /\ UNCHANGED <<resources, panicked>>
    BY <1>2 DEF RetryUnacknowledged, NotifyBroken
  <2>2. \/ /\ registerResources' =
                [registerResources EXCEPT ![k].unacknowledged = None]
           /\ UNCHANGED lastSent
        \/ HandOver(k, sent) /\ UNCHANGED registerResources
    BY <1>2 DEF RetryUnacknowledged
  <2> HIDE DEF sent
  <2>3. CASE /\ registerResources' =
                  [registerResources EXCEPT ![k].unacknowledged = None]
             /\ UNCHANGED lastSent
    <3>1. loop' # "changed" /\ (loop' = "idle" => todo' = {})
      BY <2>1 DEF EndRound
    <3> QED
      BY <2>1, <2>3, <3>1, NewestUnacknowledged
  <2>4. CASE HandOver(k, sent) /\ UNCHANGED registerResources
    <3>1. \A i \in DOMAIN lastSent \ {k} :
             i \in DOMAIN lastSent' /\ lastSent'[i] = lastSent[i]
      BY <2>4, HandOverEffect
    <3>2. Current(k)'
      BY <2>1, <2>4, CurrentAfresh DEF sent
    <3> QED
      BY <2>1, <2>4, <3>1, <3>2, NewestRound
  <2> QED
    BY <2>2, <2>3, <2>4
<1> QED
  BY <1>1, <1>2

LEMMA NewestTimerHandler ==
    ASSUME NewestInv, TimerHandler
    PROVE  NewestInv'
<1>1. /\ Idle /\ loop' = "timer"
      /\ UNCHANGED <<registerResources, resources, panicked, lastSent>>
  BY DEF TimerHandler, tables
<1>2. ASSUME NEW j \in DOMAIN registerResources PROVE Current(j)'
  BY <1>1 DEF NewestInv, Idle, Current
<1> QED
  BY <1>1, <1>2 DEF NewestInv

LEMMA NextNewest ==
    ASSUME TypeOK, IndexesAgree, NewestInv, [Next]_vars
    PROVE  NewestInv'
<1>1. CASE Request
  BY <1>1, NewestRegister, NewestDeregister, NewestReset, NewestAcknowledge,
     NewestResourceChanged DEF Request
<1>2. CASE Rounds
  BY <1>2, NewestNotifyChanged, NewestRetryUnacknowledged DEF Rounds
<1>3. CASE TimerHandler
  BY <1>3, NewestTimerHandler
<1>4. CASE UNCHANGED vars
  BY <1>4 DEF vars, NewestInv, Current
<1> QED
  BY <1>1, <1>2, <1>3, <1>4 DEF Next

LEMMA InitNewest == Init => NewestInv
BY DEF Init, NewestInv, NoFunction

\* Between two requests every observer has been sent the newest state of its
\* resource under the token and block size it registered last, unless that state
\* is more than one message holds, in both builds (observer.rs:245, 316-334, 570).
THEOREM NewestStateSentCorrect == Spec => []NewestStateSent
<1>1. TypeOK /\ IndexesAgree /\ NewestInv /\ [Next]_vars => NewestInv'
  BY NextNewest
<1>2. NewestInv => NewestStateSent
  <2> SUFFICES ASSUME NewestInv, Idle, NEW k \in DOMAIN registerResources,
                      Encodable(MessageFor("notification", None, registerResources[k],
                                           resources[k[2]]))
               PROVE  /\ k \in DOMAIN lastSent
                      /\ lastSent[k] = MessageFor(lastSent[k].kind, lastSent[k].mid,
                                                  registerResources[k], resources[k[2]])
    BY DEF NewestStateSent
  <2> QED
    BY DEF NewestInv, Idle, Current
<1> QED
  BY <1>1, <1>2, InitNewest, TypeCorrect, IndexesCorrect, PTL DEF Spec

-----------------------------------------------------------------------------
(***************************************************************************)
(* Notifications are ordered while message ids do not wrap: what has been  *)
(* sent is never ahead of its resource, also to a registration that is     *)
(* gone, and never under an id that is not issued yet.                     *)
(***************************************************************************)
SentInv ==
    \A k \in DOMAIN lastSent :
       /\ k[2] \in DOMAIN resources
       /\ lastSent[k].sequence <= resources[k[2]].sequence
       /\ lastSent[k].kind = "notification" =>
            lastSent[k].mid \in Mid /\ lastSent[k].mid <= currentMessageId

\* One step of one registration's messages, in the words of NotificationsOrdered.
InOrder(old, new) ==
    /\ new.sequence >= old.sequence
    /\ (/\ old.kind = "notification" /\ new.kind = "notification"
        /\ new.sequence > old.sequence)
         => new.mid > old.mid

\* What SentInv and the order of the messages need of a step: sequence numbers
\* and the last message id never go back, and whatever is sent is the newest
\* state, under a new id unless the last message was about it already.
Onward ==
    /\ currentMessageId' >= currentMessageId
    /\ \A p \in DOMAIN resources :
          p \in DOMAIN resources' /\ resources'[p].sequence >= resources[p].sequence
    /\ DOMAIN lastSent \subseteq DOMAIN lastSent'
    /\ \A k \in DOMAIN lastSent' :
          \/ k \in DOMAIN lastSent /\ lastSent'[k] = lastSent[k]
          \/ /\ k[2] \in DOMAIN resources
             /\ lastSent'[k].sequence = resources[k[2]].sequence
             /\ \/ lastSent'[k].kind = "registered"
                \/ /\ lastSent'[k].kind = "notification"
                   /\ lastSent'[k].mid = currentMessageId'
                   /\ \/ currentMessageId' > currentMessageId
                      \/ /\ k \in DOMAIN lastSent
                         /\ lastSent[k].sequence = resources[k[2]].sequence

LEMMA OnwardOrders ==
    ASSUME TypeOK, TypeOK', SentInv, Onward
    PROVE  SentInv' /\ \A k \in DOMAIN lastSent : InOrder(lastSent[k], lastSent'[k])
<1>1. currentMessageId \in Nat /\ currentMessageId' \in Nat
  BY ObserverAssumption DEF TypeOK, Mid
<1>2. /\ \A p \in DOMAIN resources : resources[p].sequence \in Nat
      /\ \A p \in DOMAIN resources' : resources'[p].sequence \in Nat
      /\ \A k \in DOMAIN lastSent : lastSent[k].sequence \in Nat
      /\ \A k \in DOMAIN lastSent' : lastSent'[k].sequence \in Nat
  BY ObserverAssumption DEF TypeOK, ResourceItem, Message
<1>3. Mid \subseteq Nat /\ currentMessageId' \in Mid
  BY ObserverAssumption DEF TypeOK, Mid
<1>4. ASSUME NEW k \in DOMAIN lastSent'
      PROVE  /\ k[2] \in DOMAIN resources'
             /\ lastSent'[k].sequence <= resources'[k[2]].sequence
             /\ lastSent'[k].kind = "notification" =>
                  lastSent'[k].mid \in Mid /\ lastSent'[k].mid <= currentMessageId'
  <2>1. CASE k \in DOMAIN lastSent /\ lastSent'[k] = lastSent[k]
    <3>1. /\ k[2] \in DOMAIN resources /\ lastSent[k].sequence <= resources[k[2]].sequence
          /\ lastSent[k].kind = "notification" =>
               lastSent[k].mid \in Mid /\ lastSent[k].mid <= currentMessageId
      BY <2>1 DEF SentInv
    <3>2. k[2] \in DOMAIN resources' /\ resources'[k[2]].sequence >= resources[k[2]].sequence
      BY <3>1 DEF Onward
    <3>3. currentMessageId' >= currentMessageId
      BY DEF Onward
    <3>4. lastSent[k].sequence \in Nat /\ resources[k[2]].sequence \in Nat
          /\ resources'[k[2]].sequence \in Nat
      BY <1>2, <2>1, <3>1, <3>2
    <3>5. lastSent'[k].sequence <= resources'[k[2]].sequence
      BY <2>1, <3>1, <3>2, <3>4
    <3>6. lastSent'[k].kind = "notification" =>
             lastSent'[k].mid \in Mid /\ lastSent'[k].mid <= currentMessageId'
      <4>1. \A m \in Mid : m <= currentMessageId => m <= currentMessageId'
        BY <1>1, <1>3, <3>3
      <4> QED
        BY <2>1, <3>1, <4>1, Zenon
    <3> QED
      BY <3>2, <3>5, <3>6
  <2>2. CASE ~(k \in DOMAIN lastSent /\ lastSent'[k] = lastSent[k])
    BY <1>1, <1>2, <1>3, <2>2 DEF Onward
  <2> QED
    BY <2>1, <2>2
<1>5. ASSUME NEW k \in DOMAIN lastSent
      PROVE  InOrder(lastSent[k], lastSent'[k])
  <2>1. CASE lastSent'[k] = lastSent[k]
    BY <1>2, <2>1 DEF InOrder
  <2>2. CASE lastSent'[k] # lastSent[k]
    <3>1. /\ lastSent[k].sequence <= resources[k[2]].sequence
          /\ lastSent[k].kind = "notification" =>
               lastSent[k].mid \in Mid /\ lastSent[k].mid <= currentMessageId
      BY DEF SentInv
    <3>2. k \in DOMAIN lastSent'
      BY DEF Onward
    <3>3. /\ lastSent'[k].sequence = resources[k[2]].sequence
          /\ \/ lastSent'[k].kind = "registered"
             \/ /\ lastSent'[k].kind = "notification"
                /\ lastSent'[k].mid = currentMessageId'
                /\ \/ currentMessageId' > currentMessageId
                   \/ lastSent[k].sequence = resources[k[2]].sequence
      BY <2>2, <3>2 DEF Onward
    <3>4. lastSent[k].sequence \in Nat /\ lastSent'[k].sequence \in Nat
      BY <1>2, <3>2
    <3>5. lastSent'[k].sequence >= lastSent[k].sequence
      BY <3>1, <3>3, <3>4
    <3>6. ASSUME lastSent[k].kind = "notification", lastSent'[k].kind = "notification",
                 lastSent'[k].sequence > lastSent[k].sequence
          PROVE  lastSent'[k].mid > lastSent[k].mid
      <4>1. lastSent[k].mid \in Nat /\ lastSent[k].mid <= currentMessageId
        BY <1>3, <3>1, <3>6
      <4>2. lastSent'[k].mid = currentMessageId' /\ currentMessageId' > currentMessageId
        BY <3>3, <3>4, <3>6
      <4> QED
        BY <1>1, <4>1, <4>2
    <3> QED
      BY <3>5, <3>6 DEF InOrder
  <2> QED
    BY <2>1, <2>2
<1> QED
  BY <1>4, <1>5 DEF SentInv

\* A step that sends nothing and leaves the sequence numbers alone.
LEMMA OnwardQuiet ==
    ASSUME TypeOK, UNCHANGED <<currentMessageId, lastSent>>,
           DOMAIN resources \subseteq DOMAIN resources',
           \A p \in DOMAIN resources : resources'[p].sequence = resources[p].sequence
    PROVE  Onward
BY ObserverAssumption DEF Onward, TypeOK, Mid, ResourceItem

LEMMA OnwardRegister ==
    ASSUME TypeOK, NEW a \in Addr, NEW p \in Path, NEW t \in Token,
           NEW b \in BlockSize \cup {None}, Register(a, p, t, b)
    PROVE  Onward
<1> DEFINE k == <<a, p>>
           r == [token |-> t, unacknowledged |-> None, block |-> b]
           sent == MessageFor("registered", None, r, resources[p])
<1>1. /\ p \in DOMAIN resources
      /\ HandOver(k, sent)
      /\ resources' = [resources EXCEPT ![p].registered = @ \cup {k}]
      /\ UNCHANGED currentMessageId
  BY DEF Register, RecordRegisterResource
<1>2. sent.kind = "registered" /\ sent.sequence = resources[p].sequence
  BY DEF MessageFor
<1>3. k[2] = p
  OBVIOUS
<1> HIDE DEF k, sent
<1>4. /\ DOMAIN resources' = DOMAIN resources
      /\ \A q \in DOMAIN resources : resources'[q].sequence = resources[q].sequence
  BY <1>1 DEF TypeOK, ResourceItem
<1>5. /\ currentMessageId' >= currentMessageId
      /\ \A q \in DOMAIN resources : resources'[q].sequence >= resources[q].sequence
  BY <1>1, <1>4, ObserverAssumption DEF TypeOK, Mid, ResourceItem
<1>6. /\ DOMAIN lastSent \subseteq DOMAIN lastSent'
      /\ \A j \in DOMAIN lastSent' :
            \/ j \in DOMAIN lastSent /\ lastSent'[j] = lastSent[j]
            \/ j = k /\ lastSent'[j] = sent
  BY <1>1, HandOverEffect
<1> QED
  BY <1>1, <1>2, <1>3, <1>4, <1>5, <1>6 DEF Onward

LEMMA OnwardRemove ==
    ASSUME TypeOK, NEW k, RemoveFromIndexes(k)
    PROVE  Onward
<1>1. /\ resources' = [resources EXCEPT ![k[2]].registered = @ \ {k}]
      /\ UNCHANGED <<currentMessageId, lastSent>>
  BY DEF RemoveFromIndexes
<1>2. \A p \in DOMAIN resources : resources'[p].sequence = resources[p].sequence
  BY <1>1 DEF TypeOK, ResourceItem
<1>3. DOMAIN resources' = DOMAIN resources
  BY <1>1
<1> QED
  BY <1>1, <1>2, <1>3, OnwardQuiet

LEMMA OnwardResourceChanged ==
    ASSUME TypeOK, NEW p \in Path, NEW n \in PayloadLen, ResourceChanged(p, n)
    PROVE  Onward
<1>1. /\ UNCHANGED <<currentMessageId, lastSent>>
      /\ DOMAIN resources \subseteq DOMAIN resources'
      /\ \A q \in DOMAIN resources \ {p} : resources'[q] = resources[q]
  BY DEF ResourceChanged, Bind
<1>2. p \in DOMAIN resources => resources'[p].sequence = resources[p].sequence + 1
  BY DEF ResourceChanged, Bind, TypeOK, ResourceItem
<1>3. \A q \in DOMAIN resources : resources[q].sequence \in Nat
  BY ObserverAssumption DEF TypeOK, ResourceItem
<1>4. \A q \in DOMAIN resources : resources'[q].sequence >= resources[q].sequence
  BY <1>1, <1>2, <1>3
<1>5. currentMessageId' >= currentMessageId
  BY <1>1, ObserverAssumption DEF TypeOK, Mid
<1> QED
  BY <1>1, <1>4, <1>5 DEF Onward

LEMMA OnwardNotifyChanged ==
    ASSUME TypeOK, OverflowChecks, NEW k \in Key, NotifyChanged(k), ~Panic
    PROVE  Onward
<1> DEFINE r == [registerResources[k] EXCEPT !.unacknowledged = NextMid]
           sent == MessageFor("notification", NextMid, r, resources[k[2]])
<1>1. /\ ~MidOverflows /\ k[2] \in DOMAIN resources
      /\ currentMessageId' = NextMid
      /\ HandOver(k, sent)
      /\ UNCHANGED resources
  BY DEF NotifyChanged, NotifyBroken
<1>2. /\ sent.kind = "notification" /\ sent.mid = NextMid
      /\ sent.sequence = resources[k[2]].sequence
  BY DEF MessageFor
<1>3. currentMessageId \in Nat /\ currentMessageId' = currentMessageId + 1
  BY <1>1, ObserverAssumption DEF TypeOK, Mid, NextMid, MidOverflows
<1>4. \A q \in DOMAIN resources : resources'[q].sequence >= resources[q].sequence
  BY <1>1, ObserverAssumption DEF TypeOK, ResourceItem
<1> HIDE DEF sent
<1>5. /\ DOMAIN lastSent \subseteq DOMAIN lastSent'
      /\ \A j \in DOMAIN lastSent' :
            \/ j \in DOMAIN lastSent /\ lastSent'[j] = lastSent[j]
            \/ j = k /\ lastSent'[j] = sent
  BY <1>1, HandOverEffect
<1>6. currentMessageId' > currentMessageId /\ currentMessageId' >= currentMessageId
  BY <1>3
<1> QED
  BY <1>1, <1>2, <1>4, <1>5, <1>6 DEF Onward

\* What is sent again is sent under an id that may be the one it had: but then,
\* no change being announced, its observer has the newest state already.
LEMMA OnwardRetryUnacknowledged ==
    ASSUME TypeOK, NewestInv, NEW k \in Key, RetryUnacknowledged(k), ~Panic
    PROVE  Onward
<1> DEFINE sent == MessageFor("notification", currentMessageId,
                              registerResources[k], resources[k[2]])
<1>1. /\ loop = "timer" /\ ~panicked
      /\ k \in DOMAIN registerResources /\ k[2] \in DOMAIN resources
      /\ HandOver(k, sent) \/ UNCHANGED lastSent
      /\ UNCHANGED <<resources, currentMessageId>>
  BY DEF RetryUnacknowledged, NotifyBroken
<1>2. CASE UNCHANGED lastSent
  BY <1>1, <1>2, OnwardQuiet
<1>3. CASE Encodable(sent) /\ HandOver(k, sent)
  <2>1. /\ sent.kind = "notification" /\ sent.mid = currentMessageId
        /\ sent.sequence = resources[k[2]].sequence
    BY DEF MessageFor
  <2>2. k \in DOMAIN lastSent /\ lastSent[k].sequence = resources[k[2]].sequence
    <3>1. Current(k)
      BY <1>1 DEF NewestInv
    <3>2. Encodable(MessageFor("notification", None, registerResources[k], resources[k[2]]))
      BY <1>3, SameEncoding
    <3>3. MessageFor(lastSent[k].kind, lastSent[k].mid, registerResources[k],
                     resources[k[2]]).sequence = resources[k[2]].sequence
      BY DEF MessageFor
    <3> QED
      BY <3>1, <3>2, <3>3 DEF Current
  <2>3. /\ \A q \in DOMAIN resources : resources'[q].sequence >= resources[q].sequence
        /\ currentMessageId' >= currentMessageId
    BY <1>1, ObserverAssumption DEF TypeOK, ResourceItem, Mid
  <2> HIDE DEF sent
  <2>4. /\ DOMAIN lastSent \subseteq DOMAIN lastSent'
        /\ \A j \in DOMAIN lastSent' :
              \/ j \in DOMAIN lastSent /\ lastSent'[j] = lastSent[j]
              \/ j = k /\ lastSent'[j] = sent
    BY <1>3, HandOverEffect
  <2> QED
    BY <1>1, <2>1, <2>2, <2>3, <2>4 DEF Onward
<1> QED
  BY <1>1, <1>2, <1>3 DEF HandOver

LEMMA NextOnward ==
    ASSUME TypeOK, NewestInv, OverflowChecks, [Next]_vars
    PROVE  Onward
<1>0. CASE Panic \/ TimerHandler \/ UNCHANGED vars
  <2>1. UNCHANGED <<resources, lastSent, currentMessageId>>
    BY <1>0 DEF Panic, TimerHandler, tables, vars
  <2> QED
    BY <2>1, OnwardQuiet
<1>1. ASSUME NEW a \in Addr, NEW p \in Path, NEW t \in Token, Deregister(a, p, t), ~Panic
      PROVE  Onward
  <2>1. RemoveFromIndexes(<<a, p>>)
    BY <1>1 DEF Deregister
  <2> QED
    BY <2>1, OnwardRemove
<1>2. ASSUME NEW a \in Addr, NEW m \in Mid, ResetNotification(a, m), ~Panic
      PROVE  Onward
  <2>1. RemoveFromIndexes(unacknowledgeMessages[m].key)
    BY <1>2 DEF ResetNotification
  <2> QED
    BY <2>1, OnwardRemove
<1>3. ASSUME NEW m \in Mid, NEW t \in Token, Acknowledge(m, t), ~Panic
      PROVE  Onward
  <2>1. UNCHANGED <<resources, lastSent, currentMessageId>>
    BY <1>3 DEF Acknowledge
  <2> QED
    BY <2>1, OnwardQuiet
<1> QED
  BY <1>0, <1>1, <1>2, <1>3, OnwardRegister, OnwardResourceChanged,
     OnwardNotifyChanged, OnwardRetryUnacknowledged DEF Next, Request, Rounds

\* With overflow checks no observer is ever sent an older state after a newer
\* one, over any number of registrations, and of two notifications the newer
\* state has the newer message id (gen_message_id, observer.rs:576-579).
THEOREM NotificationsOrderedCorrect ==
    ASSUME OverflowChecks
    PROVE  Spec => NotificationsOrdered
<1>1. Init => SentInv
  BY DEF Init, SentInv, NoFunction
<1>2. TypeOK /\ TypeOK' /\ NewestInv /\ SentInv /\ [Next]_vars => SentInv'
  BY NextOnward, OnwardOrders
<1>3. TypeOK /\ TypeOK' /\ NewestInv /\ SentInv /\ [Next]_vars =>
        [\A k \in DOMAIN lastSent :
           LET old == lastSent[k]
               new == lastSent'[k]
           IN /\ new.sequence >= old.sequence
              /\ (/\ old.kind = "notification" /\ new.kind = "notification"
                  /\ new.sequence > old.sequence)
                   => new.mid > old.mid]_vars
  BY NextOnward, OnwardOrders DEF InOrder
<1>4. TypeOK /\ IndexesAgree /\ NewestInv /\ [Next]_vars => NewestInv'
  BY NextNewest
<1> QED
  BY <1>1, <1>2, <1>3, <1>4, InitNewest, TypeCorrect, IndexesCorrect, PTL
     DEF Spec, NotificationsOrdered
=============================================================================
