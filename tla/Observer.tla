------------------------------ MODULE Observer ------------------------------
(***************************************************************************)
(* The observe registry of the server (src/src/observer.rs): who observes  *)
(* which resource, the newest state of every resource, the notifications   *)
(* that wait for an acknowledgement and their retransmission.              *)
(*                                                                         *)
(* Every public operation takes &mut self, and the server calls it with    *)
(* the lock on its state held, so an operation that makes one step is one  *)
(* action.  The two operations that loop over registrations and await a    *)
(* send in each round (resource_changed and timer_handler) are a first     *)
(* action and one action per round: `loop' says which one is running and   *)
(* `todo' which registrations are left, in any order, as a HashMap gives   *)
(* them.  No other operation starts before the loop is over.               *)
(*                                                                         *)
(* A resource's payload is represented by its length: its successive       *)
(* states are told apart by their sequence number.  An unwrap or assert of *)
(* the source that fails sets `panicked', after which nothing happens: the *)
(* task that owns the registry has unwound.                                *)
(***************************************************************************)
EXTENDS Naturals, Functions

CONSTANTS
    Addr,            \* endpoints of clients
    Path,            \* resource paths
    Token,           \* tokens, the empty one included
    PayloadLen,      \* lengths of payloads
    BlockSize,       \* block sizes a client may prefer
    None,            \* the absent value of an Option
    MaxTry,          \* DEFAULT_UNACKNOWLEDGE_MESSAGE_TRY_TIMES
    MidModulus,      \* 2^16: number of values of a message id
    OverflowChecks,  \* TRUE: += panics on overflow; FALSE: it wraps
    MaxBody,         \* the longest body coap-lite encodes in one message
    MaxSequence      \* bound of the model: largest sequence number

ASSUME ObserverAssumption ==
    /\ PayloadLen \subseteq Nat
    /\ BlockSize \subseteq Nat \ {0}
    /\ None \notin Nat \cup Token
    /\ MaxTry \in Nat
    /\ MidModulus \in Nat \ {0}
    /\ OverflowChecks \in BOOLEAN
    /\ MaxBody \in Nat
    /\ MaxSequence \in Nat

VARIABLES
    registers,               \* Addr -> keys registered by that endpoint
    resources,               \* Path -> newest state and keys registered
    registerResources,       \* key -> the registration
    unacknowledgeMessages,   \* message id -> key, number of tries
    currentMessageId,
    loop, todo,              \* the loop in progress and its rounds left
    panicked,
    lastSent,                \* key -> last message given to its responder
    canceller                \* who asked for the last removal, with what token

vars == <<registers, resources, registerResources, unacknowledgeMessages,
          currentMessageId, loop, todo, panicked, lastSent, canceller>>

tables == <<registers, resources, registerResources, unacknowledgeMessages>>

NoFunction == [x \in {} |-> x]

\* format_register_resource: the key of a registration.
Key == Addr \X Path
Mid == 0 .. MidModulus - 1

RegisterResourceItem ==
    [token : Token, unacknowledged : Mid \cup {None},
     block : BlockSize \cup {None}]

ResourceItem ==
    [payload : PayloadLen, registered : SUBSET Key, sequence : 0 .. MaxSequence]

UnacknowledgeMessageItem == [key : Key, tries : 1 .. MaxTry + 1]

\* What is handed to a responder.  A reply to a registration carries the
\* message id of the request (None here), a notification one of the server's.
Message ==
    [kind : {"registered", "notification"}, token : Token,
     mid : Mid \cup {None}, sequence : 0 .. MaxSequence, size : PayloadLen,
     body : PayloadLen \cup BlockSize, more : BOOLEAN]

\* Kept for OnlyOwnerCancels: the source of the request that last removed a
\* registration, and its token (a Reset carries none).
Canceller == [source : Addr, token : Token \cup {None}]

Bind(f, x, v) == [y \in DOMAIN f \cup {x} |-> IF y = x THEN v ELSE f[y]]
Unbind(f, x) == Restrict(f, DOMAIN f \ {x})

-----------------------------------------------------------------------------
Idle == loop = "idle" /\ ~panicked

\* The task unwinds; what it had already changed is never looked at again.
Panic ==
    /\ panicked' = TRUE
    /\ UNCHANGED <<registers, resources, registerResources,
                   unacknowledgeMessages, currentMessageId, loop, todo, lastSent,
                   canceller>>

\* The message for registration r of a resource in state s: the whole payload,
\* or its first block when the client prefers blocks smaller than the payload.
MessageFor(kind, mid, r, s) ==
    LET cut == r.block # None /\ s.payload > r.block IN
    [kind |-> kind, token |-> r.token, mid |-> mid, sequence |-> s.sequence,
     size |-> s.payload, body |-> IF cut THEN r.block ELSE s.payload,
     more |-> cut]

\* to_bytes succeeds.
Encodable(message) == message.body <= MaxBody

\* A message that cannot be encoded is dropped without a word; the caller goes
\* on as if it had been sent.
HandOver(k, message) ==
    lastSent' = IF Encodable(message) THEN Bind(lastSent, k, message) ELSE lastSent

\* Mutant of WithoutPendingOf: the old message id is left in the table.
PendingKept(k) == unacknowledgeMessages

\* unacknowledge_messages without the entry that registration k refers to.
WithoutPendingOf(k) ==
    IF k \in DOMAIN registerResources
    THEN Unbind(unacknowledgeMessages, registerResources[k].unacknowledged)
    ELSE unacknowledgeMessages

-----------------------------------------------------------------------------
\* record_register_resource: a registration of a key that is registered
\* replaces token and block size and drops what was pending.
RecordRegisterResource(k, r) ==
    /\ unacknowledgeMessages' = WithoutPendingOf(k)
    /\ registerResources' = Bind(registerResources, k, r)
    /\ resources' = [resources EXCEPT ![k[2]].registered = @ \cup {k}]
    /\ registers' = Bind(registers, k[1],
                         {k} \cup IF k[1] \in DOMAIN registers
                                  THEN registers[k[1]] ELSE {})

\* GET with Observe: register, resource known.  (For an unknown resource the
\* reply is 4.04 and nothing changes.)
Register(a, p, t, b) ==
    /\ Idle
    /\ p \in DOMAIN resources
    /\ LET k == <<a, p>>
           r == [token |-> t, unacknowledged |-> None, block |-> b]
       IN /\ RecordRegisterResource(k, r)
          /\ HandOver(k, MessageFor("registered", None, r, resources[p]))
    /\ UNCHANGED <<currentMessageId, loop, todo, panicked, canceller>>

\* An unwrap or assert of remove_register_resource fails: the indexes disagree.
IndexBroken(k) ==
    \/ k[2] \notin DOMAIN resources
    \/ k \notin resources[k[2]].registered
    \/ k[1] \notin DOMAIN registers
    \/ k \notin registers[k[1]]

\* Mutant of RemoveFromIndexes: the endpoint's entry is kept when it is empty.
RemoveKeepingEntry(k) ==
    /\ resources' = [resources EXCEPT ![k[2]].registered = @ \ {k}]
    /\ registers' = [registers EXCEPT ![k[1]] = @ \ {k}]
    /\ registerResources' = Unbind(registerResources, k)
    /\ UNCHANGED <<currentMessageId, loop, todo, panicked, lastSent>>

\* The part of remove_register_resource after the token has been compared and
\* the pending message removed.
RemoveFromIndexes(k) ==
    /\ resources' = [resources EXCEPT ![k[2]].registered = @ \ {k}]
    /\ registers' = IF registers[k[1]] \subseteq {k}
                    THEN Unbind(registers, k[1])
                    ELSE [registers EXCEPT ![k[1]] = @ \ {k}]
    /\ registerResources' = Unbind(registerResources, k)
    /\ UNCHANGED <<currentMessageId, loop, todo, panicked, lastSent>>

\* GET with Observe: deregister.  A wrong token leaves the registration.
Deregister(a, p, t) ==
    LET k == <<a, p>>
        pending == registerResources[k].unacknowledged
    IN /\ Idle
       /\ k \in DOMAIN registerResources
       /\ registerResources[k].token = t
       /\ IF \/ pending # None /\ pending \notin DOMAIN unacknowledgeMessages
             \/ IndexBroken(k)
          THEN Panic
          ELSE /\ unacknowledgeMessages' = WithoutPendingOf(k)
               /\ RemoveFromIndexes(k)
               /\ canceller' = [source |-> a, token |-> t]

\* Mutant of ResetNotification: the source of the Reset is not compared.
ResetFromAnyone(a, m) ==
    /\ Idle
    /\ m \in DOMAIN unacknowledgeMessages
    /\ LET k == unacknowledgeMessages[m].key IN
       /\ k \in DOMAIN registerResources
       /\ IF IndexBroken(k)
          THEN Panic
          ELSE /\ unacknowledgeMessages' = Unbind(unacknowledgeMessages, m)
               /\ RemoveFromIndexes(k)
               /\ canceller' = [source |-> a, token |-> None]

\* Mutant of ResetNotification: the message id stays in the table.
ResetKeepingPending(a, m) ==
    /\ Idle
    /\ m \in DOMAIN unacknowledgeMessages
    /\ LET k == unacknowledgeMessages[m].key IN
       /\ k \in DOMAIN registerResources
       /\ a = k[1]
       /\ IF IndexBroken(k)
          THEN Panic
          ELSE /\ UNCHANGED unacknowledgeMessages
               /\ RemoveFromIndexes(k)
               /\ canceller' = [source |-> a, token |-> None]

\* A Reset from a: only the endpoint the message id was used for may cancel.
ResetNotification(a, m) ==
    /\ Idle
    /\ m \in DOMAIN unacknowledgeMessages
    /\ LET k == unacknowledgeMessages[m].key IN
       /\ k \in DOMAIN registerResources
       /\ a = k[1]
       /\ IF IndexBroken(k)
          THEN Panic
          ELSE /\ unacknowledgeMessages' = Unbind(unacknowledgeMessages, m)
               /\ RemoveFromIndexes(k)
               /\ canceller' = [source |-> a, token |-> None]

\* An acknowledgement counts only with the token of the registration.
Acknowledge(m, t) ==
    /\ Idle
    /\ m \in DOMAIN unacknowledgeMessages
    /\ LET k == unacknowledgeMessages[m].key IN
       IF k \notin DOMAIN registerResources
       THEN Panic
       ELSE /\ registerResources[k].token = t
            /\ registerResources' =
                 [registerResources EXCEPT ![k].unacknowledged = None]
            /\ unacknowledgeMessages' = Unbind(unacknowledgeMessages, m)
            /\ UNCHANGED <<registers, resources, currentMessageId, loop, todo,
                           panicked, lastSent, canceller>>

-----------------------------------------------------------------------------
\* resource_changed, up to its loop: PUT records the new state.
ResourceChanged(p, n) ==
    /\ Idle
    /\ LET known == p \in DOMAIN resources
           old == resources[p]
           new == IF known
                  THEN [old EXCEPT !.sequence = @ + 1, !.payload = n]
                  ELSE [payload |-> n, registered |-> {}, sequence |-> 0]
       IN /\ known => old.sequence < MaxSequence
          /\ resources' = Bind(resources, p, new)
          /\ todo' = new.registered
          /\ loop' = IF new.registered = {} THEN "idle" ELSE "changed"
    /\ UNCHANGED <<registers, registerResources, unacknowledgeMessages,
                   currentMessageId, panicked, lastSent, canceller>>

\* Mutant of NextMid: the id is not incremented.
SameMid == currentMessageId

NextMid == (currentMessageId + 1) % MidModulus
MidOverflows == OverflowChecks /\ currentMessageId + 1 = MidModulus

\* An unwrap of notify_register_with_newest_resource fails.
NotifyBroken(k) == k \notin DOMAIN registerResources \/ k[2] \notin DOMAIN resources

\* Mutant of EndRound: the loop ends after its first round.
EndLoop(k) ==
    /\ todo' = {}
    /\ loop' = "idle"

EndRound(k) ==
    /\ todo' = todo \ {k}
    /\ loop' = IF todo \subseteq {k} THEN "idle" ELSE loop

\* One round of resource_changed: gen_message_id, notify, and
\* record_unacknowledge_message.
NotifyChanged(k) ==
    /\ loop = "changed" /\ ~panicked
    /\ k \in todo
    /\ IF MidOverflows \/ NotifyBroken(k)
       THEN Panic
       ELSE LET r == [registerResources[k] EXCEPT !.unacknowledged = NextMid]
            IN /\ currentMessageId' = NextMid
               /\ HandOver(k, MessageFor("notification", NextMid, r, resources[k[2]]))
               /\ registerResources' = [registerResources EXCEPT ![k] = r]
               /\ unacknowledgeMessages' =
                    Bind(WithoutPendingOf(k), NextMid, [key |-> k, tries |-> 1])
               /\ EndRound(k)
               /\ UNCHANGED <<registers, resources, panicked, canceller>>

\* timer_handler, up to its loop.
TimerHandler ==
    /\ Idle
    /\ DOMAIN unacknowledgeMessages # {}
    /\ loop' = "timer"
    /\ todo' = {unacknowledgeMessages[m].key : m \in DOMAIN unacknowledgeMessages}
    /\ UNCHANGED <<tables, currentMessageId, panicked, lastSent, canceller>>

\* Mutant of TriesExceeded: one try too many.
TriesExceededLate(m) == unacknowledgeMessages[m].tries > MaxTry + 1

\* Mutant of CountTry: the try is not counted.
TryUncounted(m) == unacknowledgeMessages

TriesExceeded(m) == unacknowledgeMessages[m].tries > MaxTry
CountTry(m) == [unacknowledgeMessages EXCEPT ![m].tries = @ + 1]

\* One round of timer_handler: try_unacknowledge_message gives up once the
\* tries exceed the maximum, else the newest state is sent again, under the
\* message id generated last.
RetryUnacknowledged(k) ==
    LET m == registerResources[k].unacknowledged IN
    /\ loop = "timer" /\ ~panicked
    /\ k \in todo
    /\ IF NotifyBroken(k) \/ m \notin DOMAIN unacknowledgeMessages
       THEN Panic
       ELSE /\ EndRound(k)
            /\ \/ /\ TriesExceeded(m)
                  /\ registerResources' =
                       [registerResources EXCEPT ![k].unacknowledged = None]
                  /\ unacknowledgeMessages' = Unbind(unacknowledgeMessages, m)
                  /\ UNCHANGED lastSent
               \/ /\ ~TriesExceeded(m)
                  /\ unacknowledgeMessages' = CountTry(m)
                  /\ HandOver(k, MessageFor("notification", currentMessageId,
                                    registerResources[k], resources[k[2]]))
                  /\ UNCHANGED registerResources
            /\ UNCHANGED <<registers, resources, currentMessageId, panicked,
                           canceller>>

-----------------------------------------------------------------------------
Init ==
    /\ registers = NoFunction
    /\ resources = NoFunction
    /\ registerResources = NoFunction
    /\ unacknowledgeMessages = NoFunction
    /\ currentMessageId = 0
    /\ loop = "idle"
    /\ todo = {}
    /\ panicked = FALSE
    /\ lastSent = NoFunction
    /\ canceller = None

\* A request the registry is given, from any endpoint and in any order.
Request ==
    \/ \E a \in Addr, p \in Path, t \in Token, b \in BlockSize \cup {None} :
          Register(a, p, t, b)
    \/ \E a \in Addr, p \in Path, t \in Token : Deregister(a, p, t)
    \/ \E a \in Addr, m \in Mid : ResetNotification(a, m)
    \/ \E m \in Mid, t \in Token : Acknowledge(m, t)
    \/ \E p \in Path, n \in PayloadLen : ResourceChanged(p, n)

Rounds == \E k \in Key : NotifyChanged(k) \/ RetryUnacknowledged(k)

Next == Request \/ Rounds \/ TimerHandler

Spec == Init /\ [][Next]_vars

\* A handler that has started runs to its end, and the embedding program polls
\* the interval timer (the Server of this crate does not).
FairSpec == Spec /\ WF_vars(Rounds) /\ WF_vars(TimerHandler)

-----------------------------------------------------------------------------
\* Types; tries never exceed the maximum by more than one.
TypeOK ==
    /\ registers \in [DOMAIN registers -> SUBSET Key]
    /\ DOMAIN registers \subseteq Addr
    /\ resources \in [DOMAIN resources -> ResourceItem]
    /\ DOMAIN resources \subseteq Path
    /\ registerResources \in [DOMAIN registerResources -> RegisterResourceItem]
    /\ DOMAIN registerResources \subseteq Key
    /\ unacknowledgeMessages \in
         [DOMAIN unacknowledgeMessages -> UnacknowledgeMessageItem]
    /\ DOMAIN unacknowledgeMessages \subseteq Mid
    /\ currentMessageId \in Mid
    /\ loop \in {"idle", "changed", "timer"}
    /\ todo \subseteq Key
    /\ panicked \in BOOLEAN
    /\ lastSent \in [DOMAIN lastSent -> Message]
    /\ DOMAIN lastSent \subseteq Key
    /\ canceller \in Canceller \cup {None}

\* The three tables that name a registration name the same ones: by endpoint,
\* by resource and by key; an endpoint without registrations has no entry.
\* The asserts of remove_register_resource (observer.rs:418-434) rely on it.
IndexesAgree ==
    /\ \A a \in DOMAIN registers :
         /\ registers[a] = {k \in DOMAIN registerResources : k[1] = a}
         /\ registers[a] # {}
    /\ \A p \in DOMAIN resources :
         resources[p].registered = {k \in DOMAIN registerResources : k[2] = p}
    /\ \A k \in DOMAIN registerResources :
         k[1] \in DOMAIN registers /\ k[2] \in DOMAIN resources

\* A registration refers to message id m exactly when the table of
\* unacknowledged messages holds m for that registration: no entry outlives
\* its registration, and no registration waits for an id that is gone.
PendingAgrees ==
    /\ \A k \in DOMAIN registerResources :
         LET m == registerResources[k].unacknowledged IN
         m # None => /\ m \in DOMAIN unacknowledgeMessages
                     /\ unacknowledgeMessages[m].key = k
    /\ \A m \in DOMAIN unacknowledgeMessages :
         LET k == unacknowledgeMessages[m].key IN
         /\ k \in DOMAIN registerResources
         /\ registerResources[k].unacknowledged = m

\* With overflow checks the only panic is the one of gen_message_id, when
\* the ids are used up: no unwrap or assert of this file ever fails.
PanicOnlyOnOverflow ==
    panicked => MidOverflows /\ loop = "changed"

\* What makes the three invariants above inductive: a round that is left
\* finds its registration, and, without wrapping, the message id generated
\* next is not in use.
RoundsLeft ==
    /\ loop = "changed" => todo \subseteq DOMAIN registerResources
    /\ loop = "timer" =>
         \A k \in todo :
            /\ k \in DOMAIN registerResources
            /\ registerResources[k].unacknowledged \in DOMAIN unacknowledgeMessages

MidsIssued ==
    \A m \in DOMAIN unacknowledgeMessages : m <= currentMessageId

IInv == /\ TypeOK
        /\ IndexesAgree
        /\ PendingAgrees
        /\ RoundsLeft
        /\ MidsIssued
        /\ PanicOnlyOnOverflow

\* Between two requests every observer has been sent the newest state of
\* its resource, under the token and the block size it registered last, unless
\* that is more than one message holds (observer.rs:245, 570): then nothing was
\* sent, and only blocks of a smaller size or a shorter state end the silence.
NewestStateSent ==
    Idle => \A k \in DOMAIN registerResources :
              LET newest(kind, mid) ==
                    MessageFor(kind, mid, registerResources[k], resources[k[2]])
              IN  Encodable(newest("notification", None)) =>
                    /\ k \in DOMAIN lastSent
                    /\ lastSent[k] = newest(lastSent[k].kind, lastSent[k].mid)

\* A registration disappears only because its own endpoint asked for it: by a
\* Reset, or by a deregistration that carries the token of the registration.
OnlyOwnerCancels ==
    [][\A k \in DOMAIN registerResources \ DOMAIN registerResources' :
          /\ canceller'.source = k[1]
          /\ canceller'.token \in {registerResources[k].token, None}]_vars

\* Of two notifications of one registration the one with the newer state has
\* the newer message id (while ids do not wrap), and never an older state
\* follows a newer one, so a client can order what arrives out of order.
NotificationsOrdered ==
    [][\A k \in DOMAIN lastSent :
         LET old == lastSent[k]
             new == lastSent'[k]
         IN /\ new.sequence >= old.sequence
            /\ (/\ old.kind = "notification" /\ new.kind = "notification"
                /\ new.sequence > old.sequence)
                 => new.mid > old.mid]_vars

\* A notification nobody acknowledges is given up: no entry of the table of
\* unacknowledged messages stays for ever.
PendingSettles ==
    \A m \in Mid :
       m \in DOMAIN unacknowledgeMessages ~>
         m \notin DOMAIN unacknowledgeMessages \/ panicked

\* "if a client rejects a notification with a reset message, the server
\* must remove the associated entry from the list of observers"
\* (observer.rs:265-266): while a registration waits for an acknowledgement,
\* a Reset of the notification it was sent last would find it.
ResetCancels ==
    Idle => \A k \in DOMAIN registerResources :
              registerResources[k].unacknowledged # None =>
                registerResources[k].unacknowledged = lastSent[k].mid

\* Every unwrap and assert of observer.rs holds (observer.rs:411-434).
NoPanic == ~panicked
=============================================================================
