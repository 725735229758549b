------------------------------- MODULE Server -------------------------------
(***************************************************************************)
(* The server loop (src/src/server.rs:262-500) around the observe          *)
(* registry: requests are taken one by one with the lock on the state      *)
(* held; those for the application are handled by tasks of their own,      *)
(* which take the lock again for the response.                             *)
(*                                                                         *)
(* One client is followed.  The other endpoints of the server only change  *)
(* its resource.  The application and the block handler of coap-lite are   *)
(* external; what they are used for here is to answer a request for a      *)
(* block, from a response that is cached or a new one.                     *)
(***************************************************************************)
EXTENDS Observer, Sequences

CONSTANTS
    Client,    \* the endpoint that is followed
    Resource,  \* the path it observes
    MaxQueue   \* bound of the model: messages on their way to it

ASSUME ServerAssumption ==
    /\ Client \in Addr
    /\ Resource \in Path
    /\ MaxQueue \in Nat \ {0}

VARIABLES
    transport,  \* "udp" or "dtls"
    automatic,  \* the server handles observe options
    listener,   \* "running" or "stopped"
    inbox,      \* requests of the client on their way
    tasks,      \* requests of the client the application works on
    cache,      \* block handler: a response it may cut blocks from, or None
    outbox,     \* responses and notifications on their way to the client
    history     \* payloads the resource has had, kept for properties

observerVars == vars
serverVars == <<transport, automatic, listener, inbox, tasks, cache, outbox,
                history>>

Registration == <<Client, Resource>>

\* is_observing, for the client.
Observing == Registration \in DOMAIN registerResources

\* The cells from an offset up to another of a payload.  Payloads of different
\* content have different lengths here, so the length is also the ETag.
Cells(payload, from, to) ==
    [i \in 1 .. (to - from) |-> [of |-> payload, at |-> from + i]]

Bare(token, code) ==
    [token |-> token, code |-> code, mid |-> None, sequence |-> None,
     etag |-> None, block2 |-> None, cells |-> <<>>]

\* What the registry has handed to the responder.
Datagram(m) ==
    [token |-> m.token, code |-> "Content", mid |-> m.mid,
     sequence |-> m.sequence, etag |-> m.size,
     block2 |-> IF m.more THEN [num |-> 0, size |-> m.body, more |-> TRUE] ELSE None,
     cells |-> Cells(m.size, 0, m.body)]

\* A block of a response, as the block handler cuts it; of a block that does not
\* exist only the given code is sent.
Cut(token, block, response, code) ==
    LET offset == block.num * block.size
        end    == offset + block.size
    IN  IF offset >= response.payload THEN Bare(token, code)
        ELSE [Bare(token, "Content") EXCEPT
                !.etag = response.etag,
                !.block2 = [num |-> block.num, size |-> block.size,
                            more |-> end < response.payload],
                !.cells = Cells(response.payload, offset,
                                IF end < response.payload THEN end
                                ELSE response.payload)]

\* Responder: nothing is sent once the listener has stopped.
Respond(message) ==
    IF listener = "running"
    THEN Len(outbox) < MaxQueue /\ outbox' = Append(outbox, message)
    ELSE UNCHANGED outbox

\* What the registry hands to the responder of the client's registration, if it
\* can be encoded.
HandedOver(kind, mid) ==
    LET message == MessageFor(kind, mid, registerResources'[Registration],
                              resources[Resource])
    IN  IF Encodable(message) THEN Respond(Datagram(message)) ELSE UNCHANGED outbox

-----------------------------------------------------------------------------
(* run: one request.                                                       *)

Received(q) ==
    /\ listener = "running" /\ Idle
    /\ q \in inbox
    /\ inbox' = inbox \ {q}
    /\ UNCHANGED <<transport, automatic, listener, history>>

Forward(q) == tasks' = tasks \cup {q} /\ UNCHANGED <<cache, outbox, observerVars>>

\* intercept_request: the block handler, which sees every request first, may
\* have the response to one for a block still.  The error of a block that does
\* not exist is not applied, so the reply is the one made for the request.
FromCache(q) ==
    /\ q.block # None /\ cache # None
    /\ Respond(Cut(q.token, q.block, cache, "Content"))
    /\ UNCHANGED <<tasks, cache, observerVars>>

\* The registry answers itself, also that it does not know the resource; a
\* registration that is answered from the cache does not reach it.
ReceiveRegister(q) ==
    /\ Received(q) /\ q.kind = "register"
    /\ \/ FromCache(q)
       \/ automatic /\ Resource \in DOMAIN resources
          /\ Register(Client, Resource, q.token,
                      IF q.block = None THEN None ELSE q.block.size)
          /\ HandedOver("registered", None)
          /\ UNCHANGED <<tasks, cache>>
       \/ automatic /\ Resource \notin DOMAIN resources
          /\ Respond(Bare(q.token, "NotFound"))
          /\ UNCHANGED <<tasks, cache, observerVars>>
       \/ ~automatic /\ Forward(q)

\* The application is given the request as well.
ReceiveDeregister(q) ==
    /\ Received(q) /\ q.kind = "deregister"
    /\ tasks' = tasks \cup {q}
    /\ UNCHANGED <<cache, outbox>>
    /\ IF automatic /\ Observing /\ registerResources[Registration].token = q.token
       THEN Deregister(Client, Resource, q.token)
       ELSE UNCHANGED observerVars

\* A request for a block that is not answered from the cache goes to the
\* application.
ReceiveFetch(q) ==
    /\ Received(q) /\ q.kind = "fetch"
    /\ FromCache(q) \/ Forward(q)

\* An acknowledgement that does not fit is ignored.
ReceiveAck(q) ==
    /\ Received(q) /\ q.kind = "ack"
    /\ UNCHANGED <<tasks, cache, outbox>>
    /\ IF /\ automatic /\ Observing
          /\ q.mid \in DOMAIN unacknowledgeMessages
          /\ registerResources[Registration].token = q.token
       THEN Acknowledge(q.mid, q.token)
       ELSE UNCHANGED observerVars

\* Another endpoint changes the resource.
ReceivePut(n) ==
    /\ listener = "running" /\ automatic
    /\ ResourceChanged(Resource, n)
    /\ history' = Append(history, n)
    /\ UNCHANGED <<transport, automatic, listener, inbox, tasks, cache, outbox>>

\* The notifications of that change, with the lock still held.
Notify ==
    /\ NotifyChanged(Registration)
    /\ IF panicked' THEN UNCHANGED outbox
       ELSE HandedOver("notification", currentMessageId')
    /\ UNCHANGED <<transport, automatic, listener, inbox, tasks, cache, history>>

\* Mutant of Replacement: the tag of the application's response is kept.
PayloadReplaced(own) == [payload |-> resources[Resource].payload, etag |-> own]

\* intercept_response: what an observer is given blocks of is the newest state.
Replacement(own) ==
    [payload |-> resources[Resource].payload, etag |-> resources[Resource].payload]

\* The application has handled a request; it does so of its own state.
Handled(q) ==
    /\ q \in tasks /\ Idle
    /\ tasks' = tasks \ {q}
    /\ \/ /\ q.kind = "fetch"
          /\ \E own \in PayloadLen :
               LET response == IF Observing
                               THEN Replacement(own)
                               ELSE [payload |-> own, etag |-> None]
               IN  cache' = response /\ Respond(Cut(q.token, q.block, response, "Error"))
       \/ /\ q.kind # "fetch"
          /\ \E code \in {"Content", "Error"} : Respond(Bare(q.token, code))
          /\ UNCHANGED cache
    /\ UNCHANGED <<transport, automatic, listener, inbox, history, observerVars>>

\* The socket fails, and nothing is received or sent any more.  run does not end:
\* it holds a sender of the queue it waits for itself.
ListenerStops ==
    /\ listener = "running"
    /\ listener' = "stopped"
    /\ inbox' = {}
    /\ UNCHANGED <<transport, automatic, tasks, cache, outbox, history,
                   observerVars>>

\* Mutant of Leaves: every response is sent by a task of its own.
LeavesAny(i) == i \in DOMAIN outbox

\* Which message may leave next.  UDP: the listener sends them one by one.
\* DTLS: a task for each sends it.
Leaves(i) == i \in DOMAIN outbox /\ (transport = "udp" => i = 1)

\* The cache may hold the response to an earlier request of the client.
ServerInit ==
    /\ Init
    /\ transport \in {"udp", "dtls"}
    /\ automatic \in BOOLEAN
    /\ listener = "running"
    /\ tasks = {} /\ outbox = <<>> /\ history = <<>>
    /\ cache \in {None} \cup [payload : PayloadLen, etag : {None}]

ServerStep ==
    \/ \E q \in inbox :
          ReceiveRegister(q) \/ ReceiveDeregister(q) \/ ReceiveFetch(q) \/ ReceiveAck(q)
    \/ \E n \in PayloadLen : ReceivePut(n)
    \/ Notify
    \/ \E q \in tasks : Handled(q)
    \/ ListenerStops
=============================================================================
