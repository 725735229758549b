---------------------------- MODULE Observation ----------------------------
(***************************************************************************)
(* An observation from the client's side (src/src/client.rs:741-935), with *)
(* the server and the network in between: registration, notifications that *)
(* are passed on to the handler of the application, the fetch of their     *)
(* remaining blocks under another token, termination, a future that is     *)
(* dropped, and the failure of the transport.                              *)
(*                                                                         *)
(* The task looks at one thing at a time: while it fetches blocks,         *)
(* notifications wait in its channel.  Each request sets a new channel for *)
(* its token, waits for one message and removes the sender (see            *)
(* ClientTransport); `reply' is that channel.  Requests and messages may   *)
(* be lost, and requests are sent again.                                   *)
(***************************************************************************)
EXTENDS Server

CONSTANTS
    ObserveToken,  \* the token of the observation
    RandomToken,   \* what gen_token may draw
    MaxMishaps,    \* bound of the model: requests sent again, tokens drawn twice
    MaxChannel,    \* bound of the model: messages waiting in the channel
    EmptyToken,
    Error          \* an Err(_) in a channel

ASSUME ObservationAssumption ==
    /\ {ObserveToken, EmptyToken} \subseteq Token
    /\ ObserveToken # EmptyToken
    /\ EmptyToken \notin RandomToken
    /\ MaxMishaps \in Nat
    /\ MaxChannel \in Nat \ {0}

\* A Block2 option; and a notification whose blocks are fetched: what has been
\* put together, the number of the block that is waited for, and what they must
\* be blocks of.
Option2 == [num : Nat, size : BlockSize, more : BOOLEAN]
Cell == [of : PayloadLen, at : Nat]
Fetching ==
    [state : [cached : Seq(Cell \cup {Error}), expected : Nat],
     etag : PayloadLen \cup {None}, about : Nat \cup {None}]

ASSUME AbsentAssumption == None \notin Option2 \cup Seq(Cell \cup {Error}) \cup Fetching

VARIABLES
    phase,     \* "registering", "registered" (a first fetch is left),
               \* "observing", "terminating", or how it ended
    outgoing,  \* token -> whose sender is registered
    channel,   \* of the observation
    request,   \* the request that waits for an answer, or None
    resent,    \* requests that have been sent again
    reply,     \* its channel: the first message in it, or None
    fetch,     \* the notification whose blocks are fetched, or None
    told,      \* what the handler was told last of a notification
    failed,    \* the transport has failed
    collided   \* a fetch has drawn the observation's token, kept for properties

clientVars == <<phase, outgoing, channel, request, resent, reply,
                fetch, told, failed, collided>>
allVars == <<observerVars, serverVars, clientVars>>

Blocks == INSTANCE BlockState WITH Zero <- Error

Nobody == [x \in {} |-> None]

\* What the handler is told: a payload or an error, kept with the sequence
\* number of the notification it is about.
Payload(cells, about) == [tag |-> "ok", cells |-> cells, about |-> about]
Failure(about) == [tag |-> "error", about |-> about]

Untouched == UNCHANGED <<transport, automatic, listener, tasks, cache, history,
                         observerVars>>

-----------------------------------------------------------------------------
(* Requests of the task.                                                   *)

\* do_request_response_for_packet: set_sender, and the first attempt.  After a
\* failure the channel has the error in it and nothing is registered.
Ask(q) ==
    /\ request' = q
    /\ inbox' = inbox \cup {q}
    /\ reply' = IF failed THEN Error ELSE None
    /\ outgoing' = IF failed THEN outgoing ELSE Bind(outgoing, q.token, "request")

Mishaps == resent + IF collided THEN 1 ELSE 0

\* Another attempt.
Resend ==
    /\ request # None /\ Mishaps < MaxMishaps
    /\ resent' = resent + 1
    /\ inbox' = inbox \cup {request}
    /\ UNCHANGED <<outbox, phase, outgoing, channel, request, reply, fetch, told, failed,
                   collided>>
    /\ Untouched

\* Mutant of Forget: the observation's sender goes with the request's.
ForgetBoth(token) ==
    /\ request' = None /\ reply' = None
    /\ outgoing' = Unbind(Unbind(outgoing, token), ObserveToken)

\* remove_sender, after an answer or the last attempt.
Forget(token) ==
    /\ request' = None /\ reply' = None
    /\ outgoing' = Unbind(outgoing, token)

-----------------------------------------------------------------------------
(* Notifications.                                                          *)

\* gen_token draws 16 bits and compares them with nothing: they may be the
\* token of something that is still to arrive, or of the observation itself.
GenToken(token) ==
    /\ token \in RandomToken
    /\ token = ObserveToken /\ ~collided => Mishaps < MaxMishaps
    /\ collided' = (collided \/ token = ObserveToken)

Fetch(token, block) == [kind |-> "fetch", token |-> token, block |-> block]

HasMore(message) ==
    message # Error /\ message.block2 # None /\ message.block2.more

\* receive_and_handle_message_observe: an error or a whole notification goes to
\* the handler, of any other the next block is asked for.  What comes without a
\* sequence number, as an answer from the server's cache does, is passed on like
\* a notification, but `told' does not follow it.
HandleMessage(message) ==
    \/ /\ message = Error
       /\ told' = Failure(told.about)
       /\ request' = None
       /\ UNCHANGED <<inbox, outgoing, reply, fetch, collided>>
    \/ /\ message # Error /\ ~HasMore(message)
       /\ told' = IF message.sequence = None THEN told
                  ELSE Payload(message.cells, message.sequence)
       /\ request' = None
       /\ UNCHANGED <<inbox, outgoing, reply, fetch, collided>>
    \/ /\ HasMore(message)
       /\ \E token \in RandomToken :
            LET first == Blocks!HandleBlockwise(Blocks!EmptyState, message)
            IN  /\ GenToken(token)
                /\ Ask(Fetch(token, first.next))
                /\ fetch' = [state |-> first.state, etag |-> message.etag,
                             about |-> message.sequence]
       /\ UNCHANGED told

\* The fetch is over and the handler is told how it ended; after the first one
\* the task is spawned.
Tell(outcome) ==
    /\ told' = IF fetch.about = None THEN told ELSE outcome
    /\ fetch' = None
    /\ phase' = "observing"
    /\ Forget(request.token)
    /\ UNCHANGED inbox

EtagMatches(message) == fetch.etag = None \/ message.etag = fetch.etag

\* receive_with_etag_validation: one turn of the loop.
FetchAnswered ==
    /\ fetch # None /\ reply # None /\ reply # Error
    /\ LET outcome == Blocks!HandleBlockwise(fetch.state, reply)
       IN  \/ ~EtagMatches(reply) /\ Tell(Failure(fetch.about))
           \/ EtagMatches(reply) /\ outcome.tag = "error" /\ Tell(Failure(fetch.about))
           \/ /\ EtagMatches(reply) /\ outcome.tag = "more"
              /\ Ask(Fetch(request.token, outcome.next))
              /\ fetch' = [fetch EXCEPT !.state = outcome.state]
              /\ UNCHANGED <<told, phase>>
           \/ /\ EtagMatches(reply) /\ outcome.tag = "whole"
              /\ Tell(Payload(outcome.payload, fetch.about))
    /\ UNCHANGED <<outbox, channel, failed, resent, collided>>
    /\ Untouched

\* Mutant of FetchFails: the attempts of a fetch never end.
FetchWaits == FALSE /\ UNCHANGED allVars

\* No answer has come to the last attempt.
FetchFails ==
    /\ fetch # None /\ reply \in {None, Error}
    /\ Tell(Failure(fetch.about))
    /\ UNCHANGED <<outbox, channel, failed, resent, collided>>
    /\ Untouched

-----------------------------------------------------------------------------
(* The task.                                                               *)

\* Mutant of Refused: the sender stays registered.
RefusedOnly == phase' = "refused" /\ request' = None /\ UNCHANGED outgoing

\* What is left of a registration that fails.
Refused ==
    /\ phase' = "refused"
    /\ request' = None /\ outgoing' = Unbind(outgoing, ObserveToken)

Refuses(message) == ~(message # Error /\ message.code = "Content")

\* send_observe_registration: the first message with the token is taken for
\* the answer, and what it announces is fetched before observe_with returns.
Registered ==
    /\ phase = "registering" /\ channel # <<>>
    /\ channel' = Tail(channel)
    /\ \/ /\ Refuses(Head(channel)) /\ Refused
          /\ UNCHANGED <<inbox, reply, fetch, told, collided>>
       \/ /\ ~Refuses(Head(channel))
          /\ HandleMessage(Head(channel))
          /\ phase' = IF fetch' = None THEN "observing" ELSE "registered"
    /\ UNCHANGED <<outbox, failed, resent>>
    /\ Untouched

RegistrationFails ==
    /\ phase = "registering" /\ channel = <<>>
    /\ Refused
    /\ UNCHANGED <<inbox, outbox, channel, reply, fetch, told, failed, resent, collided>>
    /\ Untouched

\* The caller drops the future of observe_with before it has returned.  Nothing
\* guards the senders that are registered: they stay, without a receiver.
Dropped ==
    /\ phase \in {"registering", "registered"}
    /\ phase' = "dropped"
    /\ channel' = <<>>
    /\ request' = None /\ reply' = None /\ fetch' = None
    /\ UNCHANGED <<inbox, outbox, outgoing, told, failed, resent, collided>>
    /\ Untouched

\* The select of the task is waiting.
Listening == phase = "observing" /\ fetch = None

\* The loop of the task takes the next message.
Notified ==
    /\ Listening /\ channel # <<>>
    /\ HandleMessage(Head(channel))
    /\ channel' = Tail(channel)
    /\ UNCHANGED <<outbox, phase, failed, resent>>
    /\ Untouched

\* recv gives None: no sender is left, and the task ends without a word.
Lost ==
    /\ Listening /\ channel = <<>>
    /\ \A token \in DOMAIN outgoing : outgoing[token] # "observation"
    /\ phase' = "lost"
    /\ UNCHANGED <<inbox, outbox, outgoing, channel, request, reply, fetch, told, failed,
                   resent, collided>>
    /\ Untouched

\* ObserveMessage::Terminate: the deregistration takes the observation's place in
\* the registry, and what is left in its channel is not looked at any more.
Terminate ==
    /\ Listening
    /\ phase' = "terminating"
    /\ Ask([kind |-> "deregister", token |-> ObserveToken, block |-> None])
    /\ channel' = <<>>
    /\ UNCHANGED <<outbox, fetch, told, failed, resent, collided>>
    /\ Untouched

\* Any message with the token, or none: the task ends.
Terminated ==
    /\ phase = "terminating"
    /\ phase' = "terminated"
    /\ Forget(ObserveToken)
    /\ UNCHANGED <<inbox, outbox, channel, fetch, told, failed, resent, collided>>
    /\ Untouched

-----------------------------------------------------------------------------
(* The receive loop and the network.                                       *)

Without(s, i) == SubSeq(s, 1, i - 1) \o SubSeq(s, i + 1, Len(s))

\* Mutant of AckToken: the token of the message is echoed.
AckTokenEchoed(message) == message.token

\* make_ack: an empty message.
AckToken(message) == EmptyToken

\* What a confirmable response is acknowledged with, before anybody looks
\* whether its token is known.
Acks(message) ==
    IF message.mid = None THEN {}
    ELSE {[kind |-> "ack", token |-> AckToken(message), block |-> None,
           mid |-> message.mid]}

Holder(token) == IF token \in DOMAIN outgoing THEN outgoing[token] ELSE "nobody"

\* A message is put into the channel its token is registered with; of what a
\* request is answered only the first is looked at, and of a deregistration
\* nothing is.
Deliver(i) ==
    /\ ~failed /\ Leaves(i) /\ Len(channel) < MaxChannel
    /\ outbox' = Without(outbox, i)
    /\ inbox' = inbox \cup Acks(outbox[i])
    /\ \/ /\ Holder(outbox[i].token) = "observation"
          /\ channel' = Append(channel, outbox[i])
          /\ UNCHANGED reply
       \/ /\ Holder(outbox[i].token) = "request"
          /\ reply' = IF reply = None /\ phase # "terminating" THEN outbox[i] ELSE reply
          /\ UNCHANGED channel
       \/ /\ Holder(outbox[i].token) = "nobody"
          /\ UNCHANGED <<channel, reply>>
    /\ UNCHANGED <<phase, outgoing, request, fetch, told, failed, resent, collided>>
    /\ Untouched

Lose(i) ==
    /\ Leaves(i)
    /\ outbox' = Without(outbox, i)
    /\ UNCHANGED <<inbox, clientVars>>
    /\ Untouched

Told(holder) == \E token \in DOMAIN outgoing : outgoing[token] = holder

\* fail: everybody who is registered is told, and removed.
TransportFails ==
    /\ ~failed
    /\ failed' = TRUE
    /\ channel' = IF Told("observation") THEN Append(channel, Error) ELSE channel
    /\ reply' = IF Told("request") /\ reply = None THEN Error ELSE reply
    /\ outgoing' = Nobody
    /\ outbox' = <<>>
    /\ UNCHANGED <<inbox, phase, request, fetch, told, resent, collided>>
    /\ Untouched

-----------------------------------------------------------------------------
RegisterRequest(block) ==
    [kind |-> "register", token |-> ObserveToken, block |-> block]

\* With the block size the application prefers, or without.
Preferred == {None} \cup [num : {0}, size : BlockSize]

\* The sender has been set and the registration sent.
ObservationInit ==
    /\ ServerInit
    /\ phase = "registering"
    /\ outgoing = [token \in {ObserveToken} |-> "observation"]
    /\ \E block \in Preferred : request = RegisterRequest(block)
    /\ resent = 0
    /\ inbox = {request}
    /\ channel = <<>> /\ reply = None /\ fetch = None
    /\ told = [tag |-> "none", about |-> 0]
    /\ failed = FALSE /\ collided = FALSE

FetchStep == FetchAnswered \/ FetchFails

Task == Registered \/ RegistrationFails \/ Notified \/ Lost \/ Terminated \/ FetchStep

Network ==
    \/ Resend
    \/ \E i \in 1 .. MaxQueue : Deliver(i) \/ Lose(i)
    \/ TransportFails

Ended == phase \in {"refused", "lost", "terminated"}

\* What the server does when nothing reaches the handler any more is left out.
Over == failed \/ Ended \/ phase = "dropped"

ObservationNext ==
    \/ ~Over /\ ServerStep /\ UNCHANGED clientVars
    \/ Task
    \/ Terminate
    \/ Dropped
    \/ ~Over /\ Network

ObservationSpec == ObservationInit /\ [][ObservationNext]_allVars

\* The runtime polls the task while it fetches, and its timers fire.
ObservationFairSpec == ObservationSpec /\ WF_allVars(FetchStep)
-----------------------------------------------------------------------------
\* What the handler is told of a notification is the whole payload the resource
\* had when that notification was made, though its blocks are cut from the state
\* that is newest when each is asked for, or from a response that is cached
\* (server.rs:345-358, client.rs:1075-1096).
ToldIsNotified ==
    told.tag = "ok" =>
      told.cells = Cells(history[told.about + 1], 0, history[told.about + 1])

\* With the UDP listener, and a network that keeps the order, the handler is
\* never told an older state after a newer one, fetches included.
ToldForwards ==
    [][transport = "udp" => told'.about >= told.about]_told

\* The task of an observation ends unasked only after the transport has failed,
\* and then the handler has been told so (client.rs:792), unless a fetch has
\* drawn the observation's own token and taken its place in the registry
\* (client.rs:898, 1212): then it ends without a word.
LostOnlyWithError ==
    phase = "lost" /\ ~collided => failed /\ told.tag = "error"

\* An observation that was refused, was terminated or has lost its channel
\* leaves nothing in the registry (client.rs:765-772, 790-803), whichever tokens
\* its fetches have drawn.  Not so one whose future was dropped: see Dropped.
NothingLeft == Ended => outgoing = Nobody

\* The acknowledgements of this library's client settle nothing at this
\* library's server (observer.rs:519, client.rs:214-220): the step that receives
\* one leaves every notification pending.
AckSettlesNothing ==
    [][\A q \in inbox \ inbox' :
          q.kind = "ack" => UNCHANGED unacknowledgeMessages]_allVars

\* A fetch ends, whatever becomes of its requests: meanwhile the task looks at
\* no notification and hears no Terminate.
FetchEnds == fetch # None ~> fetch = None
=============================================================================
