-------------------------- MODULE ClientTransport --------------------------
(***************************************************************************)
(* How concurrent requests of one client share a transport                 *)
(* (src/src/client.rs:73-336, 372-406, 548-571): the registry that maps a  *)
(* token to the channel of the task that waits for it, the receive loop    *)
(* that hands packets to those channels, the attempts of a request, and    *)
(* the failure of the transport.                                           *)
(*                                                                         *)
(* An action is what a task does between two points where another may run: *)
(* one lock of the registry or of the error, one send or receive of the    *)
(* transport, one poll of a channel.                                       *)
(*                                                                         *)
(* The network and the server are external: whatever has been sent may be  *)
(* answered at any later time, any number of times, in any order, or       *)
(* never.  An answer is represented by the task whose request it answers;  *)
(* it carries the token of that request.                                   *)
(***************************************************************************)
EXTENDS Naturals, Sequences, Functions

CONSTANTS
    Request,      \* tasks that run do_request_response_for_packet
    Receiver,     \* holders of a MessageReceiver
    Confirmable,  \* the requests that are confirmable
    TokenOf,      \* the token of each task's request
    Retries,      \* attempts of a confirmable request
    Error,        \* an Err(_) in a channel or as a result
    None,
    MaxQueue      \* bound of the model: packets waiting in a channel

Task == Request \cup Receiver
Token == {TokenOf[t] : t \in Task}

ASSUME ClientTransportAssumption ==
    /\ Request \cap Receiver = {}
    /\ Confirmable \subseteq Request
    /\ DOMAIN TokenOf = Task
    /\ Retries \in Nat
    /\ Error \notin Task
    /\ None \notin Task \cup {Error}
    /\ MaxQueue \in Nat

VARIABLES
    outgoing,   \* Token -> task whose sender is registered
    failError,  \* fail_error is set
    channel,    \* the channel of each task
    pc,
    attempts,   \* times a request has been sent
    result,     \* what the task was given last
    loop,       \* the receive loop
    packet,     \* the answer it is working on
    sender,     \* the sender it has cloned, by its task
    client      \* a handle on the client, hence the transport, exists

vars == <<outgoing, failError, channel, pc, attempts, result, loop, packet,
          sender, client>>
loopVars == <<loop, packet, sender>>

Bind(f, x, v) == [y \in DOMAIN f \cup {x} |-> IF y = x THEN v ELSE f[y]]
Unbind(f, x) == Restrict(f, DOMAIN f \ {x})

\* The receiving end of t's channel exists.
Open(t) == pc[t] \in {"start", "checked", "registered", "waiting", "finished"}

\* t's request has been sent, so it may be answered.  What is sent for a
\* MessageReceiver goes around the registry, by a multicast for instance.
Sent(t) == IF t \in Request THEN attempts[t] > 0
                            ELSE pc[t] \notin {"start", "checked"}

Push(t, x) == [channel EXCEPT ![t] = Append(@, x)]

Goto(t, label) == pc' = [pc EXCEPT ![t] = label]

-----------------------------------------------------------------------------
(* set_sender: two locks, so two steps.                                    *)

\* check_for_error: after a failure the error is the first thing in the
\* channel and nothing is registered.
CheckForError(t) ==
    /\ pc[t] = "start" /\ client
    /\ IF failError
       THEN channel' = Push(t, Error) /\ Goto(t, "registered")
       ELSE UNCHANGED channel /\ Goto(t, "checked")
    /\ UNCHANGED <<outgoing, failError, attempts, result, loopVars, client>>

\* The sender that was registered under the same token is dropped.
Insert(t) ==
    /\ pc[t] = "checked"
    /\ outgoing' = Bind(outgoing, TokenOf[t], t)
    /\ Goto(t, "registered")
    /\ UNCHANGED <<failError, channel, attempts, result, loopVars, client>>

\* remove_sender: whoever is registered under the token goes.
SenderKept(t) == UNCHANGED outgoing   \* mutant: the sender stays registered
RemoveSender(t) == outgoing' = Unbind(outgoing, TokenOf[t])

-----------------------------------------------------------------------------
(* A request: do_request_response_for_packet.                              *)

\* A request that is not confirmable is sent once.
Limit(r) == IF r \in Confirmable THEN Retries ELSE 1

\* Mutant of Send: one attempt too many.
SendOnceMore(r) ==
    /\ pc[r] = "registered"
    /\ attempts[r] <= Limit(r)
    /\ attempts' = [attempts EXCEPT ![r] = @ + 1]
    /\ Goto(r, "waiting")
    /\ UNCHANGED <<outgoing, failError, channel, result, loopVars, client>>

\* An attempt is sent ...
Send(r) ==
    /\ pc[r] = "registered"
    /\ attempts[r] < Limit(r)
    /\ attempts' = [attempts EXCEPT ![r] = @ + 1]
    /\ Goto(r, "waiting")
    /\ UNCHANGED <<outgoing, failError, channel, result, loopVars, client>>

\* ... or the transport refuses it, which counts as an attempt and leaves the
\* channel alone.
SendFails(r) ==
    /\ pc[r] = "registered"
    /\ attempts[r] < Limit(r)
    /\ attempts' = [attempts EXCEPT ![r] = @ + 1]
    /\ UNCHANGED <<outgoing, failError, channel, pc, result, loopVars, client>>

\* Mutant of Take: an error ends the request too.
TakeAny(r) ==
    /\ pc[r] = "waiting"
    /\ channel[r] # <<>>
    /\ channel' = [channel EXCEPT ![r] = Tail(@)]
    /\ Goto(r, "finished")
    /\ result' = [result EXCEPT ![r] = Head(channel[r])]
    /\ UNCHANGED <<outgoing, failError, attempts, loopVars, client>>

\* An answer ends the request, an error only the attempt.
Take(r) ==
    /\ pc[r] = "waiting"
    /\ channel[r] # <<>>
    /\ channel' = [channel EXCEPT ![r] = Tail(@)]
    /\ IF Head(channel[r]) = Error
       THEN Goto(r, "registered") /\ UNCHANGED result
       ELSE /\ Goto(r, "finished")
            /\ result' = [result EXCEPT ![r] = Head(channel[r])]
    /\ UNCHANGED <<outgoing, failError, attempts, loopVars, client>>

\* Mutant of AttemptFails: the timer is left out.
AttemptFailsClosed(r) ==
    /\ pc[r] = "waiting"
    /\ channel[r] = <<>>
    /\ r \notin Range(outgoing) /\ sender # r
    /\ Goto(r, "registered")
    /\ UNCHANGED <<outgoing, failError, channel, attempts, result, loopVars, client>>

\* Nothing is in the channel and either the time of the attempt is over or no
\* sender is left, which is taken for the same.
AttemptFails(r) ==
    /\ pc[r] = "waiting"
    /\ channel[r] = <<>>
    /\ Goto(r, "registered")
    /\ UNCHANGED <<outgoing, failError, channel, attempts, result, loopVars, client>>

\* No attempt is left.
GiveUp(r) ==
    /\ pc[r] = "registered"
    /\ attempts[r] >= Limit(r)
    /\ result' = [result EXCEPT ![r] = Error]
    /\ Goto(r, "finished")
    /\ UNCHANGED <<outgoing, failError, channel, attempts, loopVars, client>>

Finish(r) ==
    /\ pc[r] = "finished"
    /\ RemoveSender(r)
    /\ Goto(r, "done")
    /\ UNCHANGED <<failError, channel, attempts, result, loopVars, client>>

\* The caller drops the future (a timeout of its own, say): nothing is removed
\* from the registry.
Cancel(r) ==
    /\ pc[r] \in {"checked", "registered", "waiting", "finished"}
    /\ Goto(r, "cancelled")
    /\ UNCHANGED <<outgoing, failError, channel, attempts, result, loopVars, client>>

-----------------------------------------------------------------------------
(* A MessageReceiver, after create_receiver_for.                           *)

ReceiveNext(v) ==
    /\ pc[v] = "registered"
    /\ channel[v] # <<>>
    /\ result' = [result EXCEPT ![v] = Head(channel[v])]
    /\ channel' = [channel EXCEPT ![v] = Tail(@)]
    /\ UNCHANGED <<outgoing, failError, pc, attempts, loopVars, client>>

\* No sender is left: neither in the registry nor in the receive loop.
ReceiveClosed(v) ==
    /\ pc[v] = "registered"
    /\ channel[v] = <<>>
    /\ v \notin Range(outgoing) /\ sender # v
    /\ result' = [result EXCEPT ![v] = Error]
    /\ UNCHANGED <<outgoing, failError, channel, pc, attempts, loopVars, client>>

\* Drop spawns a task that will remove the sender.
Drop(v) ==
    /\ pc[v] = "registered"
    /\ Goto(v, "dropped")
    /\ UNCHANGED <<outgoing, failError, channel, attempts, result, loopVars, client>>

RemoveDropped(v) ==
    /\ pc[v] = "dropped"
    /\ RemoveSender(v)
    /\ Goto(v, "done")
    /\ UNCHANGED <<failError, channel, attempts, result, loopVars, client>>

-----------------------------------------------------------------------------
(* receive_loop.                                                           *)

\* A packet arrives; if it is confirmable the acknowledgement is sent.
Receive(t) ==
    /\ loop = "receiving"
    /\ Sent(t)
    /\ \A u \in Task : Len(channel[u]) < MaxQueue
    /\ packet' = t
    /\ loop' = "dispatching"
    /\ UNCHANGED <<outgoing, failError, channel, pc, attempts, result, sender, client>>

\* The acknowledgement cannot be sent: the loop returns, and tells nobody.
AckFails(t) ==
    /\ loop = "receiving"
    /\ Sent(t)
    /\ loop' = "stopped"
    /\ UNCHANGED <<outgoing, failError, channel, pc, attempts, result, packet,
                   sender, client>>

\* Mutant of GetSender: a packet with an unknown token goes to whoever waits.
GetAnySender ==
    /\ loop = "dispatching"
    /\ IF DOMAIN outgoing # {}
       THEN /\ sender' \in Range(outgoing)
            /\ TokenOf[packet] \in DOMAIN outgoing => sender' = outgoing[TokenOf[packet]]
            /\ loop' = "delivering" /\ UNCHANGED packet
       ELSE packet' = None /\ loop' = "receiving" /\ UNCHANGED sender
    /\ UNCHANGED <<outgoing, failError, channel, pc, attempts, result, client>>

\* Mutant of GetSender: the sender is taken out of the registry.
TakeSender ==
    /\ loop = "dispatching"
    /\ IF TokenOf[packet] \in DOMAIN outgoing
       THEN /\ sender' = outgoing[TokenOf[packet]] /\ loop' = "delivering"
            /\ RemoveSender(packet) /\ UNCHANGED packet
       ELSE packet' = None /\ loop' = "receiving" /\ UNCHANGED <<outgoing, sender>>
    /\ UNCHANGED <<failError, channel, pc, attempts, result, client>>

\* get_sender, under the lock of the registry.
GetSender ==
    /\ loop = "dispatching"
    /\ IF TokenOf[packet] \in DOMAIN outgoing
       THEN sender' = outgoing[TokenOf[packet]] /\ loop' = "delivering" /\ UNCHANGED packet
       ELSE packet' = None /\ loop' = "receiving" /\ UNCHANGED sender
    /\ UNCHANGED <<outgoing, failError, channel, pc, attempts, result, client>>

\* The clone of the sender is used after the lock is released.
Deliver ==
    /\ loop = "delivering"
    /\ channel' = IF Open(sender) THEN Push(sender, packet) ELSE channel
    /\ sender' = None /\ packet' = None
    /\ loop' = "receiving"
    /\ UNCHANGED <<outgoing, failError, pc, attempts, result, client>>

\* recv of the transport fails: fail sets the error under its own lock ...
SetError ==
    /\ loop = "receiving"
    /\ failError' = TRUE
    /\ loop' = "failing"
    /\ UNCHANGED <<outgoing, channel, pc, attempts, result, packet, sender, client>>

\* ... and then sends it to every registered sender and removes them all.
FailAll ==
    /\ loop = "failing"
    /\ channel' = [t \in Task |-> IF t \in Range(outgoing) /\ Open(t)
                                  THEN Append(channel[t], Error)
                                  ELSE channel[t]]
    /\ outgoing' = [x \in {} |-> None]
    /\ loop' = "stopped"
    /\ UNCHANGED <<failError, pc, attempts, result, packet, sender, client>>

\* The last handle on the client goes: no request of it runs any more, but a
\* MessageReceiver holds only the registry and stays.
DropClient ==
    /\ client
    /\ \A r \in Request : pc[r] \in {"start", "done", "cancelled"}
    /\ \A v \in Receiver : pc[v] # "checked"
    /\ client' = FALSE
    /\ UNCHANGED <<outgoing, failError, channel, pc, attempts, result, loopVars>>

UpgradeFails ==
    /\ loop = "receiving"
    /\ ~client
    /\ loop' = "stopped"
    /\ UNCHANGED <<outgoing, failError, channel, pc, attempts, result, packet,
                   sender, client>>

-----------------------------------------------------------------------------
Init ==
    /\ outgoing = [x \in {} |-> None]
    /\ failError = FALSE
    /\ channel = [t \in Task |-> <<>>]
    /\ pc = [t \in Task |-> "start"]
    /\ attempts = [r \in Request |-> 0]
    /\ result = [t \in Task |-> None]
    /\ loop = "receiving"
    /\ packet = None
    /\ sender = None
    /\ client = TRUE

\* What a request that has been started does on its own, whatever the network
\* does.
RequestStep(r) ==
    \/ Insert(r) \/ Send(r) \/ SendFails(r)
    \/ Take(r) \/ AttemptFails(r) \/ GiveUp(r) \/ Finish(r)

ReceiverStep(v) ==
    \/ Insert(v) \/ ReceiveNext(v) \/ ReceiveClosed(v) \/ RemoveDropped(v)

LoopStep == GetSender \/ Deliver \/ FailAll \/ UpgradeFails

\* What callers, the network and the operating system may do, or not: start
\* and abandon requests, lose packets, fail.
Environment ==
    \/ \E t \in Task : CheckForError(t)
    \/ \E r \in Request : Cancel(r)
    \/ \E v \in Receiver : Drop(v)
    \/ \E t \in Task : Receive(t) \/ AckFails(t)
    \/ SetError
    \/ DropClient

Next ==
    \/ \E r \in Request : RequestStep(r)
    \/ \E v \in Receiver : ReceiverStep(v)
    \/ LoopStep
    \/ Environment

Spec == Init /\ [][Next]_vars

\* The runtime polls every task that can go on; timers fire.
Fairness ==
    /\ \A r \in Request : WF_vars(RequestStep(r))
    /\ \A v \in Receiver : WF_vars(ReceiverStep(v))
    /\ WF_vars(LoopStep)

FairSpec == Spec /\ Fairness

-----------------------------------------------------------------------------
\* Types; a request is never sent more often than its limit.
TypeOK ==
    /\ outgoing \in [DOMAIN outgoing -> Task]
    /\ DOMAIN outgoing \subseteq Token
    /\ failError \in BOOLEAN
    /\ channel \in [Task -> Seq(Task \cup {Error})]
    /\ pc \in [Task -> {"start", "checked", "registered", "waiting", "finished",
                        "done", "dropped", "cancelled"}]
    /\ attempts \in [Request -> Nat]
    /\ \A r \in Request : attempts[r] <= Limit(r)
    /\ result \in [Task -> Task \cup {Error, None}]
    /\ loop \in {"receiving", "dispatching", "delivering", "failing", "stopped"}
    /\ packet \in Task \cup {None}
    /\ loop \in {"dispatching", "delivering"} => packet \in Task
    /\ sender \in Task \cup {None}
    /\ loop = "delivering" => sender \in Task
    /\ client \in BOOLEAN

\* A task is given answers to its own request only.
OwnAnswer == \A t \in Task : result[t] \in {t, Error, None}

\* Nobody else uses the token of t.
Alone(t) == \A u \in Task \ {t} : TokenOf[u] # TokenOf[t]

\* The same of a task with a token of its own, whatever tokens others share.
UnsharedOwnAnswer == \A t \in Task : Alone(t) => result[t] \in {t, Error, None}

\* The registry holds no sender of a task that has ended by itself.
NoStaleSender ==
    \A k \in DOMAIN outgoing :
       /\ TokenOf[outgoing[k]] = k
       /\ pc[outgoing[k]] \notin {"start", "checked", "done"}

\* While a request with a token of its own runs its sender is registered,
\* unless the transport failed.
StaysRegistered ==
    \A t \in Task :
       Alone(t) /\ pc[t] \in {"registered", "waiting", "finished"} /\ ~failError =>
         TokenOf[t] \in DOMAIN outgoing /\ outgoing[TokenOf[t]] = t

\* What the properties above rest on: a sender is registered under the token
\* of its task, an answer travels only to a task with its token, and the
\* registry is emptied only after the error has been set.
TokensAgree ==
    /\ \A k \in DOMAIN outgoing : TokenOf[outgoing[k]] = k
    /\ loop = "delivering" => TokenOf[packet] = TokenOf[sender]
    /\ \A t \in Task : \A n \in 1 .. Len(channel[t]) :
         channel[t][n] # Error => TokenOf[channel[t][n]] = TokenOf[t]

FailingIsKnown == loop = "failing" => failError

\* An answer under way is one to something that has been sent.
AnswersSent ==
    /\ packet # None => Sent(packet)
    /\ \A t \in Task : \A n \in 1 .. Len(channel[t]) :
         channel[t][n] # Error => Sent(channel[t][n])

\* What a user of the transport sees of a task.
Phase(label) ==
    CASE label \in {"start", "checked"}      -> "idle"
      [] label \in {"registered", "waiting"} -> "open"
      [] label = "finished"                  -> "answered"
      [] OTHER                               -> "left"

View == [t \in Task |-> Phase(pc[t])]

Promised == INSTANCE RequestReply
    WITH Caller <- Request, Listener <- Receiver, LabelOf <- TokenOf,
         Tries <- [r \in Request |-> Limit(r)], Err <- Error, Nothing <- None,
         phase <- View, tries <- attempts, reply <- result

\* The registry, the channels and the receive loop keep the promise of
\* RequestReply: a request ends once, with an answer to something sent under
\* its token or with an error after its last attempt, and never else.
KeepsPromise == Promised!Spec

\* A request ends, with an answer or an error, whatever the network and the
\* other tasks do, also after the receive loop has stopped.
RequestEnds ==
    \A r \in Request :
       pc[r] = "registered" ~> pc[r] \in {"done", "cancelled"}

\* "all handles should fail now because of the error" (client.rs:2197), and
\* "failed transport should make all other requests fail" (client.rs:2206):
\* once fail has run nobody is left in the registry who was not told.
FailureToldToAll == failError /\ loop = "stopped" => DOMAIN outgoing = {}
=============================================================================
