------------------------------- MODULE Edhoc -------------------------------
(***************************************************************************)
(* The EDHOC key exchange over CoAP (src/src/edhoc/mod.rs): initiators     *)
(* that run edhoc_initiate, and a responder whose handler tasks run        *)
(* process_edhoc_message on one EdhocResponderStore.                       *)
(*                                                                         *)
(* A request is confirmable, so it is sent again until it is answered, and *)
(* the server handles every copy in a task of its own: `requests' and      *)
(* `responses' are sets from which anything may be received at any time,   *)
(* any number of times, or never.  All requests of an initiator have the   *)
(* empty token, so any response that is on the way to it is taken for the  *)
(* answer to the request it waits with.                                    *)
(*                                                                         *)
(* The cryptography is external.  Every message_1 that is processed starts *)
(* a session of its own (the responder's ephemeral key is new), and a      *)
(* message is represented by the session it belongs to: it verifies in     *)
(* that session and in no other.                                           *)
(***************************************************************************)
EXTENDS Naturals, Functions

CONSTANTS
    Initiator,     \* runs of edhoc_initiate, each with its own client
    Trusted,       \* those whose credential the responder trusts
    ConnId,        \* connection identifiers: the one-byte CBOR integers
    Task,          \* tasks that handle message_3 at the same time
    None,
    TimePasses,    \* completed sessions may get older than their lifetime
    MaxSessions    \* bound of the model: sessions the responder starts

ASSUME EdhocAssumption ==
    /\ Trusted \subseteq Initiator
    /\ TimePasses \in BOOLEAN
    /\ MaxSessions \in Nat

VARIABLES
    phase,       \* of each initiator
    cI,          \* the identifier each initiator chose
    heard,       \* the message_2 each initiator has verified
    requests,    \* requests ever sent
    responses,   \* responses ever sent
    sessions,    \* number of sessions started
    pending,     \* C_R -> session that waits for message_3
    completed,   \* message_3 -> the message_4 it was answered with
    task,        \* what each task is doing
    served,      \* sessions whose message_3 has been verified
    refused,     \* sessions a message_3 of which found no pending session
    hooked       \* number of calls of the hook with given secrets

vars == <<phase, cI, heard, requests, responses, sessions, pending, completed,
          task, served, refused, hooked>>
initiatorVars == <<phase, cI, heard, requests>>
historyVars == <<served, refused, hooked>>

Session == 1 .. MaxSessions

Message1 == [type : {"message_1"}, from : Initiator, cI : ConnId]
Message3 == [type : {"message_3"}, from : Initiator, session : Session,
             cR : ConnId]
Message2 == [type : {"message_2"}, to : Initiator, session : Session,
             cR : ConnId]
Message4 == [type : {"message_4"}, to : Initiator, session : Session]
ErrorMessage == [type : {"error"}, to : Initiator]

PendingSession == [session : Session, cI : ConnId]

\* What the hook is given; the peer is the source of message_3.
Secrets == [peer : Initiator, session : Session, sender : ConnId,
            recipient : ConnId]

Working ==
    [pc : {"checked"}, request : Message3, pending : {None}] \cup
    [pc : {"taken", "completed", "notified"}, request : Message3,
     pending : PendingSession]

ASSUME NoneAssumption == None \notin Working \cup Message2

Bind(f, x, v) == [y \in DOMAIN f \cup {x} |-> IF y = x THEN v ELSE f[y]]
Unbind(f, x) == Restrict(f, DOMAIN f \ {x})

\* Task t has taken a session out of the table of pending ones.
Holds(t) == task[t] # None /\ task[t].pc # "checked"

Respond(m) == responses' = responses \cup {m}
Error(i) == [type |-> "error", to |-> i]

-----------------------------------------------------------------------------
(* The initiator: edhoc_initiate.                                          *)

SendMessage1(i, c) ==
    /\ phase[i] = "start"
    /\ phase' = [phase EXCEPT ![i] = "sent1"]
    /\ cI' = [cI EXCEPT ![i] = c]
    /\ requests' = requests \cup {[type |-> "message_1", from |-> i, cI |-> c]}
    /\ UNCHANGED <<heard, responses, sessions, pending, completed, task, historyVars>>

\* A response with another status than Changed carries an error.
ExpectChanged(m) == m.type # "error"

\* The first response: anything but a message_2 ends the exchange.
ReceiveMessage2(i, m) ==
    /\ phase[i] = "sent1"
    /\ m \in responses /\ m.to = i
    /\ IF ExpectChanged(m) /\ m.type = "message_2"
       THEN /\ phase' = [phase EXCEPT ![i] = "sent3"]
            /\ heard' = [heard EXCEPT ![i] = m]
            /\ requests' = requests \cup
                 {[type |-> "message_3", from |-> i, session |-> m.session, cR |-> m.cR]}
       ELSE /\ phase' = [phase EXCEPT ![i] = "failed"]
            /\ UNCHANGED <<heard, requests>>
    /\ UNCHANGED <<cI, responses, sessions, pending, completed, task, historyVars>>

\* Mutant of ProcessMessage4: the status of the response is all that counts.
AnyChangedResponse(i, m) == m.type \in {"message_2", "message_4"}

\* process_message_4 succeeds with the message_4 of the same session.
ProcessMessage4(i, m) ==
    ExpectChanged(m) /\ m.type = "message_4" /\ m.session = heard[i].session

ReceiveMessage4(i, m) ==
    /\ phase[i] = "sent3"
    /\ m \in responses /\ m.to = i
    /\ phase' = [phase EXCEPT ![i] =
                   IF ProcessMessage4(i, m) THEN "established" ELSE "failed"]
    /\ UNCHANGED <<cI, heard, requests, responses, sessions, pending, completed,
                   task, historyVars>>

\* All attempts to send a request have timed out.
SendFails(i) ==
    /\ phase[i] \in {"sent1", "sent3"}
    /\ phase' = [phase EXCEPT ![i] = "failed"]
    /\ UNCHANGED <<cI, heard, requests, responses, sessions, pending, completed,
                   task, historyVars>>

-----------------------------------------------------------------------------
(* The responder.                                                          *)

\* Mutant of Free: identifiers of pending sessions are not left out.
NotOwn(c) == ConnId \ {c}

\* allocate_connection_identifier chooses among these.
Free(c) == ConnId \ (DOMAIN pending \cup {c})

\* process_message_1; the choice of C_R and the insertion are under one lock.
ProcessMessage1(q) ==
    /\ q \in requests /\ q.type = "message_1"
    /\ IF Free(q.cI) = {}
       THEN Respond(Error(q.from)) /\ UNCHANGED <<sessions, pending>>
       ELSE /\ sessions < MaxSessions
            /\ sessions' = sessions + 1
            /\ \E c \in Free(q.cI) :
                 /\ pending' = Bind(pending, c, [session |-> sessions', cI |-> q.cI])
                 /\ Respond([type |-> "message_2", to |-> q.from,
                             session |-> sessions', cR |-> c])
    /\ UNCHANGED <<initiatorVars, completed, task, historyVars>>

\* process_message_3, first lock: old sessions are forgotten, and a copy of a
\* message_3 that has been processed is answered as that one was.
CheckCompleted(t, q) ==
    /\ task[t] = None
    /\ q \in requests /\ q.type = "message_3"
    /\ \E old \in SUBSET DOMAIN completed :
         /\ old = {} \/ TimePasses
         /\ completed' = Restrict(completed, DOMAIN completed \ old)
    /\ IF q \in DOMAIN completed'
       THEN Respond(completed'[q]) /\ UNCHANGED task
       ELSE /\ task' = [task EXCEPT ![t] =
                          [pc |-> "checked", request |-> q, pending |-> None]]
            /\ UNCHANGED responses
    /\ UNCHANGED <<initiatorVars, sessions, pending, historyVars>>

\* Mutant of RemovePending: the session is read and stays.
ReadPending(c) == UNCHANGED pending

RemovePending(c) == pending' = Unbind(pending, c)

\* Second lock: the session leaves the table, whatever becomes of it.
TakePending(t) ==
    LET q == task[t].request IN
    /\ task[t] # None /\ task[t].pc = "checked"
    /\ IF q.cR \in DOMAIN pending
       THEN /\ task' = [task EXCEPT ![t] =
                          [pc |-> "taken", request |-> q, pending |-> pending[q.cR]]]
            /\ RemovePending(q.cR)
            /\ UNCHANGED <<responses, refused>>
       ELSE /\ task' = [task EXCEPT ![t] = None]
            /\ refused' = refused \cup {q.session}
            /\ Respond(Error(q.from))
            /\ UNCHANGED pending
    /\ UNCHANGED <<initiatorVars, sessions, completed, served, hooked>>

\* EdhocCredentialStore: the store has the credential of a trusted initiator.
Lookup(i) == i \in Trusted

\* Mutant of Verifies: the credential is looked up, the message not verified.
VerifiesCredential(q, s) == Lookup(q.from)

\* parse_message_3, the credential store and verify_message_3.
Verifies(q, s) == q.session = s.session /\ Lookup(q.from)

\* Mutant of Remember: completed sessions are not remembered.
Forget(q) == UNCHANGED completed

\* Mutant of Remember: the request is kept where its answer should be.
RememberRequest(q) == completed' = Bind(completed, q, q)

Remember(q) ==
    completed' = Bind(completed, q,
                      [type |-> "message_4", to |-> q.from, session |-> q.session])

\* Third lock, once the message is verified; a session that fails is gone.
Verify(t) ==
    LET q == task[t].request
        s == task[t].pending
    IN /\ task[t] # None /\ task[t].pc = "taken"
       /\ IF Verifies(q, s)
          THEN /\ Remember(q)
               /\ task' = [task EXCEPT ![t].pc = "completed"]
               /\ served' = served \cup {s.session}
               /\ UNCHANGED responses
          ELSE /\ task' = [task EXCEPT ![t] = None]
               /\ Respond(Error(q.from))
               /\ UNCHANGED <<completed, served>>
       /\ UNCHANGED <<initiatorVars, sessions, pending, refused, hooked>>

\* Mutant of SecretsOf: sender and recipient as on the initiator's side.
SwappedSecretsOf(q, s) ==
    [peer |-> q.from, session |-> s.session, sender |-> q.cR, recipient |-> s.cI]

\* The responder's sender id is C_I, its recipient id C_R.
SecretsOf(q, s) ==
    [peer |-> q.from, session |-> s.session, sender |-> s.cI, recipient |-> q.cR]

\* The hook is called ...
Notify(t) ==
    /\ task[t] # None /\ task[t].pc = "completed"
    /\ LET h == SecretsOf(task[t].request, task[t].pending) IN
       hooked' = Bind(hooked, h, IF h \in DOMAIN hooked THEN hooked[h] + 1 ELSE 1)
    /\ task' = [task EXCEPT ![t].pc = "notified"]
    /\ UNCHANGED <<initiatorVars, responses, sessions, pending, completed,
                   served, refused>>

\* ... and message_4 is sent when it has returned.
Answer(t) ==
    LET q == task[t].request IN
    /\ task[t] # None /\ task[t].pc = "notified"
    /\ Respond([type |-> "message_4", to |-> q.from, session |-> q.session])
    /\ task' = [task EXCEPT ![t] = None]
    /\ UNCHANGED <<initiatorVars, sessions, pending, completed, historyVars>>
-----------------------------------------------------------------------------
Init ==
    /\ phase = [i \in Initiator |-> "start"]
    /\ cI = [i \in Initiator |-> None]
    /\ heard = [i \in Initiator |-> None]
    /\ requests = {}
    /\ responses = {}
    /\ sessions = 0
    /\ pending = [c \in {} |-> None]
    /\ completed = [q \in {} |-> None]
    /\ task = [t \in Task |-> None]
    /\ served = {}
    /\ refused = {}
    /\ hooked = [h \in {} |-> 0]

InitiatorStep(i) ==
    \/ \E c \in ConnId : SendMessage1(i, c)
    \/ \E m \in responses : ReceiveMessage2(i, m) \/ ReceiveMessage4(i, m)
    \/ SendFails(i)

Receive ==
    \E q \in requests :
       \/ ProcessMessage1(q)
       \/ \E t \in Task : CheckCompleted(t, q)

\* What a task does once it has checked the completed sessions.
TaskStep(t) == TakePending(t) \/ Verify(t) \/ Notify(t) \/ Answer(t)

Next ==
    \/ \E i \in Initiator : InitiatorStep(i)
    \/ Receive
    \/ \E t \in Task : TaskStep(t)

Spec == Init /\ [][Next]_vars

\* Tasks run, and the hook returns; the network and the initiators owe nothing.
FairSpec == Spec /\ \A t \in Task : WF_vars(TaskStep(t))

-----------------------------------------------------------------------------
TypeOK ==
    /\ phase \in [Initiator -> {"start", "sent1", "sent3", "established", "failed"}]
    /\ cI \in [Initiator -> ConnId \cup {None}]
    /\ heard \in [Initiator -> Message2 \cup {None}]
    /\ requests \subseteq Message1 \cup Message3
    /\ responses \subseteq Message2 \cup Message4 \cup ErrorMessage
    /\ sessions \in 0 .. MaxSessions
    /\ pending \in [DOMAIN pending -> PendingSession]
    /\ DOMAIN pending \subseteq ConnId
    /\ completed \in [DOMAIN completed -> Message4]
    /\ DOMAIN completed \subseteq Message3
    /\ task \in [Task -> Working \cup {None}]
    /\ served \subseteq Session
    /\ refused \subseteq Session
    /\ hooked \in [DOMAIN hooked -> Nat]
    /\ DOMAIN hooked \subseteq Secrets

\* The secrets initiator i returns, from the other side of the session.
PeerSecrets(i) ==
    [peer |-> i, session |-> heard[i].session, sender |-> cI[i],
     recipient |-> heard[i].cR]

\* Both sides of a session hold the same identifiers, crossed: whatever the
\* hook is given is what the initiator of that session, if it finishes, has;
\* and only a trusted initiator that sent message_3 for it gets that far.
SecretsAgree ==
    \A h \in DOMAIN hooked :
       /\ h.peer \in Trusted
       /\ heard[h.peer] # None
       /\ h = PeerSecrets(h.peer)

\* When an initiator is done the responder has verified its message_3: a late
\* message_2, which has the same empty token, is not taken for message_4.
KeyConfirmed ==
    \A i \in Initiator :
       phase[i] = "established" => heard[i].session \in served

\* The hook is called once for a session, however often and in parallel its
\* message_3 is handled and after its message_4 has been forgotten.
HookOnce ==
    /\ \A h \in DOMAIN hooked : hooked[h] = 1
    /\ \A g, h \in DOMAIN hooked : g.session = h.session => g = h

\* The two identifiers of a session differ (RFC 9528, 3.3.2), so the two
\* directions of an OSCORE context do.
IdentifiersDiffer ==
    \A h \in DOMAIN hooked : h.sender # h.recipient

\* A new session never takes the place of a pending one; a pending session
\* leaves the table only with a task that handles a message_3 for its C_R.
PendingOnlyTaken ==
    [][\A c \in DOMAIN pending :
          \/ c \in DOMAIN pending' /\ pending'[c] = pending[c]
          \/ /\ c \notin DOMAIN pending'
             /\ \E t \in Task : /\ task'[t] # None
                                /\ task'[t].request.cR = c
                                /\ task'[t].pending = pending[c]]_vars

\* When an initiator is done the hook is called at some time with the secrets
\* of its session, though message_4 may reach it before that: the copy of a
\* message_3 is answered while the hook is still to be called.
HookTold ==
    \A i \in Initiator :
       phase[i] = "established" ~>
         heard[i] # None /\ PeerSecrets(i) \in DOMAIN hooked

\* "a retransmitted message_3 ... is answered with the same message_4 again
\* instead of failing" (edhoc/mod.rs:415-417): no message_3 of a session that
\* has been served was refused for want of a pending session.
DuplicateAnswered == refused \cap served = {}

\* A message_3 takes the pending session it belongs to, never that of another
\* exchange that was given the same C_R later.
TakesOwnSession ==
    \A t \in Task :
       Holds(t) => task[t].pending.session = task[t].request.session

-----------------------------------------------------------------------------
(* What the safety properties rest on.                                     *)

\* What an initiator has sent is what it remembers, and it remembers a
\* message_2 only once it has accepted one.
RequestsAgree ==
    /\ \A q \in requests :
         /\ phase[q.from] # "start"
         /\ q.type = "message_1" => q.cI = cI[q.from]
         /\ q.type = "message_3" => /\ phase[q.from] # "sent1"
                                    /\ heard[q.from] # None
                                    /\ q.session = heard[q.from].session
                                    /\ q.cR = heard[q.from].cR
    /\ \A i \in Initiator :
         /\ phase[i] \in {"start", "sent1"} => heard[i] = None
         /\ heard[i] # None => heard[i] \in responses /\ heard[i].to = i

\* A session has one message_2, and a message_4 only if it has been served.
ResponsesAgree ==
    /\ \A m \in responses :
         /\ m.type = "message_2" => m.session <= sessions /\ phase[m.to] # "start"
         /\ m.type = "message_4" => m.session \in served
    /\ \A m, n \in responses :
         m.type = "message_2" /\ n.type = "message_2" /\ m.session = n.session
           => m = n

\* Session s was started with identifier c, in answer to a message_1.
Started(s, c) ==
    /\ c # s.cI
    /\ \E m \in responses : /\ m.type = "message_2" /\ m.session = s.session
                            /\ m.cR = c /\ cI[m.to] = s.cI

SessionsStarted ==
    /\ \A c \in DOMAIN pending : Started(pending[c], c)
    /\ \A t \in Task : Holds(t) => Started(task[t].pending, task[t].request.cR)

\* What a task has verified belongs together.
TasksAgree ==
    /\ \A t \in Task : task[t] # None =>
         /\ task[t].request \in requests
         /\ task[t].pc \in {"completed", "notified"} =>
              /\ Verifies(task[t].request, task[t].pending)
              /\ task[t].pending.session \in served
    /\ \A q \in DOMAIN completed : completed[q].session \in served

\* Session s is neither pending nor held by a task that has still to call the
\* hook.
Passed(s) ==
    /\ \A c \in DOMAIN pending : pending[c].session # s
    /\ \A t \in Task : Holds(t) /\ task[t].pc # "notified"
                         => task[t].pending.session # s

\* A session is in one place at a time.
OnePlace ==
    /\ \A c, d \in DOMAIN pending : pending[c].session = pending[d].session => c = d
    /\ \A t \in Task, c \in DOMAIN pending :
         Holds(t) => task[t].pending.session # pending[c].session
    /\ \A t, u \in Task :
         Holds(t) /\ Holds(u) /\ task[t].pending.session = task[u].pending.session
           => t = u
    /\ \A h \in DOMAIN hooked : Passed(h.session)

\* With one task, and no expiry, a session that has been served is remembered
\* by its message_3, and no task has begun to handle that message anew.
ServedRemembered ==
    /\ DOMAIN completed \subseteq requests
    /\ \A s \in served : \E q \in DOMAIN completed : q.session = s
    /\ \A t \in Task : task[t] # None /\ task[t].pc \in {"checked", "taken"}
                         => task[t].request \notin DOMAIN completed

\* A session that was refused is nowhere, and comes to nothing.
RefusedGone ==
    \A s \in refused :
       /\ s <= sessions /\ s \notin served
       /\ \A c \in DOMAIN pending : pending[c].session # s
       /\ \A t \in Task : Holds(t) => task[t].pending.session # s

\* A session that was announced is pending under its C_R, in the hands of a
\* task, or served; so it is when every initiator is trusted.
SessionsPlaced ==
    \A m \in responses : m.type = "message_2" =>
       \/ m.cR \in DOMAIN pending /\ pending[m.cR].session = m.session
       \/ \E t \in Task : Holds(t) /\ task[t].pending.session = m.session
       \/ m.session \in served

IInv == /\ TypeOK
        /\ RequestsAgree
        /\ ResponsesAgree
        /\ SessionsStarted
        /\ TasksAgree
        /\ OnePlace
        /\ SecretsAgree
        /\ HookOnce
        /\ IdentifiersDiffer
=============================================================================
