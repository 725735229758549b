---------------------------- MODULE RequestReply ----------------------------
(***************************************************************************)
(* What the transport of a client promises to its users                    *)
(* (src/src/client.rs:73-336, 372-406), without registry, channels or      *)
(* receive loop.  A caller's request is tried a limited number of times    *)
(* and ends once: with an answer to something that has been tried under    *)
(* the same label, or with an error when no try is left.  A listener takes *)
(* any number of answers and errors.  Everybody may leave at any time.     *)
(***************************************************************************)
EXTENDS Naturals

CONSTANTS
    Caller,     \* users with a request
    Listener,   \* users that only listen
    LabelOf,    \* what an answer is recognised by
    Tries,      \* how often a caller's request may be tried
    Err,        \* an error in place of an answer
    Nothing

User == Caller \cup Listener

VARIABLES phase, tries, reply

state == <<phase, tries, reply>>

\* An answer is known by the user it answers.  What a listener waits for is
\* asked for by others.
Asked(u) == IF u \in Caller THEN tries[u] > 0 ELSE phase[u] # "idle"

\* A caller's request ends with what it is given; a listener goes on.
Give(u, x) ==
    /\ phase[u] = "open"
    /\ reply' = [reply EXCEPT ![u] = x]
    /\ phase' = IF u \in Caller THEN [phase EXCEPT ![u] = "answered"] ELSE phase
    /\ UNCHANGED tries

Start(u) ==
    /\ phase[u] = "idle"
    /\ phase' = [phase EXCEPT ![u] = "open"]
    /\ UNCHANGED <<tries, reply>>

Try(c) ==
    /\ phase[c] = "open"
    /\ tries[c] < Tries[c]
    /\ tries' = [tries EXCEPT ![c] = @ + 1]
    /\ UNCHANGED <<phase, reply>>

Answer(u) ==
    \E x \in User : Asked(x) /\ LabelOf[x] = LabelOf[u] /\ Give(u, x)

Fail(u) ==
    /\ u \in Caller => tries[u] >= Tries[u]
    /\ Give(u, Err)

Leave(u) ==
    /\ phase[u] # "left"
    /\ phase' = [phase EXCEPT ![u] = "left"]
    /\ UNCHANGED <<tries, reply>>

Init ==
    /\ phase = [u \in User |-> "idle"]
    /\ tries = [c \in Caller |-> 0]
    /\ reply = [u \in User |-> Nothing]

Next ==
    \/ \E u \in User : Start(u) \/ Answer(u) \/ Fail(u) \/ Leave(u)
    \/ \E c \in Caller : Try(c)

Spec == Init /\ [][Next]_state
=============================================================================
