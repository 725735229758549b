------------------------- MODULE MCClientTransport -------------------------
(***************************************************************************)
(* Small instances of ClientTransport for TLC.                             *)
(***************************************************************************)
EXTENDS ClientTransport, FiniteSets, TLC

\* Tokens chosen by the caller, one for each request.
UniqueTokens == [t \in Task |-> t]

\* RequestBuilder sets no token: every request has the empty one.
EmptyTokens == [t \in Task |-> "empty"]

\* Two tasks share a token, a third has its own.
MixedTokens == [t \in Task |-> IF t \in Confirmable THEN "own" ELSE "shared"]
=============================================================================
