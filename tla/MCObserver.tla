----------------------------- MODULE MCObserver -----------------------------
(***************************************************************************)
(* Small instances of Observer for TLC.  Endpoints are interchangeable.    *)
(***************************************************************************)
EXTENDS Observer, TLC

\* One payload fits the preferred block size of a client, the other does not.
SmallPayloads == {1, 3}
SmallBlocks == {2}
NoBlocks == {}
OnePayload == {1}

EndpointSymmetry == Permutations(Addr)
=============================================================================
