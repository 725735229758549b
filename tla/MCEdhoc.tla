------------------------------ MODULE MCEdhoc ------------------------------
(***************************************************************************)
(* Small instances of Edhoc for TLC.  Tasks, and initiators that are all   *)
(* trusted, are interchangeable, and so are connection identifiers.        *)
(***************************************************************************)
EXTENDS Edhoc, TLC

TaskSymmetry == Permutations(Task) \cup Permutations(ConnId)
Symmetry == Permutations(Task) \cup Permutations(ConnId) \cup Permutations(Initiator)
=============================================================================
