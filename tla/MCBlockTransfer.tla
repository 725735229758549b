-------------------------- MODULE MCBlockTransfer --------------------------
(* Instance of BlockTransfer for TLC.                                       *)
EXTENDS BlockTransfer, TLC

\* What is returned is longer first, shorter after a change; the rest of a
\* notification is so long that a smaller block may replace a larger one.
Lengths ==
  [m \in Mode |-> IF m = "fetch" THEN 0 :> 9 @@ 1 :> 5 ELSE 0 :> 5 @@ 1 :> 3]
=============================================================================
