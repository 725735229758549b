----------------------------- MODULE BlockState -----------------------------
(***************************************************************************)
(* How the client puts the blocks of a response together                   *)
(* (src/src/client.rs:1216-1308).                                          *)
(*                                                                         *)
(* A payload is a sequence of cells, a cell one unit of data that knows    *)
(* the version of the resource it is from and its offset there.  A         *)
(* response is a record [code, block1, block2, etag, cells], a block2 a    *)
(* record [num, size, more], None when the option is absent.               *)
(***************************************************************************)
EXTENDS Naturals, Sequences

CONSTANTS Zero,  \* the cell a payload is padded with
          None   \* the absent value of an Option

EmptyState == [cached |-> None, expected |-> None]

\* coap-lite's extending_splice: the payload is padded to the end of the
\* block, then the block's range is replaced by its cells.
Splice(payload, block, cells) ==
  LET offset == block.num * block.size
      end    == offset + block.size
      padded == [i \in 1 .. IF Len(payload) < end THEN end ELSE Len(payload) |->
                   IF i \in DOMAIN payload THEN payload[i] ELSE Zero]
  IN  SubSeq(padded, 1, offset) \o cells \o SubSeq(padded, end + 1, Len(padded))

\* Mutant of Cached: what has been put together is taken out too early.
CachedTaken(state) == <<>>

Cached(state) == IF state.cached = None THEN <<>> ELSE state.cached

\* Mutant of Unexpected: the number of a block is not looked at.
AnyExpected(state, block) == FALSE

Unexpected(state, block) == state.expected # None /\ state.expected # block.num

NextNum(block) == block.num + 1

\* handle_blockwise: "error"; "more" with the block to ask for next; or "whole"
\* with the payload of the response.
HandleBlockwise(state, response) ==
  LET block   == response.block2
      spliced == Splice(Cached(state), block, response.cells)
  IN  CASE block = None -> [tag |-> "whole", payload |-> response.cells]
        [] block # None /\ Unexpected(state, block) -> [tag |-> "error"]
        [] block # None /\ ~Unexpected(state, block) /\ block.more ->
             [tag   |-> "more",
              state |-> [cached |-> spliced, expected |-> NextNum(block)],
              next  |-> [num |-> NextNum(block), size |-> block.size]]
        [] block # None /\ ~Unexpected(state, block) /\ ~block.more ->
             [tag |-> "whole", payload |-> spliced]
=============================================================================
