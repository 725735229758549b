--------------------------- MODULE BlockTransfer ---------------------------
(***************************************************************************)
(* A block-wise transfer of the client (src/src/client.rs:692-698 and      *)
(* 941-1116): the blocks of a request are sent one by one, then those of   *)
(* the response are asked for one by one.  In mode "send" it is send() of  *)
(* a request that fits in a block, in mode "upload" of one that does not;  *)
(* in mode "fetch" it fetches the rest of a notification, whose first      *)
(* block has arrived, with a check of the ETag                             *)
(* (receive_with_etag_validation).                                         *)
(*                                                                         *)
(* The requests of a transfer share one token that nothing else uses.  The *)
(* network may lose, delay, repeat and reorder requests and answers, so    *)
(* the client may be handed any answer made to any request of the transfer *)
(* while it waits.  The peer is external: a server whose resource changes  *)
(* at any time, which may refuse a request, answer in smaller blocks,      *)
(* or not know of block-wise requests.                                     *)
(***************************************************************************)
EXTENDS BlockState

CONSTANTS
    MaxVersion,  \* bound of the model: changes of the resource
    Length,      \* mode -> version -> number of cells of what the peer returns
    Sizes,       \* block sizes of the peer, in cells
    Chunks       \* number of blocks of an upload

Mode == {"send", "upload", "fetch"}

\* Block sizes are powers of two.
ASSUME BlockTransferAssumption ==
    /\ MaxVersion \in Nat
    /\ Length \in [Mode -> [0 .. MaxVersion -> Nat]]
    /\ Sizes \subseteq Nat \ {0}
    /\ \A s, z \in Sizes : s <= z => z % s = 0
    /\ Chunks \in Nat \ {0, 1}

Cell == [version : Nat, at : Nat]

\* What is absent is not a number, an option or a payload; padding is no cell.
ASSUME NoneAssumption ==
    /\ None \notin Nat
    /\ None \notin [num : Nat, more : BOOLEAN]
    /\ None \notin [num : Nat, size : Nat, more : BOOLEAN]
    /\ None \notin Seq(Cell)
    /\ Zero \notin Cell

VARIABLES
    mode, etags,  \* how the transfer was started; the peer sends ETags
    pc, request,  \* where the client is and what it waits for an answer to
    state, etag,  \* BlockState, and the ETag of the first block
    result,
    requests,     \* what has been sent and may (again) reach the peer
    answers,      \* what has been answered and may (again) reach the client
    version, received, processed  \* peer: resource, chunks, whole payload seen

vars == <<mode, etags, pc, request, state, etag, result, requests, answers,
          version, received, processed>>
peer == <<version, received, processed>>

\* A request has one of the two options, or neither.
Plain == [block1 |-> None, block2 |-> None]
Block1Request(i) == [block1 |-> [num |-> i, more |-> i + 1 < Chunks], block2 |-> None]
Block2Request(next) == [block1 |-> None, block2 |-> next]

-----------------------------------------------------------------------------
(* The peer.                                                               *)

\* The number of cells of what the peer returns.
Size == Length[mode][version]

\* A block of the peer's resource that starts at an offset.
BlockAt(offset, size) ==
  LET end == IF offset + size < Size THEN offset + size ELSE Size
  IN  [code   |-> "Content", block1 |-> None,
       block2 |-> [num |-> offset \div size, size |-> size,
                   more |-> end < Size],
       etag   |-> IF etags THEN version ELSE None,
       cells  |-> [i \in 1 .. (end - offset) |->
                     [version |-> version, at |-> offset + i]]]

Bare(code, echo) ==
  [code |-> code, block1 |-> echo, block2 |-> None, etag |-> None, cells |-> <<>>]

Echo(q, smaller) == [num |-> q.block1.num, smaller |-> smaller]

Answer(response) ==
  /\ answers' = answers \cup {response}
  /\ UNCHANGED <<mode, etags, pc, request, state, etag, result, requests>>

\* A block of the resource, no larger than asked for and at the same place, or
\* all of it at once.
ServeBlock(q) ==
  /\ q \in requests /\ q.block1 = None
  /\ \E size \in Sizes :
       LET asked  == IF q.block2 = None THEN [num |-> 0, size |-> size] ELSE q.block2
           offset == asked.num * asked.size
       IN  /\ size <= asked.size
           /\ IF offset < Size
              THEN Answer(BlockAt(offset, size)) ELSE Answer(Bare("Error", None))
  /\ UNCHANGED peer

ServeWhole(q) ==
  /\ q \in requests /\ q = Plain
  /\ Answer([BlockAt(0, Size) EXCEPT !.block2 = None])
  /\ UNCHANGED peer

\* A chunk in the middle is kept.
TakeChunk(q) ==
  /\ q \in requests /\ q.block1 # None /\ q.block1.more
  /\ received' = received \cup {q.block1.num}
  /\ \E smaller \in BOOLEAN : Answer(Bare("Continue", Echo(q, smaller)))
  /\ UNCHANGED <<version, processed>>

\* The last chunk makes the payload whole, and the request is processed.
TakeLast(q) ==
  /\ q \in requests /\ q.block1 # None /\ ~q.block1.more
  /\ received' = received \cup {q.block1.num}
  /\ IF received' = 0 .. (Chunks - 1)
     THEN /\ processed' = TRUE
          /\ \/ \E size \in Sizes :
                  Answer([BlockAt(0, size) EXCEPT !.block1 = Echo(q, FALSE)])
             \/ Answer(Bare("Changed", Echo(q, FALSE)))
     ELSE UNCHANGED processed /\ Answer(Bare("Error", Echo(q, FALSE)))
  /\ UNCHANGED version

\* The peer refuses, with or without the block's number, or takes a chunk that
\* is the last for one in the middle.
Refuse(q) ==
  /\ q \in requests
  /\ \/ Answer(Bare("Error", None))
     \/ q.block1 # None /\ Answer(Bare("Error", Echo(q, FALSE)))
     \/ q.block1 # None /\ ~q.block1.more /\ Answer(Bare("Continue", Echo(q, FALSE)))
  /\ UNCHANGED peer

Change ==
  /\ version < MaxVersion
  /\ version' = version + 1
  /\ UNCHANGED <<mode, etags, pc, request, state, etag, result, requests, answers,
                 received, processed>>

-----------------------------------------------------------------------------
(* The client.                                                             *)

Finish(outcome) ==
  /\ pc' = "done" /\ result' = outcome
  /\ UNCHANGED <<request, requests, state>>

Fail == Finish([tag |-> "error"])

Ask(q) ==
  /\ request' = q /\ requests' = requests \cup {q}
  /\ UNCHANGED result

\* Mutant of EtagMatches: blocks of any version are put together.
EtagIgnored(response) == TRUE

\* With no ETag in the first block there is nothing to compare.
EtagMatches(response) == etag = None \/ response.etag = etag

\* receive and receive_with_etag_validation: one turn of the loop.
Download(response) ==
  LET outcome == HandleBlockwise(state, response)
  IN  \/ ~EtagMatches(response) /\ Fail
      \/ EtagMatches(response) /\ outcome.tag = "error" /\ Fail
      \/ /\ EtagMatches(response) /\ outcome.tag = "more"
         /\ Ask(Block2Request(outcome.next))
         /\ state' = outcome.state /\ pc' = "download"
      \/ /\ EtagMatches(response) /\ outcome.tag = "whole"
         /\ Finish([tag |-> "ok", code |-> response.code, cells |-> outcome.payload])

\* Mutant of Acknowledges: the answer is not checked to be for this chunk.
AcknowledgesAny(response) == response.block1 # None

Acknowledges(response) ==
  response.block1 # None /\ response.block1.num = request.block1.num

\* Mutant of LastAccepted: a last chunk may be answered like the others.
LastAcceptedAlways(response) == TRUE

LastAccepted(response) == response.code # "Continue"

\* send_request: one turn of the loop over the chunks.
Upload(response) ==
  LET more == request.block1.more
  IN  \/ ~Acknowledges(response) /\ Fail
      \/ Acknowledges(response) /\ more /\ response.block1.smaller /\ Fail
      \/ /\ Acknowledges(response) /\ more /\ ~response.block1.smaller
         /\ IF response.code = "Continue"
            THEN Ask(Block1Request(request.block1.num + 1)) /\ UNCHANGED <<pc, state>>
            ELSE Download(response)
      \/ Acknowledges(response) /\ ~more /\ ~LastAccepted(response) /\ Fail
      \/ Acknowledges(response) /\ ~more /\ LastAccepted(response) /\ Download(response)

\* What waits for an answer takes the first that comes with its token, to
\* whichever of the transfer's requests it was made.
Receive(response) ==
  /\ response \in answers
  /\ \/ pc = "upload" /\ Upload(response)
     \/ pc = "download" /\ Download(response)
  /\ UNCHANGED <<mode, etags, etag, answers, peer>>

\* The request, with its retransmissions, has failed.
GiveUp ==
  /\ pc # "done"
  /\ Fail
  /\ UNCHANGED <<mode, etags, etag, answers, peer>>

\* A request is about to be sent.
Send ==
  /\ \/ mode = "send" /\ pc = "download" /\ request = Plain
     \/ mode = "upload" /\ pc = "upload" /\ request = Block1Request(0)
  /\ state = EmptyState
  /\ etag = None

\* The first block of a notification has been put into the state and the next
\* is asked for.
Fetch ==
  /\ mode = "fetch"
  /\ pc = "download"
  /\ \E size \in Sizes :
       LET first   == BlockAt(0, size)
           outcome == HandleBlockwise(EmptyState, first)
       IN  /\ outcome.tag = "more"
           /\ request = Block2Request(outcome.next)
           /\ state = outcome.state
           /\ etag = first.etag

Init ==
  /\ version = 0 /\ received = {} /\ processed = FALSE
  /\ etags \in BOOLEAN
  /\ Send \/ Fetch
  /\ requests = {request} /\ answers = {}
  /\ result = [tag |-> "none"]

\* What the peer does after the transfer is over is of no consequence to it.
Peer ==
  /\ pc # "done"
  /\ \/ \E q \in requests :
          ServeBlock(q) \/ ServeWhole(q) \/ TakeChunk(q) \/ TakeLast(q) \/ Refuse(q)
     \/ Change

Next ==
  \/ Peer
  \/ \E response \in answers : Receive(response)
  \/ GiveUp

Spec == Init /\ [][Next]_vars

\* A request ends: with an answer, or after its last retransmission.
Fairness == WF_vars((\E response \in answers : Receive(response)) \/ GiveUp)

FairSpec == Spec /\ Fairness

-----------------------------------------------------------------------------
\* A chunk is sent only after the peer has taken every chunk before it
\* (client.rs:999-1007), though acknowledgements may be late or repeated.
NothingSkipped ==
  \A q \in requests : q.block1 # None => 0 .. (q.block1.num - 1) \subseteq received

\* An upload that succeeds has been processed by the peer, or the answer says
\* that it has not (client.rs:1018-1030): a chunk acknowledged in place of the
\* whole is no success.
UploadConcluded ==
  mode = "upload" /\ result.tag = "ok" => processed \/ result.code = "Error"

\* A payload never has padding in it, and when its blocks are of one version
\* every cell of it is where it was in the resource, whatever the sizes of the
\* blocks and the order in which answers come (client.rs:1236-1262).  Blocks of
\* two versions, which nothing but an ETag tells apart, may shift it: a block of
\* a resource that has shrunk is shorter than the range it replaces.
AssembledInPlace ==
  result.tag = "ok" =>
    LET places == DOMAIN result.cells
    IN  /\ \A i \in places : result.cells[i] # Zero
        /\ (\A i, j \in places : result.cells[i].version = result.cells[j].version)
             => \A i \in places : result.cells[i].at = i

\* The rest of a notification is of the version the notification was of, and
\* all of it is there, though the resource changes meanwhile
\* (client.rs:1062-1068).
OneVersion ==
  mode = "fetch" /\ etags /\ result.tag = "ok" =>
    /\ \A i \in DOMAIN result.cells : result.cells[i].version = etag
    /\ Len(result.cells) = Length[mode][etag]

\* A transfer ends, whatever the peer answers and the network does: no answer
\* makes the client ask for the same block for ever.
TransferEnds == <>(pc = "done")
=============================================================================
