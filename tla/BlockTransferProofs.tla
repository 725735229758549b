------------------------ MODULE BlockTransferProofs ------------------------
(***************************************************************************)
(* Proofs about BlockTransfer, for every length of the resource, every set *)
(* of block sizes and every number of chunks: no chunk of an upload is     *)
(* sent before the peer has the ones before it, and an upload that         *)
(* succeeds has been processed.  What the blocks of a response are put     *)
(* together to is in BlockAssemblyProofs.                                  *)
(***************************************************************************)
EXTENDS BlockTransfer, TLAPS

Chunk == 0 .. (Chunks - 1)

\* A request for a chunk is made only when the peer has the chunks before it.
RequestsFollow ==
  \A q \in requests :
    \/ q.block1 = None
    \/ \E i \in Chunk : q = Block1Request(i) /\ 0 .. (i - 1) \subseteq received

\* What an upload waits for is the answer to a chunk it has sent.
UploadWaits ==
  pc = "upload" =>
    /\ request \in requests
    /\ \E i \in Chunk : request = Block1Request(i)

\* The peer says 2.31 of a chunk only when it has it, or wrongly of the last.
ContinueMeansTaken ==
  \A a \in answers :
    a.block1 # None /\ a.code = "Continue" =>
      a.block1.num \in received \/ a.block1.num = Chunks - 1

SkipInv == RequestsFollow /\ UploadWaits /\ ContinueMeansTaken

\* Only the peer adds answers, and only the client adds requests.
LEMMA ClientStep ==
  ASSUME NEW response \in answers, Receive(response)
  PROVE  /\ UNCHANGED <<mode, etags, etag, answers, peer>>
         /\ \/ /\ pc = "upload" /\ pc' = "upload" /\ UNCHANGED <<result, state>>
               /\ Acknowledges(response) /\ request.block1.more
               /\ response.code = "Continue"
               /\ request' = Block1Request(request.block1.num + 1)
               /\ requests' = requests \cup {request'}
            \/ /\ pc' = "download" /\ UNCHANGED result
               /\ response.block2 # None
               /\ \E next : request' = Block2Request(next)
               /\ requests' = requests \cup {request'}
            \/ /\ pc' = "done" /\ UNCHANGED <<request, requests>>
               /\ \/ result'.tag = "error"
                  \/ /\ result'.code = response.code
                     /\ pc = "download" \/ response.code # "Continue"
<1>1. ASSUME Download(response)
      PROVE  \/ /\ pc' = "download" /\ UNCHANGED result
                /\ response.block2 # None
                /\ \E next : request' = Block2Request(next)
                /\ requests' = requests \cup {request'}
             \/ /\ pc' = "done" /\ UNCHANGED <<request, requests>>
                /\ result'.tag = "error" \/ result'.code = response.code
  <2> DEFINE outcome == HandleBlockwise(state, response)
  <2>1. outcome.tag = "more" => response.block2 # None
    BY DEF HandleBlockwise
  <2>2. CASE Fail
    BY <2>2 DEF Fail, Finish
  <2>3. CASE Ask(Block2Request(outcome.next)) /\ outcome.tag = "more" /\ pc' = "download"
    BY <2>1, <2>3 DEF Ask
  <2>4. CASE Finish([tag |-> "ok", code |-> response.code, cells |-> outcome.payload])
    BY <2>4 DEF Finish
  <2> QED
    BY <1>1, <2>2, <2>3, <2>4 DEF Download
<1>2. CASE pc = "download" /\ Download(response)
  BY <1>1, <1>2 DEF Receive
<1>3. CASE pc = "upload" /\ Upload(response)
  <2>1. CASE Fail
    BY <1>3, <2>1 DEF Receive, Fail, Finish
  <2>2. CASE Download(response) /\ response.code # "Continue"
    BY <1>1, <1>3, <2>2 DEF Receive
  <2>3. CASE /\ Acknowledges(response) /\ request.block1.more
             /\ response.code = "Continue"
             /\ Ask(Block1Request(request.block1.num + 1)) /\ UNCHANGED <<pc, state>>
    BY <1>3, <2>3 DEF Receive, Ask
  <2> QED
    BY <1>3, <2>1, <2>2, <2>3 DEF Upload, LastAccepted
<1> QED
  BY <1>2, <1>3 DEF Receive

\* What the peer may add to the answers, and on which request.
NewAnswer(a) ==
  /\ a.code \in {"Content", "Changed", "Continue", "Error"}
  /\ a.block2 # None => a.code = "Content"
  /\ a.block1 # None /\ a.code = "Continue" =>
       \E q \in requests :
         /\ q.block1 # None /\ a.block1.num = q.block1.num
         /\ q.block1.num \in received' \/ ~q.block1.more
  /\ a.code \in {"Content", "Changed"} =>
       processed' \/ \E q \in requests : q.block1 = None

LEMMA PeerStep ==
  ASSUME Peer
  PROVE  /\ UNCHANGED <<mode, etags, pc, request, state, etag, result, requests>>
         /\ received \subseteq received'
         /\ processed => processed'
         /\ \/ answers' = answers
            \/ \E a : NewAnswer(a) /\ answers' = answers \cup {a}
<1>1. ASSUME NEW q \in requests, ServeBlock(q)
      PROVE  /\ \E a : NewAnswer(a) /\ Answer(a)
             /\ UNCHANGED peer
  <2>1. PICK size \in Sizes :
          LET asked  == IF q.block2 = None THEN [num |-> 0, size |-> size] ELSE q.block2
              offset == asked.num * asked.size
          IN  Answer(BlockAt(offset, size)) \/ Answer(Bare("Error", None))
    BY <1>1 DEF ServeBlock
  <2>2. q.block1 = None /\ UNCHANGED peer
    BY <1>1 DEF ServeBlock
  <2>3. \A offset : NewAnswer(BlockAt(offset, size))
    BY <2>2 DEF NewAnswer, BlockAt
  <2>4. NewAnswer(Bare("Error", None))
    BY DEF NewAnswer, Bare
  <2> QED
    BY <2>1, <2>2, <2>3, <2>4
<1>2. ASSUME NEW q \in requests, ServeWhole(q)
      PROVE  /\ \E a : NewAnswer(a) /\ Answer(a)
             /\ UNCHANGED peer
  <2>1. NewAnswer([BlockAt(0, Size) EXCEPT !.block2 = None])
    BY <1>2 DEF ServeWhole, NewAnswer, BlockAt, Plain
  <2> QED
    BY <1>2, <2>1 DEF ServeWhole
<1>3. ASSUME NEW q \in requests, TakeChunk(q)
      PROVE  /\ \E a : NewAnswer(a) /\ Answer(a)
             /\ received \subseteq received' /\ processed' = processed
  <2>1. \A smaller \in BOOLEAN : NewAnswer(Bare("Continue", Echo(q, smaller)))
    BY <1>3 DEF TakeChunk, NewAnswer, Bare, Echo
  <2> QED
    BY <1>3, <2>1 DEF TakeChunk
<1>4. ASSUME NEW q \in requests, TakeLast(q)
      PROVE  /\ \E a : NewAnswer(a) /\ Answer(a)
             /\ received \subseteq received'
             /\ processed => processed'
  <2>1. CASE received' = 0 .. (Chunks - 1)
    <3>1. \A size : NewAnswer([BlockAt(0, size) EXCEPT !.block1 = Echo(q, FALSE)])
      BY <1>4, <2>1 DEF TakeLast, NewAnswer, BlockAt
    <3>2. NewAnswer(Bare("Changed", Echo(q, FALSE)))
      BY <1>4, <2>1 DEF TakeLast, NewAnswer, Bare
    <3> QED
      BY <1>4, <2>1, <3>1, <3>2 DEF TakeLast
  <2>2. CASE received' # 0 .. (Chunks - 1)
    <3>1. NewAnswer(Bare("Error", Echo(q, FALSE)))
      BY DEF NewAnswer, Bare
    <3> QED
      BY <1>4, <2>2, <3>1 DEF TakeLast
  <2> QED
    BY <2>1, <2>2
<1>5. ASSUME NEW q \in requests, Refuse(q)
      PROVE  /\ \E a : NewAnswer(a) /\ Answer(a)
             /\ UNCHANGED peer
  <2>1. \A echo : NewAnswer(Bare("Error", echo))
    BY DEF NewAnswer, Bare
  <2>2. q.block1 # None /\ ~q.block1.more => NewAnswer(Bare("Continue", Echo(q, FALSE)))
    BY DEF NewAnswer, Bare, Echo
  <2> QED
    BY <1>5, <2>1, <2>2 DEF Refuse
<1>6. ASSUME Change
      PROVE  UNCHANGED <<mode, etags, pc, request, state, etag, result, requests,
                         answers, received, processed>>
  BY <1>6 DEF Change
<1>7. ASSUME NEW a, Answer(a)
      PROVE  /\ UNCHANGED <<mode, etags, pc, request, state, etag, result, requests>>
             /\ answers' = answers \cup {a}
  BY <1>7 DEF Answer
<1>8. UNCHANGED peer => received \subseteq received' /\ processed' = processed
  BY DEF peer
<1>9. \/ Change
      \/ /\ \E a : NewAnswer(a) /\ Answer(a)
         /\ received \subseteq received'
         /\ processed => processed'
  <2>1. CASE Change
    BY <2>1
  <2>2. ASSUME NEW q \in requests,
               ServeBlock(q) \/ ServeWhole(q) \/ TakeChunk(q) \/ TakeLast(q) \/ Refuse(q)
        PROVE  /\ \E a : NewAnswer(a) /\ Answer(a)
               /\ received \subseteq received'
               /\ processed => processed'
    BY <2>2, <1>1, <1>2, <1>3, <1>4, <1>5, <1>8
  <2> QED
    BY <2>1, <2>2 DEF Peer
<1>10. CASE Change
  BY <1>6, <1>10
<1>11. CASE /\ \E a : NewAnswer(a) /\ Answer(a)
            /\ received \subseteq received'
            /\ processed => processed'
  <2>1. PICK a : NewAnswer(a) /\ Answer(a)
    BY <1>11
  <2>2. /\ UNCHANGED <<mode, etags, pc, request, state, etag, result, requests>>
        /\ answers' = answers \cup {a}
    BY <1>7, <2>1
  <2>3. \E b : NewAnswer(b) /\ answers' = answers \cup {b}
    BY <2>1, <2>2
  <2>4. received \subseteq received' /\ (processed => processed')
    BY <1>11
  <2> QED
    BY <2>2, <2>3, <2>4
<1> QED
  BY <1>9, <1>10, <1>11

-----------------------------------------------------------------------------
LEMMA SkipInit == Init => SkipInv
<1> SUFFICES ASSUME Init PROVE SkipInv
  OBVIOUS
<1>1. requests = {request} /\ answers = {}
  BY DEF Init
<1>2. CASE Send
  <2>1. CASE request = Plain /\ pc = "download"
    BY <1>1, <2>1 DEF Plain, SkipInv, RequestsFollow, UploadWaits, ContinueMeansTaken
  <2>2. CASE request = Block1Request(0)
    <3>1. 0 \in Chunk /\ 0 .. (0 - 1) \subseteq received
      BY BlockTransferAssumption DEF Chunk
    <3> QED
      BY <1>1, <2>2, <3>1 DEF SkipInv, RequestsFollow, UploadWaits, ContinueMeansTaken
  <2> QED
    BY <1>2, <2>1, <2>2 DEF Send
<1>3. CASE Fetch
  <2>1. request.block1 = None /\ pc = "download"
    BY <1>3 DEF Fetch, Block2Request
  <2> QED
    BY <1>1, <2>1 DEF SkipInv, RequestsFollow, UploadWaits, ContinueMeansTaken
<1> QED
  BY <1>2, <1>3 DEF Init

LEMMA SkipNext == SkipInv /\ [Next]_vars => SkipInv'
<1> SUFFICES ASSUME SkipInv, [Next]_vars PROVE SkipInv'
  OBVIOUS
<1>1. CASE Peer
  <2>1. /\ UNCHANGED <<pc, request, requests>>
        /\ received \subseteq received'
        /\ \/ answers' = answers
           \/ \E a : NewAnswer(a) /\ answers' = answers \cup {a}
    BY <1>1, PeerStep
  <2>2. RequestsFollow'
    BY <2>1 DEF SkipInv, RequestsFollow
  <2>3. UploadWaits'
    BY <2>1 DEF SkipInv, UploadWaits
  <2>4. ASSUME NEW q \in requests, q.block1 # None
        PROVE  q.block1.more \/ q.block1.num = Chunks - 1
    <3>1. PICK i \in Chunk : q = Block1Request(i)
      BY <2>4 DEF SkipInv, RequestsFollow
    <3>2. q.block1.num = i /\ q.block1.more = (i + 1 < Chunks)
      BY <3>1 DEF Block1Request
    <3>3. i + 1 < Chunks \/ i = Chunks - 1
      BY BlockTransferAssumption DEF Chunk
    <3> QED
      BY <3>2, <3>3
  <2>5. ContinueMeansTaken'
    <3>1. ASSUME NEW a \in answers', a.block1 # None, a.code = "Continue"
          PROVE  a.block1.num \in received' \/ a.block1.num = Chunks - 1
      <4>1. CASE a \in answers
        BY <2>1, <3>1, <4>1 DEF SkipInv, ContinueMeansTaken
      <4>2. CASE NewAnswer(a)
        BY <2>4, <3>1, <4>2 DEF NewAnswer
      <4> QED
        BY <2>1, <4>1, <4>2
    <3> QED
      BY <3>1 DEF ContinueMeansTaken
  <2> QED
    BY <2>2, <2>3, <2>5 DEF SkipInv
<1>2. ASSUME NEW response \in answers, Receive(response) PROVE SkipInv'
  <2>1. answers' = answers /\ received' = received
    BY <1>2, ClientStep DEF peer
  <2>2. ContinueMeansTaken'
    BY <2>1 DEF SkipInv, ContinueMeansTaken
  <2>3. CASE /\ pc = "upload" /\ pc' = "upload"
             /\ Acknowledges(response) /\ request.block1.more
             /\ response.code = "Continue"
             /\ request' = Block1Request(request.block1.num + 1)
             /\ requests' = requests \cup {request'}
    <3>1. PICK i \in Chunk : request = Block1Request(i)
      BY <2>3 DEF SkipInv, UploadWaits
    <3> DEFINE chunk == [num |-> i, more |-> i + 1 < Chunks]
    <3>2. request.block1 = chunk /\ chunk.num = i /\ chunk.more = (i + 1 < Chunks)
      BY <3>1 DEF Block1Request
    <3>3. i + 1 < Chunks
      BY <2>3, <3>2
    <3>4. request.block1.num = i /\ i + 1 \in Chunk /\ i # Chunks - 1
      BY <3>2, <3>3, BlockTransferAssumption DEF Chunk
    <3>5. request.block1 # None
      <4>1. i \in Nat /\ (i + 1 < Chunks) \in BOOLEAN
        BY DEF Chunk
      <4>2. chunk \in [num : Nat, more : BOOLEAN]
        BY <4>1
      <4> QED
        BY <3>2, <4>2, NoneAssumption
    <3>6. 0 .. (i - 1) \subseteq received
      <4>1. PICK j \in Chunk : request = Block1Request(j) /\ 0 .. (j - 1) \subseteq received
        BY <2>3, <3>5 DEF SkipInv, UploadWaits, RequestsFollow
      <4> QED
        BY <3>4, <4>1 DEF Block1Request
    <3>7. i \in received
      BY <2>3, <3>4 DEF SkipInv, ContinueMeansTaken, Acknowledges
    <3>8. 0 .. ((i + 1) - 1) \subseteq received'
      BY <2>1, <3>6, <3>7 DEF Chunk
    <3>9. request' = Block1Request(i + 1)
      BY <2>3, <3>4
    <3>10. RequestsFollow'
      BY <2>1, <2>3, <3>4, <3>8, <3>9 DEF SkipInv, RequestsFollow
    <3>11. UploadWaits'
      BY <2>3, <3>4, <3>9 DEF UploadWaits
    <3> QED
      BY <2>2, <3>10, <3>11 DEF SkipInv
  <2>4. CASE /\ pc' = "download"
             /\ \E next : request' = Block2Request(next)
             /\ requests' = requests \cup {request'}
    <3>1. request'.block1 = None
      BY <2>4 DEF Block2Request
    <3> QED
      BY <2>1, <2>2, <2>4, <3>1 DEF SkipInv, RequestsFollow, UploadWaits
  <2>5. CASE pc' = "done" /\ UNCHANGED <<request, requests>>
    BY <2>1, <2>2, <2>5 DEF SkipInv, RequestsFollow, UploadWaits
  <2> QED
    BY <1>2, <2>3, <2>4, <2>5, ClientStep
<1>3. CASE GiveUp
  BY <1>3 DEF GiveUp, Fail, Finish, peer, SkipInv, RequestsFollow, UploadWaits,
     ContinueMeansTaken
<1>4. CASE UNCHANGED vars
  BY <1>4 DEF vars, SkipInv, RequestsFollow, UploadWaits, ContinueMeansTaken
<1> QED
  BY <1>1, <1>2, <1>3, <1>4 DEF Next

\* A chunk is sent only after the peer has taken every chunk before it, though
\* acknowledgements come late or twice (send_request, client.rs:969-1036).
THEOREM NothingSkippedCorrect == Spec => []NothingSkipped
<1>1. SkipInv => NothingSkipped
  <2> SUFFICES ASSUME SkipInv, NEW q \in requests, q.block1 # None
               PROVE  0 .. (q.block1.num - 1) \subseteq received
    BY DEF NothingSkipped
  <2>1. PICK i \in Chunk : q = Block1Request(i) /\ 0 .. (i - 1) \subseteq received
    BY DEF SkipInv, RequestsFollow
  <2> QED
    BY <2>1 DEF Block1Request
<1> QED
  BY <1>1, SkipInit, SkipNext, PTL DEF Spec

-----------------------------------------------------------------------------
\* What an answer may say.
AnswersTyped ==
  \A a \in answers :
    /\ a.code \in {"Content", "Changed", "Continue", "Error"}
    /\ a.block2 # None => a.code = "Content"

\* Once the client asks for a block of the response, the peer has processed
\* the request; and of nothing less does it say that it has been.
UploadDone ==
  /\ \A q \in requests : q.block1 = None => processed
  /\ \A a \in answers : a.code \in {"Content", "Changed"} => processed
  /\ pc = "download" => processed
  /\ result.tag = "ok" => processed \/ result.code = "Error"

ConcludeInv ==
  /\ SkipInv
  /\ AnswersTyped
  /\ mode = "upload" => UploadDone

LEMMA Block1IsSome ==
  ASSUME NEW i \in Chunk
  PROVE  Block1Request(i).block1 # None
<1> DEFINE chunk == [num |-> i, more |-> i + 1 < Chunks]
<1>1. i \in Nat /\ (i + 1 < Chunks) \in BOOLEAN
  BY DEF Chunk
<1>2. chunk \in [num : Nat, more : BOOLEAN]
  BY <1>1
<1>3. Block1Request(i).block1 = chunk
  BY DEF Block1Request
<1> QED
  BY <1>2, <1>3, NoneAssumption

LEMMA ConcludeInitially == Init => ConcludeInv
<1> SUFFICES ASSUME Init PROVE ConcludeInv
  OBVIOUS
<1>1. SkipInv /\ AnswersTyped
  BY SkipInit DEF Init, AnswersTyped
<1>2. ASSUME mode = "upload" PROVE UploadDone
  <2>1. Send
    BY <1>2 DEF Init, Fetch
  <2>2. requests = {request} /\ answers = {} /\ result.tag = "none"
    BY DEF Init
  <2>3. request = Block1Request(0) /\ pc = "upload" /\ 0 \in Chunk
    BY <1>2, <2>1, BlockTransferAssumption DEF Send, Chunk
  <2> QED
    BY <2>2, <2>3, Block1IsSome DEF UploadDone
<1> QED
  BY <1>1, <1>2 DEF ConcludeInv

LEMMA ConcludeNext == ConcludeInv /\ [Next]_vars => ConcludeInv'
<1> SUFFICES ASSUME ConcludeInv, [Next]_vars PROVE ConcludeInv'
  OBVIOUS
<1>1. SkipInv'
  BY SkipNext DEF ConcludeInv
<1>2. CASE Peer
  <2>1. /\ UNCHANGED <<mode, pc, result, requests>>
        /\ processed => processed'
    BY <1>2, PeerStep
  <2>2. \/ answers' = answers
        \/ \E a : NewAnswer(a) /\ answers' = answers \cup {a}
    BY <1>2, PeerStep
  <2>3. AnswersTyped'
    BY <2>2 DEF ConcludeInv, AnswersTyped, NewAnswer
  <2>4. ASSUME mode = "upload" PROVE UploadDone'
    <3>1. UploadDone
      BY <2>4 DEF ConcludeInv
    <3>2. ASSUME NEW a \in answers', a.code \in {"Content", "Changed"} PROVE processed'
      <4>1. CASE a \in answers
        BY <2>1, <3>1, <3>2, <4>1 DEF UploadDone
      <4>2. CASE NewAnswer(a)
        BY <2>1, <3>1, <3>2, <4>2 DEF UploadDone, NewAnswer
      <4> QED
        BY <2>2, <4>1, <4>2
    <3> QED
      BY <2>1, <3>1, <3>2 DEF UploadDone
  <2> QED
    BY <1>1, <2>1, <2>3, <2>4 DEF ConcludeInv
<1>3. ASSUME NEW response \in answers, Receive(response) PROVE ConcludeInv'
  <2>1. answers' = answers /\ mode' = mode /\ processed' = processed
    BY <1>3, ClientStep DEF peer
  <2>2. AnswersTyped'
    BY <2>1 DEF ConcludeInv, AnswersTyped
  <2>3. ASSUME mode = "upload" PROVE UploadDone'
    <3>1. /\ UploadDone
          /\ response.code \in {"Content", "Changed", "Continue", "Error"}
          /\ response.block2 # None => processed
          /\ response.code \in {"Content", "Changed"} => processed
      BY <2>3 DEF ConcludeInv, AnswersTyped, UploadDone
    <3>2. CASE /\ pc = "upload" /\ pc' = "upload" /\ UNCHANGED result
               /\ request.block1.more
               /\ request' = Block1Request(request.block1.num + 1)
               /\ requests' = requests \cup {request'}
      <4>1. PICK i \in Chunk : request' = Block1Request(i)
        BY <1>1, <3>2 DEF SkipInv, UploadWaits
      <4>2. request'.block1 # None
        BY <4>1, Block1IsSome
      <4> QED
        BY <2>1, <3>1, <3>2, <4>2 DEF UploadDone
    <3>3. CASE /\ pc' = "download" /\ UNCHANGED result
               /\ response.block2 # None
      BY <2>1, <3>1, <3>3 DEF UploadDone
    <3>4. CASE /\ pc' = "done" /\ requests' = requests
               /\ \/ result'.tag = "error"
                  \/ /\ result'.code = response.code
                     /\ pc = "download" \/ response.code # "Continue"
      BY <2>1, <3>1, <3>4 DEF UploadDone
    <3> QED
      BY <1>3, <3>2, <3>3, <3>4, ClientStep
  <2> QED
    BY <1>1, <2>1, <2>2, <2>3 DEF ConcludeInv
<1>4. CASE GiveUp
  <2>1. /\ pc' = "done" /\ result'.tag = "error"
        /\ UNCHANGED <<mode, requests, answers, processed>>
    BY <1>4 DEF GiveUp, Fail, Finish, peer
  <2> QED
    BY <1>1, <2>1 DEF ConcludeInv, AnswersTyped, UploadDone
<1>5. CASE UNCHANGED vars
  BY <1>1, <1>5 DEF vars, ConcludeInv, AnswersTyped, UploadDone
<1> QED
  BY <1>2, <1>3, <1>4, <1>5 DEF Next

\* An upload that succeeds has been processed by the peer, or the answer says
\* that it has not (send_request, client.rs:1018-1030).
THEOREM UploadConcludedCorrect == Spec => []UploadConcluded
<1>1. ConcludeInv => UploadConcluded
  BY DEF ConcludeInv, UploadDone, UploadConcluded
<1> QED
  BY <1>1, ConcludeInitially, ConcludeNext, PTL DEF Spec
=============================================================================
