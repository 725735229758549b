------------------------ MODULE BlockAssemblyProofs ------------------------
(***************************************************************************)
(* Proofs about what the blocks of a response are put together to, for     *)
(* every length of the resource and every set of block sizes.  A block is  *)
(* asked for only where what has been put together ends or before, so that *)
(* no block, however late, leaves a gap; and one that is shorter than the  *)
(* range it replaces is the last of its version.                           *)
(***************************************************************************)
EXTENDS BlockTransferProofs, SequenceTheorems

Version == 0 .. MaxVersion
Option2 == [num : Nat, size : Nat, more : BOOLEAN]
Offset(block) == block.num * block.size
Tag(v) == IF etags THEN v ELSE None

\* Cells of a version that follow an offset.
CellsOf(cells, v, offset) ==
  /\ cells \in Seq(Cell)
  /\ \A i \in 1 .. Len(cells) : cells[i] = [version |-> v, at |-> offset + i]
  /\ offset + Len(cells) <= Length[mode][v]

\* An answer without a payload, with a whole one, or with a block of one: full
\* when others follow, and to the end of the resource when it is the last.
IsBare(a) == a.block2 = None /\ a.cells = <<>> /\ a.etag = None
IsWhole(a, v) ==
  /\ a.block2 = None /\ a.etag = Tag(v)
  /\ CellsOf(a.cells, v, 0) /\ Len(a.cells) = Length[mode][v]
IsBlock(a, v) ==
  /\ a.block2 \in Option2 /\ a.block2.size \in Sizes /\ a.etag = Tag(v)
  /\ CellsOf(a.cells, v, Offset(a.block2))
  /\ Len(a.cells) <= a.block2.size
  /\ a.block2.more => Len(a.cells) = a.block2.size
  /\ ~a.block2.more => Offset(a.block2) + Len(a.cells) = Length[mode][v]
  /\ Len(a.cells) = 0 => a.block2.num = 0

Typed ==
  /\ mode \in Mode /\ etags \in BOOLEAN /\ version \in Version
  /\ mode = "fetch" /\ etags => etag \in Version

\* Nothing has been asked for, or answered, past the end of what there is.
Reached(n) == n \in Nat /\ n <= Len(Cached(state))
RequestsPlaced ==
  \A q \in requests :
    q.block2 # None =>
      q.block2.num \in Nat /\ q.block2.size \in Sizes /\ Reached(Offset(q.block2))
AnswerPlaced(a) ==
  \/ IsBare(a)
  \/ \E v \in Version : IsWhole(a, v)
  \/ \E v \in Version : IsBlock(a, v) /\ Reached(Offset(a.block2))
AnswersPlaced == \A a \in answers : AnswerPlaced(a)

\* What has been put together so far: every cell at its place.
InPlace(payload) ==
  /\ payload \in Seq(Cell)
  /\ \A i \in 1 .. Len(payload) :
       /\ payload[i].at = i /\ payload[i].version \in Version
       /\ i <= Length[mode][payload[i].version]
       /\ mode = "fetch" /\ etags => payload[i].version = etag
StatePlaced ==
  /\ \/ state = EmptyState
     \/ state.cached # None /\ state.expected # None /\ state.expected # 0
  /\ InPlace(Cached(state))

PlaceInv ==
  /\ Typed /\ RequestsPlaced /\ AnswersPlaced /\ StatePlaced
  /\ AssembledInPlace /\ OneVersion

-----------------------------------------------------------------------------
(* Arithmetic of blocks, and splicing.                                     *)

LEMMA Divides ==
  ASSUME NEW s \in Nat \ {0}, NEW z \in Nat, z % s = 0, NEW n \in Nat
  PROVE  /\ (n * z) \div s \in Nat
         /\ ((n * z) \div s) * s = n * z
<1> DEFINE k == z \div s
<1>1. k \in Nat /\ z = s * k
  OBVIOUS
<1> HIDE DEF k
<1>2. n * z = s * (n * k) /\ n * k \in Nat
  BY <1>1
<1> DEFINE m == n * k
<1>3. m \in Nat /\ n * z = s * m
  BY <1>2
<1> HIDE DEF m
<1>4. (s * m) \div s = m
  BY <1>3
<1> QED
  BY <1>3, <1>4

\* What is put into a range that starts no later than the payload ends.
SpliceAt(payload, offset, end, cells) ==
  LET longer == IF Len(payload) < end THEN end ELSE Len(payload)
      padded == [i \in 1 .. longer |-> IF i \in DOMAIN payload THEN payload[i] ELSE Zero]
  IN  SubSeq(padded, 1, offset) \o cells \o SubSeq(padded, end + 1, Len(padded))

\* The range is replaced, and what follows it moves.
IsSpliced(spliced, payload, offset, end, cells) ==
  /\ spliced \in Seq(Cell)
  /\ Len(spliced) = offset + Len(cells)
                    + (IF Len(payload) <= end THEN 0 ELSE Len(payload) - end)
  /\ \A i \in 1 .. Len(spliced) :
       spliced[i] = IF i <= offset THEN payload[i]
                    ELSE IF i <= offset + Len(cells) THEN cells[i - offset]
                    ELSE payload[i - offset - Len(cells) + end]

LEMMA SplicedAt ==
  ASSUME NEW payload \in Seq(Cell), NEW cells \in Seq(Cell),
         NEW offset \in Nat, NEW end \in Nat, offset <= Len(payload), offset <= end
  PROVE  IsSpliced(SpliceAt(payload, offset, end, cells), payload, offset, end, cells)
<1> DEFINE longer  == IF Len(payload) < end THEN end ELSE Len(payload)
           padded  == [i \in 1 .. longer |->
                         IF i \in DOMAIN payload THEN payload[i] ELSE Zero]
           front   == SubSeq(padded, 1, offset)
           back    == SubSeq(padded, end + 1, Len(padded))
           spliced == SpliceAt(payload, offset, end, cells)
<1>1. Len(payload) \in Nat
  BY LenProperties
<1>2. spliced = front \o cells \o back
  BY DEF SpliceAt
<1> HIDE DEF spliced
<1>3. longer \in Nat /\ Len(payload) <= longer /\ end <= longer
  BY <1>1
<1>4. /\ DOMAIN padded = 1 .. longer
      /\ \A i \in 1 .. longer : padded[i] \in Cell \cup {Zero}
      /\ \A i \in 1 .. Len(payload) : padded[i] = payload[i] /\ padded[i] \in Cell
  <2> HIDE DEF longer
  <2>1. \A i \in 1 .. Len(payload) : payload[i] \in Cell /\ i \in DOMAIN payload
    BY ElementOfSeq, LenProperties
  <2>2. \A i \in DOMAIN payload : payload[i] \in Cell
    BY ElementOfSeq, LenProperties
  <2>3. \A i \in 1 .. longer :
          padded[i] = IF i \in DOMAIN payload THEN payload[i] ELSE Zero
    OBVIOUS
  <2>4. \A i \in 1 .. Len(payload) : i \in 1 .. longer
    BY <1>1, <1>3
  <2>5. DOMAIN padded = 1 .. longer
    OBVIOUS
  <2> HIDE DEF padded
  <2> QED
    BY <2>1, <2>2, <2>3, <2>4, <2>5
<1>5. Len(padded) = longer
  <2>1. padded \in [1 .. longer -> Cell \cup {Zero}]
    BY <1>4
  <2> HIDE DEF padded, longer
  <2> QED
    BY <1>3, <2>1
<1>6. back = SubSeq(padded, end + 1, longer)
  BY <1>5
<1> HIDE DEF padded, front, back, longer
<1>7. /\ front \in Seq(Cell) /\ Len(front) = offset
      /\ \A i \in 1 .. offset : front[i] = payload[i]
  <2>1. \A i \in 1 .. offset : padded[i] \in Cell
    BY <1>1, <1>4
  <2>2. /\ front \in Seq(Cell)
        /\ Len(front) = (IF 1 <= offset THEN offset - 1 + 1 ELSE 0)
        /\ \A i \in 1 .. offset - 1 + 1 : front[i] = padded[1 + i - 1]
    BY <1>1, <2>1, SubSeqProperties DEF front
  <2>3. Len(front) = offset
    BY <1>1, <2>2
  <2>4. \A i \in 1 .. offset : front[i] = payload[i]
    BY <1>1, <1>4, <2>2
  <2> QED
    BY <2>2, <2>3, <2>4
<1>8. /\ back \in Seq(Cell)
      /\ Len(back) = IF Len(payload) <= end THEN 0 ELSE Len(payload) - end
      /\ \A i \in 1 .. Len(back) : back[i] = payload[end + i]
  <2>1. end \in Nat /\ end + 1 \in Int /\ longer \in Int
        /\ longer = IF Len(payload) < end THEN end ELSE Len(payload)
    BY <1>1, <1>3 DEF longer
  <2>2. \A i \in end + 1 .. longer : padded[i] = payload[i] /\ padded[i] \in Cell
    BY <1>1, <1>4, <2>1
  <2>3. /\ back \in Seq(Cell)
        /\ Len(back) = (IF end + 1 <= longer THEN longer - (end + 1) + 1 ELSE 0)
        /\ \A i \in 1 .. longer - (end + 1) + 1 : back[i] = padded[(end + 1) + i - 1]
    BY <1>3, <1>6, <2>1, <2>2, SubSeqProperties
  <2>4. Len(back) = IF Len(payload) <= end THEN 0 ELSE Len(payload) - end
    BY <1>1, <2>1, <2>3
  <2>5. ASSUME NEW i \in 1 .. Len(back) PROVE back[i] = payload[end + i]
    <3>1. i \in 1 .. longer - (end + 1) + 1 /\ (end + 1) + i - 1 = end + i
          /\ end + i \in end + 1 .. longer
      BY <1>1, <2>1, <2>3, <2>4
    <3> QED
      BY <2>2, <2>3, <3>1
  <2> QED
    BY <2>3, <2>4, <2>5
<1>9. /\ spliced \in Seq(Cell)
      /\ Len(spliced) = offset + Len(cells) + Len(back)
      /\ \A i \in 1 .. Len(spliced) :
           spliced[i] = IF i <= offset THEN front[i]
                        ELSE IF i <= offset + Len(cells) THEN cells[i - offset]
                        ELSE back[i - offset - Len(cells)]
  <2> DEFINE most == front \o cells
  <2>1. /\ most \in Seq(Cell)
        /\ Len(most) = offset + Len(cells)
        /\ \A i \in 1 .. offset + Len(cells) :
             most[i] = IF i <= offset THEN front[i] ELSE cells[i - offset]
    BY <1>7, ConcatProperties
  <2>2. spliced = most \o back
    BY <1>2, <1>7, <1>8
  <2> HIDE DEF most
  <2>3. /\ spliced \in Seq(Cell)
        /\ Len(spliced) = Len(most) + Len(back)
        /\ \A i \in 1 .. Len(most) + Len(back) :
             spliced[i] = IF i <= Len(most) THEN most[i] ELSE back[i - Len(most)]
    BY <1>8, <2>1, <2>2, ConcatProperties
  <2>4. Len(cells) \in Nat /\ Len(back) \in Nat
    BY <1>8, LenProperties
  <2> QED
    BY <1>1, <2>1, <2>3, <2>4
<1>10. ASSUME NEW i \in 1 .. Len(spliced)
      PROVE  spliced[i] = IF i <= offset THEN payload[i]
                          ELSE IF i <= offset + Len(cells) THEN cells[i - offset]
                          ELSE payload[i - offset - Len(cells) + end]
  <2>2. CASE i <= offset
    BY <1>1, <1>7, <1>9, <2>2
  <2>3. CASE i > offset /\ i <= offset + Len(cells)
    BY <1>1, <1>9, <2>3
  <2>4. CASE i > offset + Len(cells)
    <3>1. Len(cells) \in Nat /\ Len(back) \in Nat
      BY <1>8, LenProperties
    <3>2. i - offset - Len(cells) \in 1 .. Len(back)
      BY <1>1, <1>9, <2>4, <3>1
    <3>3. spliced[i] = back[i - offset - Len(cells)]
      BY <1>1, <1>9, <2>4, <3>1
    <3>4. back[i - offset - Len(cells)] = payload[end + (i - offset - Len(cells))]
      BY <1>8, <3>2
    <3> QED
      BY <1>1, <2>4, <3>1, <3>3, <3>4
  <2> QED
    BY <1>1, <2>2, <2>3, <2>4, LenProperties
<1> QED
  BY <1>8, <1>9, <1>10 DEF spliced, IsSpliced

LEMMA Spliced ==
  ASSUME NEW payload \in Seq(Cell), NEW cells \in Seq(Cell), NEW block,
         block.num \in Nat, block.size \in Nat, Offset(block) <= Len(payload)
  PROVE  IsSpliced(Splice(payload, block, cells),
                   payload, Offset(block), Offset(block) + block.size, cells)
<1> DEFINE offset == Offset(block)
           end    == offset + block.size
<1>1. Splice(payload, block, cells) = SpliceAt(payload, offset, end, cells)
  BY DEF Splice, SpliceAt, Offset
<1>2. offset \in Nat /\ end \in Nat /\ offset <= end /\ offset <= Len(payload)
  BY DEF Offset
<1> HIDE DEF offset, end
<1>3. IsSpliced(SpliceAt(payload, offset, end, cells), payload, offset, end, cells)
  BY <1>2, SplicedAt, Zenon
<1> QED
  BY <1>1, <1>3 DEF offset, end

-----------------------------------------------------------------------------
(* What the peer answers.                                                  *)

LEMMA CellsServed ==
  ASSUME Typed, NEW offset \in Nat, offset <= Size, NEW size \in Nat
  PROVE  LET end   == IF offset + size < Size THEN offset + size ELSE Size
             cells == BlockAt(offset, size).cells
         IN  CellsOf(cells, version, offset) /\ Len(cells) = end - offset
<1> DEFINE end   == IF offset + size < Size THEN offset + size ELSE Size
           n     == end - offset
           cells == [i \in 1 .. n |-> [version |-> version, at |-> offset + i]]
<1>1. BlockAt(offset, size).cells = cells
  BY DEF BlockAt
<1>2. Size \in Nat /\ version \in Nat
  BY BlockTransferAssumption DEF Typed, Version, Size
<1>3. n \in Nat /\ offset + n = end /\ end <= Size
  BY <1>2
<1>4. cells \in [1 .. n -> Cell]
  <2> HIDE DEF n
  <2> QED
    BY <1>2, <1>3 DEF Cell
<1>5. \A i \in 1 .. n : cells[i] = [version |-> version, at |-> offset + i]
  OBVIOUS
<1> HIDE DEF cells, n
<1>6. cells \in Seq(Cell) /\ Len(cells) = n
  BY <1>3, <1>4
<1>7. CellsOf(cells, version, offset)
  BY <1>3, <1>5, <1>6 DEF CellsOf, Size
<1> QED
  BY <1>1, <1>6, <1>7 DEF n

LEMMA BlockServed ==
  ASSUME Typed, NEW size \in Sizes, NEW z \in Sizes, size <= z, NEW num \in Nat,
         num * z < Size \/ num = 0
  PROVE  LET block == BlockAt(num * z, size)
         IN  IsBlock(block, version) /\ Offset(block.block2) = num * z
<1> DEFINE offset == num * z
           block  == BlockAt(offset, size)
           end    == IF offset + size < Size THEN offset + size ELSE Size
<1>1. size \in Nat \ {0} /\ z \in Nat /\ z % size = 0
  BY BlockTransferAssumption
<1>2. /\ block.block2 = [num |-> offset \div size, size |-> size, more |-> end < Size]
      /\ block.etag = Tag(version)
  BY DEF BlockAt, Tag
<1>3. offset \in Nat /\ offset \div size \in Nat /\ (offset \div size) * size = offset
  BY <1>1, Divides
<1>4. num = 0 => offset = 0
  BY <1>1
<1>5. Size \in Nat
  BY BlockTransferAssumption DEF Typed, Version, Size
<1>6. offset < Size \/ num = 0
  OBVIOUS
<1> HIDE DEF offset
<1>7. offset <= Size
  BY <1>3, <1>4, <1>5, <1>6
<1>8. CellsOf(block.cells, version, offset) /\ Len(block.cells) = end - offset
  BY <1>1, <1>3, <1>7, CellsServed
<1>9. Offset(block.block2) = offset
  BY <1>2, <1>3 DEF Offset
<1>10. /\ block.block2 \in Option2 /\ block.block2.size = size
       /\ block.block2.more = (end < Size) /\ block.block2.num = offset \div size
  BY <1>1, <1>2, <1>3 DEF Option2
<1> HIDE DEF block
<1>11. /\ Len(block.cells) <= size
       /\ end < Size => Len(block.cells) = size
       /\ ~(end < Size) => offset + Len(block.cells) = Length[mode][version]
  BY <1>1, <1>3, <1>5, <1>7, <1>8 DEF Size
<1>12. Len(block.cells) = 0 => block.block2.num = 0
  <2>1. Len(block.cells) = 0 => offset = Size
    BY <1>1, <1>3, <1>5, <1>7, <1>8
  <2>2. offset = Size => offset = 0
    BY <1>3, <1>4, <1>5, <1>6
  <2>3. offset = 0 => offset \div size = 0
    BY <1>1
  <2> QED
    BY <1>10, <2>1, <2>2, <2>3
<1>13. IsBlock(block, version)
  BY <1>2, <1>8, <1>9, <1>10, <1>11, <1>12 DEF IsBlock
<1> QED
  BY <1>9, <1>13 DEF block, offset

LEMMA WholeServed ==
  ASSUME Typed
  PROVE  IsWhole([BlockAt(0, Size) EXCEPT !.block2 = None], version)
<1> DEFINE whole == [BlockAt(0, Size) EXCEPT !.block2 = None]
<1>1. Size \in Nat
  BY BlockTransferAssumption DEF Typed, Version, Size
<1>2. /\ whole.block2 = None /\ whole.etag = Tag(version)
      /\ whole.cells = BlockAt(0, Size).cells
  BY DEF BlockAt, Tag
<1>3. CellsOf(whole.cells, version, 0) /\ Len(whole.cells) = Size
  <2>1. /\ CellsOf(BlockAt(0, Size).cells, version, 0)
        /\ Len(BlockAt(0, Size).cells) = (IF 0 + Size < Size THEN 0 + Size ELSE Size) - 0
    BY <1>1, CellsServed
  <2> HIDE DEF whole
  <2> QED
    BY <1>1, <1>2, <2>1
<1> QED
  BY <1>2, <1>3 DEF IsWhole, Size

LEMMA PeerAnswers ==
  ASSUME Typed, RequestsPlaced, NEW q \in requests,
         ServeBlock(q) \/ ServeWhole(q) \/ TakeChunk(q) \/ TakeLast(q) \/ Refuse(q)
  PROVE  \E a : AnswerPlaced(a) /\ answers' = answers \cup {a} /\ version' = version
<1> DEFINE Added(a) == AnswerPlaced(a) /\ Answer(a)
<1>1. version' = version
  BY DEF ServeBlock, ServeWhole, TakeChunk, TakeLast, Refuse, peer
<1>2. version \in Version /\ \A n : n = 0 => Reached(n)
  BY LenProperties DEF Typed, Reached
<1>3. \A code, echo : AnswerPlaced(Bare(code, echo))
  BY DEF AnswerPlaced, IsBare, Bare
<1>4. ASSUME ServeBlock(q) PROVE \E a : Added(a)
  <2>1. PICK size \in Sizes :
          LET asked  == IF q.block2 = None THEN [num |-> 0, size |-> size] ELSE q.block2
              offset == asked.num * asked.size
          IN  /\ size <= asked.size
              /\ IF offset < Size
                 THEN Answer(BlockAt(offset, size)) ELSE Answer(Bare("Error", None))
    BY <1>4 DEF ServeBlock
  <2> DEFINE num   == IF q.block2 = None THEN 0 ELSE q.block2.num
             z     == IF q.block2 = None THEN size ELSE q.block2.size
             block == BlockAt(num * z, size)
  <2>2. num \in Nat /\ z \in Sizes /\ Reached(num * z)
    <3>1. CASE q.block2 = None
      BY <1>2, <3>1, BlockTransferAssumption
    <3>2. CASE q.block2 # None
      BY <3>2 DEF RequestsPlaced, Offset
    <3> QED
      BY <3>1, <3>2
  <2>3. /\ size <= z
        /\ IF num * z < Size THEN Answer(block) ELSE Answer(Bare("Error", None))
    BY <2>1
  <2> HIDE DEF num, z
  <2>4. CASE num * z < Size
    <3>1. IsBlock(block, version) /\ Offset(block.block2) = num * z
      BY <2>2, <2>3, <2>4, BlockServed
    <3>2. AnswerPlaced(block)
      BY <1>2, <2>2, <3>1 DEF AnswerPlaced
    <3> QED
      BY <2>3, <2>4, <3>2
  <2>5. CASE ~(num * z < Size)
    BY <1>3, <2>3, <2>5
  <2> QED
    BY <2>4, <2>5
<1>5. ASSUME ServeWhole(q) PROVE \E a : Added(a)
  BY <1>2, <1>5, WholeServed DEF ServeWhole, AnswerPlaced
<1>6. ASSUME TakeLast(q) PROVE \E a : Added(a)
  <2>1. CASE \E size \in Sizes :
               Answer([BlockAt(0, size) EXCEPT !.block1 = Echo(q, FALSE)])
    <3>1. PICK size \in Sizes :
            Answer([BlockAt(0, size) EXCEPT !.block1 = Echo(q, FALSE)])
      BY <2>1
    <3> DEFINE block == BlockAt(0, size)
               a     == [block EXCEPT !.block1 = Echo(q, FALSE)]
    <3>2. size \in Nat /\ 0 * size = 0 /\ size <= size
      BY BlockTransferAssumption
    <3>3. IsBlock(block, version) /\ Offset(block.block2) = 0
      BY <3>2, BlockServed
    <3>4. a.block2 = block.block2 /\ a.etag = block.etag /\ a.cells = block.cells
      BY DEF BlockAt
    <3> HIDE DEF block, a
    <3>5. IsBlock(a, version) /\ Offset(a.block2) = 0
      BY <3>3, <3>4 DEF IsBlock
    <3>6. AnswerPlaced(a)
      BY <1>2, <3>5 DEF AnswerPlaced
    <3> QED
      BY <3>1, <3>6 DEF a, block
  <2>2. CASE \E echo : Answer(Bare("Changed", echo)) \/ Answer(Bare("Error", echo))
    BY <1>3, <2>2
  <2> QED
    BY <1>6, <2>1, <2>2 DEF TakeLast
<1>7. ASSUME TakeChunk(q) PROVE \E a : Added(a)
  BY <1>3, <1>7 DEF TakeChunk
<1>8. ASSUME Refuse(q) PROVE \E a : Added(a)
  BY <1>3, <1>8 DEF Refuse
<1>9. \E a : Added(a)
  BY <1>4, <1>5, <1>6, <1>7, <1>8
<1> QED
  BY <1>1, <1>9 DEF Answer

-----------------------------------------------------------------------------
(* What the client puts together.                                          *)

\* A block that others follow is put at its place, and nothing is lost.
LEMMA MorePut ==
  ASSUME Typed, NEW payload, InPlace(payload), NEW v \in Version, NEW a, IsBlock(a, v),
         Offset(a.block2) <= Len(payload), a.block2.more,
         mode = "fetch" /\ etags => v = etag
  PROVE  LET spliced == Splice(payload, a.block2, a.cells)
         IN  /\ InPlace(spliced)
             /\ Len(spliced) >= Len(payload)
             /\ Len(spliced) >= Offset(a.block2) + a.block2.size
<1> DEFINE block   == a.block2
           offset  == Offset(block)
           end     == offset + block.size
           spliced == Splice(payload, block, a.cells)
<1>1. /\ InPlace(payload) /\ payload \in Seq(Cell) /\ Len(payload) \in Nat
      /\ a.cells \in Seq(Cell) /\ Len(a.cells) = block.size /\ block.size \in Nat
      /\ block.num \in Nat /\ offset \in Nat /\ offset <= Len(payload)
      /\ end = offset + block.size /\ end \in Nat
  BY LenProperties DEF InPlace, IsBlock, CellsOf, Option2, Offset
<1>2. /\ spliced \in Seq(Cell)
      /\ Len(spliced) = offset + Len(a.cells)
                        + (IF Len(payload) <= end THEN 0 ELSE Len(payload) - end)
      /\ \A i \in 1 .. Len(spliced) :
           spliced[i] =
             IF i <= offset THEN payload[i]
             ELSE IF i <= offset + Len(a.cells) THEN a.cells[i - offset]
             ELSE payload[i - offset - Len(a.cells) + end]
  <2>1. IsSpliced(spliced, payload, offset, end, a.cells)
    BY <1>1, Spliced, Zenon
  <2> HIDE DEF spliced
  <2> QED
    BY <2>1 DEF IsSpliced
<1> HIDE DEF block, offset, end, spliced
<1>3. Len(spliced) >= Len(payload) /\ Len(spliced) >= end
  <2> DEFINE k == Len(payload)
             l == Len(spliced)
  <2>1. k \in Nat /\ end \in Nat /\ l = end + (IF k <= end THEN 0 ELSE k - end)
    BY <1>1, <1>2
  <2> HIDE DEF k, l
  <2>2. l >= k /\ l >= end
    BY <2>1
  <2> QED
    BY <2>2 DEF k, l
<1>4. ASSUME NEW i \in 1 .. Len(spliced)
      PROVE  \/ i \in 1 .. Len(payload) /\ spliced[i] = payload[i]
             \/ /\ i - offset \in 1 .. Len(a.cells)
                /\ spliced[i] = a.cells[i - offset]
  <2>1. i <= offset => i \in 1 .. Len(payload)
    BY <1>1
  <2>2. i > offset /\ i <= offset + Len(a.cells) => i - offset \in 1 .. Len(a.cells)
    BY <1>1
  <2>3. ASSUME i > offset + Len(a.cells)
        PROVE  i - offset - Len(a.cells) + end = i /\ i \in 1 .. Len(payload)
    <3> DEFINE k == Len(payload)
               l == Len(spliced)
    <3>1. k \in Nat /\ end \in Nat /\ l = end + (IF k <= end THEN 0 ELSE k - end)
          /\ Len(a.cells) = end - offset /\ offset \in Nat
      BY <1>1, <1>2
    <3>2. i \in 1 .. l /\ i > end
      BY <1>1, <2>3
    <3>3. i - offset - Len(a.cells) + end = i
      BY <3>1, <3>2
    <3> HIDE DEF k, l
    <3>4. i \in 1 .. k
      BY <3>1, <3>2
    <3> QED
      BY <3>3, <3>4 DEF k
  <2> QED
    BY <1>1, <1>2, <2>1, <2>2, <2>3
<1>5. /\ \A i \in 1 .. Len(a.cells) : a.cells[i] = [version |-> v, at |-> offset + i]
      /\ offset + Len(a.cells) <= Length[mode][v] /\ Length[mode][v] \in Nat
  BY BlockTransferAssumption DEF IsBlock, CellsOf, offset, block, Typed, Version
<1>6. ASSUME NEW i \in 1 .. Len(spliced)
      PROVE  /\ spliced[i].at = i /\ spliced[i].version \in Version
             /\ i <= Length[mode][spliced[i].version]
             /\ mode = "fetch" /\ etags => spliced[i].version = etag
  <2>1. CASE i \in 1 .. Len(payload) /\ spliced[i] = payload[i]
    BY <1>1, <2>1 DEF InPlace
  <2>2. CASE i - offset \in 1 .. Len(a.cells) /\ spliced[i] = a.cells[i - offset]
    <3>1. offset + (i - offset) = i /\ i <= Length[mode][v]
      BY <1>1, <1>5, <2>2
    <3>2. spliced[i] = [version |-> v, at |-> i]
      BY <1>5, <2>2, <3>1
    <3> QED
      BY <3>1, <3>2
  <2> QED
    BY <1>4, <2>1, <2>2
<1>7. InPlace(spliced)
  BY <1>2, <1>6 DEF InPlace
<1> QED
  BY <1>3, <1>7 DEF spliced, block, offset, end

\* With its last block, a payload of one version is all of it, in place.
LEMMA LastPut ==
  ASSUME Typed, StatePlaced, NEW v \in Version, NEW a, IsBlock(a, v),
         Reached(Offset(a.block2)), ~a.block2.more, ~Unexpected(state, a.block2)
  PROVE  LET spliced == Splice(Cached(state), a.block2, a.cells)
         IN  /\ spliced \in Seq(Cell)
             /\ (\A i, j \in 1 .. Len(spliced) : spliced[i].version = spliced[j].version)
                  => \A i \in 1 .. Len(spliced) : spliced[i].at = i
             /\ mode = "fetch" /\ etags /\ v = etag =>
                  /\ \A i \in 1 .. Len(spliced) : spliced[i].version = etag
                  /\ Len(spliced) = Length[mode][etag]
<1> DEFINE payload == Cached(state)
           block   == a.block2
           offset  == Offset(block)
           end     == offset + block.size
           spliced == Splice(payload, block, a.cells)
           n       == Len(a.cells)
<1>1. /\ InPlace(payload) /\ payload \in Seq(Cell) /\ Len(payload) \in Nat
      /\ a.cells \in Seq(Cell) /\ n \in Nat /\ n <= block.size /\ block.size \in Nat
      /\ block.num \in Nat /\ offset \in Nat /\ offset <= Len(payload)
      /\ offset + n = Length[mode][v] /\ end \in Nat /\ offset + n <= end
  BY LenProperties DEF StatePlaced, InPlace, IsBlock, CellsOf, Option2, Reached
<1>2. n = 0 => Len(payload) = 0
  <2>1. ASSUME n = 0 PROVE state = EmptyState
    BY <2>1 DEF IsBlock, Unexpected, StatePlaced
  <2>2. state = EmptyState => payload = <<>>
    BY DEF EmptyState, Cached
  <2> QED
    BY <2>1, <2>2, EmptySeq
<1>3. /\ spliced \in Seq(Cell)
      /\ Len(spliced) = offset + n
                        + (IF Len(payload) <= end THEN 0 ELSE Len(payload) - end)
      /\ \A i \in 1 .. Len(spliced) :
           spliced[i] = IF i <= offset THEN payload[i]
                        ELSE IF i <= offset + n THEN a.cells[i - offset]
                        ELSE payload[i - offset - n + end]
  <2>1. IsSpliced(spliced, payload, offset, end, a.cells)
    BY <1>1, Spliced, Zenon
  <2> HIDE DEF spliced
  <2> QED
    BY <2>1 DEF IsSpliced
<1>4. \A i \in 1 .. n : a.cells[i] = [version |-> v, at |-> offset + i]
  BY DEF IsBlock, CellsOf
<1> HIDE DEF payload, block, offset, end, spliced, n
\* A cell that has been shifted was of another version.
<1>5. ASSUME NEW j \in 1 .. Len(payload), j > end
      PROVE  payload[j].version # v
  BY <1>1, <1>5 DEF InPlace
<1>6. ASSUME Len(payload) <= end
      PROVE  /\ Len(spliced) = Length[mode][v]
             /\ \A i \in 1 .. Len(spliced) :
                  /\ spliced[i].at = i
                  /\ \/ spliced[i].version = v
                     \/ i \in 1 .. Len(payload) /\ spliced[i] = payload[i]
  <2>1. Len(spliced) = offset + n
    BY <1>1, <1>3, <1>6
  <2>2. ASSUME NEW i \in 1 .. Len(spliced), i <= offset
        PROVE  i \in 1 .. Len(payload) /\ spliced[i] = payload[i] /\ spliced[i].at = i
    <3>1. i \in 1 .. Len(payload)
      BY <1>1, <2>2
    <3> QED
      BY <1>1, <1>3, <2>2, <3>1 DEF InPlace
  <2>3. ASSUME NEW i \in 1 .. Len(spliced), ~(i <= offset)
        PROVE  spliced[i].at = i /\ spliced[i].version = v
    <3>1. i - offset \in 1 .. n /\ i <= offset + n /\ offset + (i - offset) = i
      BY <1>1, <2>1, <2>3
    <3>2. spliced[i] = a.cells[i - offset]
      BY <1>3, <2>3, <3>1
    <3>3. a.cells[i - offset] = [version |-> v, at |-> i]
      BY <1>4, <3>1
    <3> QED
      BY <3>2, <3>3
  <2>4. ASSUME NEW i \in 1 .. Len(spliced)
        PROVE  /\ spliced[i].at = i
               /\ \/ spliced[i].version = v
                  \/ i \in 1 .. Len(payload) /\ spliced[i] = payload[i]
    BY <2>2, <2>3
  <2> QED
    BY <1>1, <2>1, <2>4
\* Otherwise a cell of the block and a shifted one differ.
<1>7. ASSUME ~(Len(payload) <= end)
      PROVE  \E i, j \in 1 .. Len(spliced) : spliced[i].version # spliced[j].version
  <2>1. n > 0
    BY <1>1, <1>2, <1>7
  <2>2. /\ offset + 1 \in 1 .. Len(spliced)
        /\ spliced[offset + 1] = a.cells[1]
    <3>1. offset + 1 \in 1 .. Len(spliced) /\ ~(offset + 1 <= offset)
          /\ offset + 1 <= offset + n /\ (offset + 1) - offset = 1
      BY <1>1, <1>3, <1>7, <2>1
    <3> QED
      BY <1>3, <3>1
  <2>3. spliced[offset + 1].version = v
    <3>1. a.cells[1] = [version |-> v, at |-> offset + 1]
      BY <1>1, <1>4, <2>1
    <3> QED
      BY <2>2, <3>1
  <2>4. /\ Len(spliced) \in 1 .. Len(spliced)
        /\ spliced[Len(spliced)] = payload[Len(payload)]
    <3> DEFINE i == Len(spliced)
    <3>1. /\ i \in 1 .. Len(spliced) /\ ~(i <= offset) /\ ~(i <= offset + n)
          /\ i - offset - n + end = Len(payload)
      BY <1>1, <1>3, <1>7, <2>1
    <3> QED
      BY <1>3, <3>1
  <2>5. payload[Len(payload)].version # v
    BY <1>1, <1>5, <1>7
  <2> QED
    BY <2>2, <2>3, <2>4, <2>5
<1>8. ASSUME mode = "fetch" /\ etags /\ v = etag
      PROVE  Len(payload) <= end
  BY <1>1, <1>5, <1>8 DEF InPlace
<1>9. mode = "fetch" /\ etags /\ v = etag =>
        /\ \A i \in 1 .. Len(spliced) : spliced[i].version = etag
        /\ Len(spliced) = Length[mode][etag]
  BY <1>1, <1>6, <1>8 DEF InPlace
<1>10. (\A i, j \in 1 .. Len(spliced) : spliced[i].version = spliced[j].version)
         => \A i \in 1 .. Len(spliced) : spliced[i].at = i
  BY <1>6, <1>7
<1> QED
  BY <1>3, <1>9, <1>10 DEF spliced, payload, block

\* A payload that is returned without being put together is one version's.
LEMMA WholeInPlace ==
  ASSUME NEW a, AnswerPlaced(a), a.block2 = None, Typed
  PROVE  /\ a.cells \in Seq(Cell)
         /\ \A i \in 1 .. Len(a.cells) : a.cells[i].at = i
         /\ mode = "fetch" /\ etags /\ a.etag = etag =>
              /\ \A i \in 1 .. Len(a.cells) : a.cells[i].version = etag
              /\ Len(a.cells) = Length[mode][etag]
<1>1. CASE IsBare(a)
  <2>1. a.cells = <<>> /\ Len(a.cells) = 0 /\ a.cells \in Seq(Cell)
    BY <1>1, EmptySeq DEF IsBare
  <2>2. a.etag = None /\ None \notin Version
    BY <1>1, NoneAssumption DEF IsBare, Version
  <2> QED
    BY <2>1, <2>2 DEF Typed
<1>2. ASSUME NEW v \in Version, IsWhole(a, v)
      PROVE  /\ a.cells \in Seq(Cell)
             /\ \A i \in 1 .. Len(a.cells) : a.cells[i].at = i
             /\ mode = "fetch" /\ etags /\ a.etag = etag =>
                  /\ \A i \in 1 .. Len(a.cells) : a.cells[i].version = etag
                  /\ Len(a.cells) = Length[mode][etag]
  <2>1. /\ a.cells \in Seq(Cell) /\ Len(a.cells) = Length[mode][v]
        /\ \A i \in 1 .. Len(a.cells) : a.cells[i] = [version |-> v, at |-> 0 + i]
        /\ etags => a.etag = v
    BY <1>2 DEF IsWhole, CellsOf, Tag
  <2>2. ASSUME NEW i \in 1 .. Len(a.cells)
        PROVE  a.cells[i].at = i /\ a.cells[i].version = v
    <3>1. 0 + i = i
      BY <2>1, LenProperties
    <3>2. a.cells[i] = [version |-> v, at |-> i]
      BY <2>1, <3>1
    <3> QED
      BY <3>2
  <2> QED
    BY <2>1, <2>2
<1>3. ASSUME NEW v \in Version, IsBlock(a, v) PROVE FALSE
  BY <1>3, NoneAssumption DEF IsBlock, Option2
<1> QED
  BY <1>1, <1>2, <1>3 DEF AnswerPlaced

\* A block carries the ETag of its version.
LEMMA BlockTagged ==
  ASSUME NEW v \in Version, NEW a, IsBlock(a, v), EtagMatches(a), Typed
  PROVE  mode = "fetch" /\ etags => v = etag
<1>1. ASSUME mode = "fetch", etags PROVE v = etag
  <2>1. etag \in Version /\ None \notin Version
    BY <1>1, NoneAssumption DEF Typed, Version
  <2> QED
    BY <1>1, <2>1 DEF EtagMatches, IsBlock, Tag
<1> QED
  BY <1>1

-----------------------------------------------------------------------------
\* Nothing changes but what the client waits for, or that it is done.
LEMMA PlaceFrame ==
  ASSUME PlaceInv, UNCHANGED <<mode, etags, etag, version, state, requests, answers>>,
         \/ UNCHANGED result
         \/ result'.tag = "error"
  PROVE  PlaceInv'
<1>1. Typed' /\ RequestsPlaced'
  BY DEF PlaceInv, Typed, RequestsPlaced, Reached
<1>2. \A a : AnswerPlaced(a)' = AnswerPlaced(a)
  BY DEF AnswerPlaced, Reached, IsBare, IsWhole, IsBlock, CellsOf, Tag
<1>3. AnswersPlaced' /\ StatePlaced'
  BY <1>2 DEF PlaceInv, AnswersPlaced, StatePlaced, InPlace
<1>4. AssembledInPlace' /\ OneVersion'
  BY DEF PlaceInv, AssembledInPlace, OneVersion
<1> QED
  BY <1>1, <1>3, <1>4 DEF PlaceInv

LEMMA PlaceMore ==
  ASSUME PlaceInv, NEW a \in answers, EtagMatches(a), a.block2 # None,
         ~Unexpected(state, a.block2), a.block2.more,
         UNCHANGED <<mode, etags, etag, version, answers, result>>,
         state' = [cached   |-> Splice(Cached(state), a.block2, a.cells),
                   expected |-> NextNum(a.block2)],
         requests' = requests \cup {Block2Request([num  |-> NextNum(a.block2),
                                                   size |-> a.block2.size])}
  PROVE  PlaceInv'
<1> DEFINE spliced == Splice(Cached(state), a.block2, a.cells)
           next    == [num |-> NextNum(a.block2), size |-> a.block2.size]
<1>1. PICK v \in Version : IsBlock(a, v) /\ Reached(Offset(a.block2))
  BY DEF PlaceInv, AnswersPlaced, AnswerPlaced, IsBare, IsWhole
<1>2. /\ InPlace(spliced)
      /\ Len(spliced) >= Len(Cached(state))
      /\ Len(spliced) >= Offset(a.block2) + a.block2.size
  BY <1>1, BlockTagged, MorePut DEF PlaceInv, StatePlaced, Reached
<1>3. /\ a.block2.num \in Nat /\ a.block2.size \in Nat /\ a.block2.size \in Sizes
      /\ spliced \in Seq(Cell) /\ Len(spliced) \in Nat /\ Len(Cached(state)) \in Nat
  BY <1>1, <1>2, LenProperties DEF IsBlock, Option2, InPlace, PlaceInv, StatePlaced
<1> HIDE DEF spliced
<1>4. spliced # None /\ NextNum(a.block2) # None /\ NextNum(a.block2) # 0
  BY <1>3, NoneAssumption DEF NextNum
<1>5. Cached(state)' = spliced
  BY <1>4 DEF Cached, spliced
<1>6. \A n : Reached(n) => Reached(n)'
  BY <1>2, <1>3, <1>5 DEF Reached
<1>7. StatePlaced'
  <2>1. InPlace(Cached(state))'
    BY <1>2, <1>5 DEF InPlace
  <2>2. state'.cached = spliced /\ state'.expected = NextNum(a.block2)
    BY DEF spliced
  <2> QED
    BY <1>4, <2>1, <2>2 DEF StatePlaced
<1>8. AnswersPlaced'
  <2>1. \A b : AnswerPlaced(b) => AnswerPlaced(b)'
    BY <1>6 DEF AnswerPlaced, IsBare, IsWhole, IsBlock, CellsOf, Tag
  <2> QED
    BY <2>1 DEF PlaceInv, AnswersPlaced
<1>9. RequestsPlaced'
  <2>1. Offset(next) = Offset(a.block2) + a.block2.size
    <3>1. \A k, s \in Nat : (k + 1) * s = k * s + s
      OBVIOUS
    <3> QED
      BY <1>3, <3>1 DEF Offset, NextNum
  <2>2. Reached(Offset(next))'
    BY <1>1, <1>2, <1>3, <1>5, <2>1 DEF Reached
  <2>3. ASSUME NEW q \in requests, q.block2 # None
        PROVE  q.block2.num \in Nat /\ q.block2.size \in Sizes
               /\ Reached(Offset(q.block2))'
    BY <1>6, <2>3 DEF PlaceInv, RequestsPlaced
  <2>4. next.num \in Nat /\ next.size \in Sizes /\ Block2Request(next).block2 = next
    BY <1>3 DEF NextNum, Block2Request
  <2> HIDE DEF next
  <2>5. requests' = requests \cup {Block2Request(next)}
    BY DEF next
  <2> QED
    BY <2>2, <2>3, <2>4, <2>5 DEF RequestsPlaced
<1>10. Typed' /\ AssembledInPlace' /\ OneVersion'
  BY DEF PlaceInv, Typed, AssembledInPlace, OneVersion
<1> QED
  BY <1>7, <1>8, <1>9, <1>10 DEF PlaceInv

LEMMA PlaceWhole ==
  ASSUME PlaceInv, NEW a \in answers, EtagMatches(a),
         UNCHANGED <<mode, etags, etag, version, state, requests, answers>>,
         result'.tag = "ok",
         \/ a.block2 = None /\ result'.cells = a.cells
         \/ /\ a.block2 # None /\ ~Unexpected(state, a.block2) /\ ~a.block2.more
            /\ result'.cells = Splice(Cached(state), a.block2, a.cells)
  PROVE  PlaceInv'
<1> DEFINE cells == result'.cells
<1>1. /\ cells \in Seq(Cell)
      /\ (\A i, j \in 1 .. Len(cells) : cells[i].version = cells[j].version)
           => \A i \in 1 .. Len(cells) : cells[i].at = i
      /\ mode = "fetch" /\ etags =>
           /\ \A i \in 1 .. Len(cells) : cells[i].version = etag
           /\ Len(cells) = Length[mode][etag]
  <2>1. CASE a.block2 = None
    <3>1. mode = "fetch" /\ etags => a.etag = etag
      <4>1. mode = "fetch" /\ etags => etag # None
        BY NoneAssumption DEF PlaceInv, Typed, Version
      <4> QED
        BY <4>1 DEF EtagMatches
    <3>2. AnswerPlaced(a) /\ Typed /\ cells = a.cells
      BY <2>1 DEF PlaceInv, AnswersPlaced
    <3> HIDE DEF cells
    <3> QED
      BY <2>1, <3>1, <3>2, WholeInPlace
  <2>2. CASE a.block2 # None
    <3>1. PICK v \in Version : IsBlock(a, v) /\ Reached(Offset(a.block2))
      BY <2>2 DEF PlaceInv, AnswersPlaced, AnswerPlaced, IsBare, IsWhole
    <3>2. /\ cells = Splice(Cached(state), a.block2, a.cells)
          /\ ~a.block2.more /\ ~Unexpected(state, a.block2)
      BY <2>2
    <3>3. mode = "fetch" /\ etags => v = etag
      BY <3>1, BlockTagged DEF PlaceInv
    <3> HIDE DEF cells
    <3> QED
      BY <3>1, <3>2, <3>3, LastPut DEF PlaceInv
  <2> QED
    BY <2>1, <2>2
<1>2. DOMAIN cells = 1 .. Len(cells) /\ \A i \in 1 .. Len(cells) : cells[i] # Zero
  BY <1>1, ElementOfSeq, LenProperties, NoneAssumption
<1>3. AssembledInPlace'
  BY <1>1, <1>2 DEF AssembledInPlace
<1>4. OneVersion'
  BY <1>1, <1>2 DEF OneVersion
<1>5. Typed' /\ RequestsPlaced'
  BY DEF PlaceInv, Typed, RequestsPlaced, Reached
<1>6. \A b : AnswerPlaced(b)' = AnswerPlaced(b)
  BY DEF AnswerPlaced, Reached, IsBare, IsWhole, IsBlock, CellsOf, Tag
<1>7. AnswersPlaced' /\ StatePlaced'
  BY <1>6 DEF PlaceInv, AnswersPlaced, StatePlaced, InPlace
<1> QED
  BY <1>3, <1>4, <1>5, <1>7 DEF PlaceInv

LEMMA PlaceStep ==
  ASSUME PlaceInv, NEW a \in answers, Download(a),
         UNCHANGED <<mode, etags, etag, answers, peer>>
  PROVE  PlaceInv'
<1> DEFINE outcome == HandleBlockwise(state, a)
           spliced == Splice(Cached(state), a.block2, a.cells)
<1>1. version' = version
  BY DEF peer
<1>2. CASE Fail
  <2>1. result'.tag = "error" /\ UNCHANGED <<requests, state>>
    BY <1>2 DEF Fail, Finish
  <2> QED
    BY <1>1, <2>1, PlaceFrame
<1>3. CASE /\ EtagMatches(a) /\ outcome.tag = "more"
           /\ Ask(Block2Request(outcome.next)) /\ state' = outcome.state
  <2>1. /\ a.block2 # None /\ ~Unexpected(state, a.block2) /\ a.block2.more
        /\ outcome.state = [cached |-> spliced, expected |-> NextNum(a.block2)]
        /\ outcome.next = [num |-> NextNum(a.block2), size |-> a.block2.size]
    BY <1>3 DEF HandleBlockwise
  <2>2. /\ requests' = requests \cup {Block2Request(outcome.next)}
        /\ UNCHANGED result
    BY <1>3 DEF Ask
  <2> HIDE DEF outcome
  <2> QED
    BY <1>1, <1>3, <2>1, <2>2, PlaceMore
<1>4. CASE /\ EtagMatches(a) /\ outcome.tag = "whole"
           /\ Finish([tag |-> "ok", code |-> a.code, cells |-> outcome.payload])
  <2>1. \/ a.block2 = None /\ outcome.payload = a.cells
        \/ /\ a.block2 # None /\ ~Unexpected(state, a.block2) /\ ~a.block2.more
           /\ outcome.payload = spliced
    BY <1>4 DEF HandleBlockwise
  <2>2. /\ result'.tag = "ok" /\ result'.cells = outcome.payload
        /\ UNCHANGED <<requests, state>>
    BY <1>4 DEF Finish
  <2> HIDE DEF outcome
  <2> QED
    BY <1>1, <1>4, <2>1, <2>2, PlaceWhole
<1> QED
  BY <1>2, <1>3, <1>4 DEF Download

LEMMA PlaceInit == Init => PlaceInv
<1> SUFFICES ASSUME Init PROVE PlaceInv
  OBVIOUS
<1>1. /\ requests = {request} /\ answers = {} /\ result.tag = "none"
      /\ etags \in BOOLEAN /\ version = 0 /\ 0 \in Version
  BY BlockTransferAssumption DEF Init, Version
<1>2. CASE Send
  <2>1. mode \in Mode /\ mode # "fetch"
    BY <1>2 DEF Send, Mode
  <2>2. request.block2 = None
    BY <1>2 DEF Send, Plain, Block1Request
  <2>3. state = EmptyState /\ Cached(state) = <<>>
    BY <1>2 DEF Send, EmptyState, Cached
  <2>4. InPlace(<<>>)
    BY EmptySeq DEF InPlace
  <2> QED
    BY <1>1, <2>1, <2>2, <2>3, <2>4 DEF PlaceInv, Typed, RequestsPlaced, AnswersPlaced,
       StatePlaced, AssembledInPlace, OneVersion
<1>3. CASE Fetch
  <2>1. PICK size \in Sizes :
          LET first   == BlockAt(0, size)
              outcome == HandleBlockwise(EmptyState, first)
          IN  /\ outcome.tag = "more"
              /\ request = Block2Request(outcome.next)
              /\ state = outcome.state
              /\ etag = first.etag
    BY <1>3 DEF Fetch
  <2> DEFINE first   == BlockAt(0, size)
             block   == first.block2
             spliced == Splice(<<>>, block, first.cells)
             next    == [num |-> NextNum(block), size |-> block.size]
  <2>2. /\ block.more
        /\ request.block2 = next
        /\ state = [cached |-> spliced, expected |-> NextNum(block)]
        /\ etag = first.etag
    <3>1. block # None /\ Cached(EmptyState) = <<>>
          /\ ~Unexpected(EmptyState, block)
      BY <2>1 DEF HandleBlockwise, EmptyState, Cached, Unexpected
    <3> DEFINE outcome == HandleBlockwise(EmptyState, first)
    <3>2. /\ outcome.tag = "more" /\ request = Block2Request(outcome.next)
          /\ state = outcome.state /\ etag = first.etag
      BY <2>1
    <3> HIDE DEF first
    <3>3. /\ block.more
          /\ outcome.state = [cached |-> spliced, expected |-> NextNum(block)]
          /\ outcome.next = next
      BY <3>1, <3>2 DEF HandleBlockwise
    <3> QED
      BY <3>2, <3>3 DEF Block2Request
  <2>3. mode \in Mode /\ (mode = "fetch" /\ etags => etag \in Version)
    BY <1>1, <1>3, <2>1 DEF Fetch, Mode, BlockAt
  <2>4. Typed
    BY <1>1, <2>3 DEF Typed
  <2>5. IsBlock(first, version) /\ Offset(block) = 0
    <3>1. size \in Nat /\ 0 * size = 0 /\ size <= size
      BY BlockTransferAssumption
    <3> QED
      BY <2>4, <3>1, BlockServed
  <2>6. mode = "fetch" /\ etags => version = etag
    BY <2>1 DEF BlockAt
  <2> HIDE DEF first
  <2>7. InPlace(spliced) /\ Len(spliced) >= block.size
    <3>1. InPlace(<<>>) /\ Len(<<>>) = 0
      BY EmptySeq DEF InPlace
    <3>2. block.size \in Nat /\ version \in Version
      BY <1>1, <2>5 DEF IsBlock, Option2
    <3>3. Offset(block) <= Len(<<>>)
      BY <2>5, <3>1
    <3>4. InPlace(spliced) /\ Len(spliced) >= Offset(block) + block.size
      BY <2>2, <2>4, <2>5, <2>6, <3>1, <3>2, <3>3, MorePut
    <3> QED
      BY <2>5, <3>2, <3>4
  <2>8. /\ block.num \in Nat /\ block.size \in Nat /\ block.size \in Sizes
        /\ spliced \in Seq(Cell) /\ Len(spliced) \in Nat
    BY <2>5, <2>7, LenProperties DEF IsBlock, Option2, InPlace
  <2>9. spliced # None /\ NextNum(block) # None /\ NextNum(block) # 0
    BY <2>8, NoneAssumption DEF NextNum
  <2> HIDE DEF spliced, block
  <2>10. Cached(state) = spliced
    BY <2>2, <2>9 DEF Cached
  <2>11. StatePlaced
    BY <2>2, <2>7, <2>9, <2>10 DEF StatePlaced
  <2>12. Offset(next) = block.size
    <3>1. Offset(next) = (block.num + 1) * block.size
      BY DEF Offset, NextNum
    <3>2. Offset(block) = block.num * block.size
      BY DEF Offset
    <3>3. \A k, s \in Nat : (k + 1) * s = k * s + s
      OBVIOUS
    <3> QED
      BY <2>5, <2>8, <3>1, <3>2, <3>3 DEF block
  <2>13. RequestsPlaced
    <3>1. next.num \in Nat /\ next.size \in Sizes
      BY <2>8 DEF NextNum
    <3>2. Reached(Offset(next))
      BY <2>7, <2>8, <2>10, <2>12 DEF Reached, block
    <3> QED
      BY <1>1, <2>2, <3>1, <3>2 DEF RequestsPlaced
  <2> QED
    BY <1>1, <2>4, <2>11, <2>13 DEF PlaceInv, AnswersPlaced, AssembledInPlace, OneVersion
<1> QED
  BY <1>2, <1>3 DEF Init

LEMMA PlaceNext == PlaceInv /\ [Next]_vars => PlaceInv'
<1> SUFFICES ASSUME PlaceInv, [Next]_vars PROVE PlaceInv'
  OBVIOUS
<1>1. CASE Peer
  <2>1. CASE Change
    <3>1. version' \in Version
      BY <2>1, BlockTransferAssumption DEF Change, PlaceInv, Typed, Version
    <3>2. UNCHANGED <<mode, etags, etag, state, result, requests, answers>>
      BY <2>1 DEF Change
    <3>3. Typed' /\ RequestsPlaced'
      BY <3>1, <3>2 DEF PlaceInv, Typed, RequestsPlaced, Reached
    <3>4. \A a : AnswerPlaced(a)' = AnswerPlaced(a)
      BY <3>2 DEF AnswerPlaced, Reached, IsBare, IsWhole, IsBlock, CellsOf, Tag
    <3>5. AnswersPlaced' /\ StatePlaced'
      BY <3>2, <3>4 DEF PlaceInv, AnswersPlaced, StatePlaced, InPlace
    <3>6. AssembledInPlace' /\ OneVersion'
      BY <3>2 DEF PlaceInv, AssembledInPlace, OneVersion
    <3> QED
      BY <3>3, <3>5, <3>6 DEF PlaceInv
  <2>2. CASE \E q \in requests :
               ServeBlock(q) \/ ServeWhole(q) \/ TakeChunk(q) \/ TakeLast(q) \/ Refuse(q)
    <3>1. UNCHANGED <<mode, etags, pc, request, state, etag, result, requests>>
      BY <1>1, PeerStep
    <3>2. PICK b : AnswerPlaced(b) /\ answers' = answers \cup {b} /\ version' = version
      BY <2>2, PeerAnswers DEF PlaceInv
    <3>3. \A a : AnswerPlaced(a)' = AnswerPlaced(a)
      BY <3>1 DEF AnswerPlaced, Reached, IsBare, IsWhole, IsBlock, CellsOf, Tag
    <3>4. AnswersPlaced'
      BY <3>2, <3>3 DEF PlaceInv, AnswersPlaced
    <3>5. Typed' /\ RequestsPlaced' /\ StatePlaced'
      BY <3>1, <3>2 DEF PlaceInv, Typed, RequestsPlaced, Reached, StatePlaced, InPlace
    <3>6. AssembledInPlace' /\ OneVersion'
      BY <3>1 DEF PlaceInv, AssembledInPlace, OneVersion
    <3> QED
      BY <3>4, <3>5, <3>6 DEF PlaceInv
  <2> QED
    BY <1>1, <2>1, <2>2 DEF Peer
<1>2. ASSUME NEW a \in answers, Receive(a) PROVE PlaceInv'
  <2>1. UNCHANGED <<mode, etags, etag, answers, peer>> /\ version' = version
    BY <1>2 DEF Receive, peer
  <2>2. CASE Download(a)
    BY <2>1, <2>2, PlaceStep
  <2>3. CASE Fail
    <3>1. result'.tag = "error" /\ UNCHANGED <<requests, state>>
      BY <2>3 DEF Fail, Finish
    <3> QED
      BY <2>1, <3>1, PlaceFrame
  <2>4. CASE Ask(Block1Request(request.block1.num + 1)) /\ UNCHANGED <<pc, state>>
    <3>1. UNCHANGED <<result, state>>
      BY <2>4 DEF Ask
    <3>2. RequestsPlaced'
      BY <2>1, <2>4 DEF PlaceInv, RequestsPlaced, Reached, Ask, Block1Request
    <3>3. \A b : AnswerPlaced(b)' = AnswerPlaced(b)
      BY <2>1, <3>1 DEF AnswerPlaced, Reached, IsBare, IsWhole, IsBlock, CellsOf, Tag
    <3>4. Typed' /\ AnswersPlaced' /\ StatePlaced'
      BY <2>1, <3>1, <3>3 DEF PlaceInv, Typed, AnswersPlaced, StatePlaced, InPlace
    <3>5. AssembledInPlace' /\ OneVersion'
      BY <2>1, <3>1 DEF PlaceInv, AssembledInPlace, OneVersion
    <3> QED
      BY <3>2, <3>4, <3>5 DEF PlaceInv
  <2> QED
    BY <1>2, <2>2, <2>3, <2>4 DEF Receive, Upload
<1>3. CASE GiveUp
  <2>1. /\ result'.tag = "error"
        /\ UNCHANGED <<mode, etags, etag, version, state, requests, answers>>
    BY <1>3 DEF GiveUp, Fail, Finish, peer
  <2> QED
    BY <2>1, PlaceFrame
<1>4. CASE UNCHANGED vars
  BY <1>4, PlaceFrame DEF vars
<1> QED
  BY <1>1, <1>2, <1>3, <1>4 DEF Next

\* A payload never has padding in it, and one of a single version has every
\* cell at its place, for any block sizes and lengths (handle_blockwise,
\* client.rs:1236-1262).
THEOREM AssembledInPlaceCorrect == Spec => []AssembledInPlace
<1>1. PlaceInv => AssembledInPlace
  BY DEF PlaceInv
<1> QED
  BY <1>1, PlaceInit, PlaceNext, PTL DEF Spec

\* The rest of a notification is all of the version the notification was of,
\* if it has an ETag (receive_with_etag_validation, client.rs:1039-1077).
THEOREM OneVersionCorrect == Spec => []OneVersion
<1>1. PlaceInv => OneVersion
  BY DEF PlaceInv
<1> QED
  BY <1>1, PlaceInit, PlaceNext, PTL DEF Spec
=============================================================================
