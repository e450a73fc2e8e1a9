------------------------- MODULE JitterBufferProofs -------------------------
(***************************************************************************)
(* The jitter buffer is a queue for every ring size, depth limits, block   *)
(* sizes and sample type, as long as the reader's block is no larger than  *)
(* MIN_DEPTH and packets are smaller than the reserve of putIn's guard.    *)
(* The inductive invariant is the type of the indexes and that the ring is *)
(* never quite full: a full ring would be taken for an empty one.          *)
(***************************************************************************)
EXTENDS JitterBuffer, SequenceTheorems, TLAPS

SizesFit ==
  /\ GetFrames <= MinDepth
  /\ \A f \in PutFrames : f < Reserve

IndexOK ==
  /\ readIdx \in 0..N /\ writeIdx \in 0..N
  /\ depth < N

IInv == TypeOK /\ IndexOK

DepthOf(r, w) == IF w >= r THEN w - r ELSE N - r + w

USE JitterAssumption

-----------------------------------------------------------------------------
LEMMA DepthType == IndexOK => depth \in 0..(N - 1)
BY DEF IndexOK, depth

(* Moving the read index by no more than the depth takes that much off it, *)
(* and the slots that remain are the same ones.                            *)
LEMMA AdvanceRead ==
  ASSUME NEW r \in 0..N, NEW w \in 0..N, DepthOf(r, w) < N,
         NEW n \in 0..DepthOf(r, w)
  PROVE  /\ Advance(r, n) \in 0..N
         /\ DepthOf(Advance(r, n), w) = DepthOf(r, w) - n
         /\ \A k \in 1..(N - n) : Slot(Advance(r, n), k) = Slot(r, n + k)
BY DEF Advance, DepthOf, Slot

(* Moving the write index adds to the depth while it stays below N, and    *)
(* the slots written are none of those already occupied.                   *)
LEMMA AdvanceWrite ==
  ASSUME NEW r \in 0..N, NEW w \in 0..N, NEW n \in 1..N,
         DepthOf(r, w) + n < N
  PROVE  /\ Advance(w, n) \in 0..N
         /\ DepthOf(r, Advance(w, n)) = DepthOf(r, w) + n
         /\ \A k \in 1..DepthOf(r, w) : Offset(w, Slot(r, k)) >= n
         /\ \A k \in 1..n : Offset(w, Slot(r, DepthOf(r, w) + k)) = k - 1
BY DEF Advance, DepthOf, Slot, Offset

LEMMA SlotType ==
  ASSUME NEW r \in 0..N, NEW k \in 1..N
  PROVE  Slot(r, k) \in Slots
BY DEF Slot, Slots

LEMMA ContentsType ==
  ASSUME TypeOK, IndexOK
  PROVE  Contents \in Seq(Sample) /\ Len(Contents) = depth
         /\ \A k \in 1..depth : Contents[k] = buf[Slot(readIdx, k)]
<1>1. depth \in 0..(N - 1)
  BY DepthType
<1>2. \A k \in 1..depth : Slot(readIdx, k) \in Slots
  BY <1>1, SlotType DEF IndexOK
<1>3. \A k \in 1..depth : buf[Slot(readIdx, k)] \in Sample
  BY <1>2 DEF TypeOK
<1> HIDE DEF depth
<1> QED
  BY <1>1, <1>3 DEF Contents

-----------------------------------------------------------------------------
(* putIn leaves the queue alone or appends to it.                          *)
LEMMA PutStep ==
  ASSUME SizesFit, IInv, NEW f \in PutFrames, NEW seqNo \in SeqNos,
         NEW block \in [1..f -> Sample], PutIn(block, seqNo)
  PROVE  /\ IInv'
         /\ Fifo!Accept \/ UNCHANGED Fifo!fifoVars
         /\ Contents' \in {Contents, Contents \o block}
<1>0. TypeOK /\ IndexOK /\ depth \in 0..(N - 1) /\ f \in 1..N /\ f < Reserve
  BY DepthType DEF IInv, SizesFit
<1>1. /\ lastSeq' = seqNo /\ anyPut' = TRUE
      /\ UNCHANGED <<filling, fillDepth, played>>
  BY DEF PutIn
<1>2. CASE IsDuplicate(seqNo) \/ TooDeep
  <2>1. UNCHANGED <<buf, readIdx, writeIdx>>
    BY <1>2 DEF PutIn, ring
  <2>2. depth' = depth /\ Contents' = Contents
    BY <2>1 DEF depth, Contents
  <2>3. IInv'
    BY <1>0, <1>1, <2>1, <2>2 DEF IInv, TypeOK, IndexOK
  <2> QED
    BY <1>1, <2>2, <2>3 DEF Fifo!fifoVars
<1>3. CASE ~(IsDuplicate(seqNo) \/ TooDeep)
  <2>1. /\ buf' = [i \in Slots |-> IF Offset(writeIdx, i) < Len(block)
                                   THEN block[Offset(writeIdx, i) + 1]
                                   ELSE buf[i]]
        /\ writeIdx' = Advance(writeIdx, Len(block))
        /\ readIdx' = readIdx
        /\ Len(block) = f
    BY <1>0, <1>3 DEF PutIn, AppendBlock
  <2>2. DepthOf(readIdx, writeIdx) = depth
        /\ DepthOf(readIdx, writeIdx)' = depth'
    BY DEF depth, DepthOf
  <2>3. DepthOf(readIdx, writeIdx) + f < N
    BY <1>0, <1>3, <2>2 DEF TooDeep
  <2>4. readIdx \in 0..N /\ writeIdx \in 0..N
    BY <1>0 DEF IndexOK
  <2>5. /\ Advance(writeIdx, f) \in 0..N
        /\ DepthOf(readIdx, Advance(writeIdx, f))
             = DepthOf(readIdx, writeIdx) + f
        /\ \A k \in 1..DepthOf(readIdx, writeIdx) :
             Offset(writeIdx, Slot(readIdx, k)) >= f
        /\ \A k \in 1..f : Offset(writeIdx,
             Slot(readIdx, DepthOf(readIdx, writeIdx) + k)) = k - 1
    BY ONLY <1>0, <2>3, <2>4, AdvanceWrite, JitterAssumption
  <2>6. depth' = depth + f
    BY <2>1, <2>2, <2>5
  <2>7. \A k \in 1..depth :
          Slot(readIdx, k) \in Slots /\ Offset(writeIdx, Slot(readIdx, k)) >= f
    BY <1>0, <2>2, <2>4, <2>5, SlotType
  <2>8. \A k \in 1..depth : buf'[Slot(readIdx, k)] = buf[Slot(readIdx, k)]
    <3>1. \A i \in Slots : Offset(writeIdx, i) \in Int
      BY <2>4 DEF Offset, Slots
    <3> QED
      BY <1>0, <2>1, <2>7, <3>1
  <2>9. buf' \in [Slots -> Sample]
    <3>1. \A i \in Slots : Offset(writeIdx, i) \in Nat
      BY <2>4 DEF Offset, Slots
    <3> QED
      BY <1>0, <2>1, <3>1 DEF TypeOK
  <2>10. IInv'
    <3>1. IndexOK'
      BY <1>0, <2>1, <2>2, <2>3, <2>4, <2>5, <2>6 DEF IndexOK
    <3> QED
      BY <1>0, <1>1, <2>9, <3>1 DEF IInv, TypeOK, IndexOK
  <2>11. /\ Contents \in Seq(Sample) /\ Len(Contents) = depth
         /\ \A k \in 1..depth : Contents[k] = buf[Slot(readIdx, k)]
    BY <1>0, ContentsType
  <2>12. /\ Contents' \in Seq(Sample) /\ Len(Contents') = depth'
         /\ \A k \in 1..depth' :
              Contents'[k] = buf'[Slot(readIdx, k)]
    <3>1. Contents' = [k \in 1..depth' |-> buf'[Slot(readIdx, k)]]
      BY <2>1 DEF Contents
    <3>2. \A k \in 1..depth' : Slot(readIdx, k) \in Slots
      BY <1>0, <2>3, <2>2, <2>4, <2>6, SlotType
    <3>3. depth' \in Nat
      BY <1>0, <2>6
    <3> QED
      BY <2>9, <3>1, <3>2, <3>3
  <2>13. SubSeq(Contents', 1, depth) = Contents
    <3>1. \A k \in 1..depth : Contents'[k] = Contents[k]
      BY <1>0, <2>6, <2>8, <2>11, <2>12
    <3>2. \A k \in 1..depth : Contents'[k] \in Sample
      BY <1>0, <2>6, <2>12
    <3>3. /\ SubSeq(Contents', 1, depth) \in Seq(Sample)
          /\ Len(SubSeq(Contents', 1, depth)) = depth
          /\ \A k \in 1..depth : SubSeq(Contents', 1, depth)[k] = Contents'[k]
      BY <1>0, <3>2, SubSeqProperties
    <3> QED
      BY <2>11, <3>1, <3>3, SeqEqual
  <2>14. Contents' = Contents \o block
    <3>1. \A k \in 1..depth : Contents'[k] = Contents[k]
      BY <1>0, <2>6, <2>8, <2>11, <2>12
    <3>2. \A k \in 1..f : Contents'[depth + k] = block[k]
      <4> SUFFICES ASSUME NEW k \in 1..f
                   PROVE  Contents'[depth + k] = block[k]
        OBVIOUS
      <4>1. depth + k \in 1..depth' /\ depth + k \in 1..N
        BY <1>0, <2>2, <2>3, <2>6
      <4>2. Slot(readIdx, depth + k) \in Slots
        BY <2>4, <4>1, SlotType
      <4>3. Offset(writeIdx, Slot(readIdx, depth + k)) = k - 1
        BY <2>2, <2>5
      <4>4. buf'[Slot(readIdx, depth + k)] = block[k]
        BY <1>0, <2>1, <4>2, <4>3
      <4> QED
        BY <2>12, <4>1, <4>4
    <3>3. /\ block \in Seq(Sample)
          /\ Contents \o block \in Seq(Sample)
          /\ Len(Contents \o block) = depth'
          /\ \A k \in 1..depth : (Contents \o block)[k] = Contents[k]
          /\ \A k \in 1..f : (Contents \o block)[depth + k] = block[k]
      BY <1>0, <2>1, <2>6, <2>11
    <3>4. \A k \in 1..depth' : Contents'[k] = (Contents \o block)[k]
      <4> SUFFICES ASSUME NEW k \in 1..depth'
                   PROVE  Contents'[k] = (Contents \o block)[k]
        OBVIOUS
      <4>1. CASE k <= depth
        BY <1>0, <2>6, <3>1, <3>3, <4>1
      <4>2. CASE k > depth
        <5>1. PICK j \in 1..f : k = depth + j
          <6>1. k - depth \in 1..f /\ k = depth + (k - depth)
            BY <1>0, <2>6, <4>2
          <6> HIDE DEF depth
          <6> QED
            BY <6>1
        <5>2. Contents'[depth + j] = block[j]
          BY <3>2
        <5>3. (Contents \o block)[depth + j] = block[j]
          BY <3>3
        <5> QED
          BY <5>1, <5>2, <5>3
      <4>3. k <= depth \/ k > depth
        BY <1>0, <2>6
      <4> QED
        BY <4>1, <4>2, <4>3
    <3> QED
      BY <2>12, <3>3, <3>4, SeqEqual
  <2> QED
    BY <1>0, <1>1, <2>6, <2>10, <2>11, <2>12, <2>13, <2>14 DEF Fifo!Accept
<1> QED
  BY <1>2, <1>3

(* getOut of a block plays the queue's samples behind those it flushes,    *)
(* and leaves no more than the target less the block.                      *)
LEMMA BlockStep ==
  ASSUME SizesFit, IInv, NEW target \in Target, GetBlock(target)
  PROVE  IInv' /\ Fifo!Play /\ depth' <= target - GetFrames
<1> DEFINE over == IF depth > target THEN depth - target ELSE 0
           from == Advance(readIdx, over)
<1>0. /\ TypeOK /\ IndexOK /\ depth \in 0..(N - 1)
      /\ depth >= GetFrames /\ target \in Int /\ GetFrames <= target
  BY DepthType DEF IInv, SizesFit, GetBlock, Target
<1>1. over \in 0..depth /\ over + GetFrames <= depth /\ depth - over <= target
  BY <1>0
<1>2. readIdx \in 0..N /\ writeIdx \in 0..N
      /\ DepthOf(readIdx, writeIdx) = depth
      /\ DepthOf(readIdx, writeIdx)' = depth'
  BY <1>0 DEF IndexOK, depth, DepthOf
<1>3. Advance(readIdx, 0) = readIdx
  BY <1>2 DEF Advance
<1>4. /\ played' = [k \in 1..GetFrames |-> buf[Slot(from, k)]]
      /\ readIdx' = Advance(from, GetFrames)
      /\ filling' = FALSE
      /\ UNCHANGED <<buf, writeIdx, lastSeq, anyPut, fillDepth>>
  BY <1>3 DEF GetBlock
<1> HIDE DEF over
<1>5. /\ from \in 0..N
      /\ DepthOf(from, writeIdx) = depth - over
      /\ \A k \in 1..(N - over) : Slot(from, k) = Slot(readIdx, over + k)
  <2>1. over \in 0..DepthOf(readIdx, writeIdx)
        /\ DepthOf(readIdx, writeIdx) < N
    BY <1>0, <1>1, <1>2
  <2>2. /\ Advance(readIdx, over) \in 0..N
        /\ DepthOf(Advance(readIdx, over), writeIdx)
             = DepthOf(readIdx, writeIdx) - over
        /\ \A k \in 1..(N - over) :
             Slot(Advance(readIdx, over), k) = Slot(readIdx, over + k)
    BY ONLY <1>2, <2>1, AdvanceRead, JitterAssumption
  <2> QED
    BY <1>2, <2>2
<1> HIDE DEF from
<1>6. /\ readIdx' \in 0..N
      /\ depth' = depth - over - GetFrames
      /\ \A k \in 1..(N - GetFrames) :
           Slot(readIdx', k) = Slot(from, GetFrames + k)
  <2>1. GetFrames \in 0..DepthOf(from, writeIdx) /\ DepthOf(from, writeIdx) < N
    BY <1>0, <1>1, <1>5
  <2>2. /\ Advance(from, GetFrames) \in 0..N
        /\ DepthOf(Advance(from, GetFrames), writeIdx)
             = DepthOf(from, writeIdx) - GetFrames
        /\ \A k \in 1..(N - GetFrames) :
             Slot(Advance(from, GetFrames), k) = Slot(from, GetFrames + k)
    BY ONLY <1>2, <1>5, <2>1, AdvanceRead, JitterAssumption
  <2>3. DepthOf(readIdx, writeIdx)' = DepthOf(readIdx', writeIdx)
    BY <1>4 DEF DepthOf
  <2> QED
    BY <1>2, <1>4, <1>5, <2>2, <2>3
<1>7. depth' \in 0..(N - 1)
  BY <1>0, <1>1, <1>6
<1>8. /\ Contents \in Seq(Sample) /\ Len(Contents) = depth
      /\ \A k \in 1..depth : Contents[k] = buf[Slot(readIdx, k)]
  BY <1>0, ContentsType
<1>9. \A k \in 1..depth : Contents[k] \in Sample
  BY <1>0, <1>8
<1>10. \A k \in 1..GetFrames : buf[Slot(from, k)] = Contents[over + k]
  BY <1>0, <1>1, <1>5, <1>8
<1>11. played' \in Seq(Sample) /\ Len(played') = GetFrames
       /\ \A k \in 1..GetFrames : played'[k] = Contents[over + k]
  <2>1. \A k \in 1..GetFrames : buf[Slot(from, k)] \in Sample
    BY <1>0, <1>1, <1>9, <1>10
  <2> QED
    BY <1>4, <1>10, <2>1
<1>12. played' = SubSeq(Contents, over + 1, over + GetFrames)
  <2>1. \A i \in (over + 1)..(over + GetFrames) : Contents[i] \in Sample
    BY <1>0, <1>1, <1>9
  <2>2. over + 1 \in Int /\ over + GetFrames \in Int
    BY <1>1
  <2>3. /\ SubSeq(Contents, over + 1, over + GetFrames) \in Seq(Sample)
        /\ Len(SubSeq(Contents, over + 1, over + GetFrames)) = GetFrames
        /\ \A k \in 1..GetFrames :
             SubSeq(Contents, over + 1, over + GetFrames)[k]
               = Contents[over + k]
    <3>1. /\ SubSeq(Contents, over + 1, over + GetFrames) \in Seq(Sample)
          /\ Len(SubSeq(Contents, over + 1, over + GetFrames))
               = IF over + 1 <= over + GetFrames
                 THEN (over + GetFrames) - (over + 1) + 1 ELSE 0
          /\ \A i \in 1..((over + GetFrames) - (over + 1) + 1) :
               SubSeq(Contents, over + 1, over + GetFrames)[i]
                 = Contents[(over + 1) + i - 1]
      BY ONLY <2>1, <2>2, SubSeqProperties
    <3> QED
      BY <1>1, <3>1
  <2> QED
    BY <1>11, <2>3, SeqEqual
<1>13. IInv'
  <2>1. IndexOK'
    BY <1>2, <1>4, <1>6, <1>7 DEF IndexOK
  <2>2. TypeOK'
    <3>1. /\ buf' \in [Slots -> Sample]
          /\ readIdx' \in 0..N /\ writeIdx' \in 0..N
      BY <1>0, <1>4, <2>1 DEF TypeOK, IndexOK
    <3> QED
      BY <1>0, <1>4, <1>11, <3>1 DEF TypeOK
  <2> QED
    BY <2>1, <2>2 DEF IInv
<1>14. /\ Contents' \in Seq(Sample) /\ Len(Contents') = depth'
       /\ \A k \in 1..depth' : Contents'[k] = Contents[over + GetFrames + k]
  <2>1. /\ Contents' \in Seq(Sample) /\ Len(Contents') = depth'
        /\ \A k \in 1..depth' : Contents'[k] = buf'[Slot(readIdx', k)]
    <3>1. Contents' = [k \in 1..depth' |-> buf'[Slot(readIdx', k)]]
      BY DEF Contents, Slot
    <3>2. \A k \in 1..depth' : Slot(readIdx', k) \in Slots
      BY <1>6, <1>7, SlotType
    <3>3. \A k \in 1..depth' : buf'[Slot(readIdx', k)] \in Sample
      BY <1>0, <1>4, <3>2 DEF TypeOK
    <3> QED
      BY <1>7, <3>1, <3>3
  <2>2. \A k \in 1..depth' :
          Slot(readIdx', k) = Slot(readIdx, over + GetFrames + k)
    <3> SUFFICES ASSUME NEW k \in 1..depth'
                 PROVE  Slot(readIdx', k) = Slot(readIdx, over + GetFrames + k)
      OBVIOUS
    <3>1. k \in 1..(N - GetFrames) /\ GetFrames + k \in 1..(N - over)
          /\ over + (GetFrames + k) = over + GetFrames + k
      BY <1>0, <1>1, <1>6, <1>7
    <3> QED
      BY <1>5, <1>6, <3>1
  <2>3. \A k \in 1..depth' : over + GetFrames + k \in 1..depth
    BY <1>0, <1>1, <1>6, <1>7
  <2> QED
    BY <1>4, <1>8, <2>1, <2>2, <2>3
<1>15. Contents' = SubSeq(Contents, over + GetFrames + 1, Len(Contents))
  <2>1. \A i \in (over + GetFrames + 1)..depth : Contents[i] \in Sample
    BY <1>0, <1>1, <1>9
  <2>2. over + GetFrames + 1 \in Int /\ depth \in Int
    BY <1>0, <1>1
  <2>3. /\ SubSeq(Contents, over + GetFrames + 1, depth) \in Seq(Sample)
        /\ Len(SubSeq(Contents, over + GetFrames + 1, depth))
             = IF over + GetFrames + 1 <= depth
               THEN depth - (over + GetFrames + 1) + 1 ELSE 0
        /\ \A i \in 1..(depth - (over + GetFrames + 1) + 1) :
             SubSeq(Contents, over + GetFrames + 1, depth)[i]
               = Contents[(over + GetFrames + 1) + i - 1]
    BY ONLY <2>1, <2>2, SubSeqProperties
  <2>4. /\ Len(SubSeq(Contents, over + GetFrames + 1, depth)) = depth'
        /\ \A k \in 1..depth' :
             SubSeq(Contents, over + GetFrames + 1, depth)[k]
               = Contents[over + GetFrames + k]
    BY <1>0, <1>1, <1>6, <2>3
  <2>5. \A k \in 1..depth' :
          Contents'[k] = SubSeq(Contents, over + GetFrames + 1, depth)[k]
    BY <1>14, <2>4
  <2>6. Contents' = SubSeq(Contents, over + GetFrames + 1, depth)
    BY ONLY <1>14, <2>3, <2>4, <2>5, SeqEqual
  <2> QED
    BY <1>8, <2>6
<1>16. Fifo!Play
  <2>1. over \in 0..Len(Contents) /\ GetFrames \in 0..Len(Contents)
        /\ over + GetFrames <= Len(Contents)
    BY <1>0, <1>1, <1>8
  <2> QED
    BY ONLY <1>12, <1>15, <2>1 DEF Fifo!Play
<1>17. depth' <= target - GetFrames
  BY <1>0, <1>1, <1>6
<1> QED
  BY <1>13, <1>16, <1>17

(* A getOut that plays silence leaves the queue alone.                     *)
LEMMA SilenceStep ==
  ASSUME IInv, GetPrefill \/ GetStarved
  PROVE  IInv' /\ Fifo!Silence
<1>1. /\ UNCHANGED <<buf, readIdx, writeIdx, lastSeq, anyPut, fillDepth>>
      /\ filling' \in {filling, anyPut} /\ played' = <<>>
  BY DEF GetPrefill, GetStarved, ring
<1>2. depth' = depth /\ Contents' = Contents
  BY <1>1 DEF depth, Contents
<1>3. IndexOK'
  BY <1>1, <1>2 DEF IInv, IndexOK
<1>4. TypeOK'
  BY <1>1 DEF IInv, TypeOK
<1> QED
  BY <1>1, <1>2, <1>3, <1>4 DEF IInv, Fifo!Silence

(* A flush empties the queue.                                              *)
LEMMA FlushStep ==
  ASSUME IInv, NEW d \in FillDepths, Flush(d)
  PROVE  IInv' /\ Fifo!Clear
<1>1. /\ readIdx' = 0 /\ writeIdx' = 0 /\ lastSeq' = 0 /\ anyPut' = FALSE
      /\ filling' = TRUE /\ fillDepth' = d
      /\ buf' = buf /\ played' = played
  BY DEF Flush
<1>2. depth' = 0
  BY <1>1 DEF depth
<1>3. Contents' = <<>>
  <2> HIDE DEF depth
  <2>1. Contents' = [k \in 1..0 |-> buf'[Slot(readIdx', k)]]
    BY <1>2 DEF Contents, Slot
  <2> QED
    BY <2>1
<1>4. IndexOK'
  BY <1>1, <1>2 DEF IndexOK
<1>5. TypeOK'
  <2>1. readIdx' \in 0..N /\ writeIdx' \in 0..N
    BY <1>4 DEF IndexOK
  <2>2. 0 \in SeqNos /\ {} \subseteq SeqNos
    OBVIOUS
  <2> QED
    BY <1>1, <2>1, <2>2 DEF IInv, TypeOK
<1> QED
  BY <1>1, <1>3, <1>4, <1>5 DEF IInv, Fifo!Clear

LEMMA InitStep == RingInit => IInv /\ Fifo!Init
<1> SUFFICES ASSUME RingInit PROVE IInv /\ Fifo!Init
  OBVIOUS
<1>1. depth = 0
  BY DEF RingInit, depth
<1>2. Contents = <<>>
  <2>1. Contents = [k \in 1..0 |-> buf[Slot(readIdx, k)]]
    BY <1>1 DEF Contents
  <2> QED
    BY <2>1
<1>3. IndexOK
  BY <1>1 DEF RingInit, IndexOK
<1>4. TypeOK
  <2>1. readIdx \in 0..N /\ writeIdx \in 0..N
    BY <1>3 DEF IndexOK
  <2>2. 0 \in SeqNos /\ {} \subseteq SeqNos /\ 0 \in FillDepths
        /\ <<>> \in Seq(Sample)
    OBVIOUS
  <2> QED
    BY <2>1, <2>2 DEF RingInit, TypeOK
<1> QED
  BY <1>2, <1>3, <1>4 DEF IInv, RingInit, Fifo!Init

(* Every step keeps the invariant and is a step of the queue, and a putIn  *)
(* keeps its block whole.                                                  *)
LEMMA QueueStep ==
  ASSUME SizesFit, IInv, [RingNext]_ringVars
  PROVE  IInv' /\ [Fifo!Next]_(Fifo!fifoVars)
<1>1. ASSUME NEW f \in PutFrames, NEW seqNo \in SeqNos,
             NEW block \in [1..f -> Sample], PutIn(block, seqNo)
      PROVE  IInv' /\ [Fifo!Next]_(Fifo!fifoVars)
  BY <1>1, PutStep DEF Fifo!Next
<1>2. CASE GetPrefill \/ GetStarved
  BY <1>2, SilenceStep DEF Fifo!Next
<1>3. ASSUME NEW target \in Target, GetBlock(target)
      PROVE  IInv' /\ [Fifo!Next]_(Fifo!fifoVars)
  BY <1>3, BlockStep DEF Fifo!Next
<1>4. ASSUME NEW d \in FillDepths, Flush(d)
      PROVE  IInv' /\ [Fifo!Next]_(Fifo!fifoVars)
  BY <1>4, FlushStep DEF Fifo!Next
<1>5. CASE UNCHANGED ringVars
  <2>1. UNCHANGED <<buf, readIdx, writeIdx, lastSeq, anyPut, filling,
                    fillDepth, played>>
    BY <1>5 DEF ringVars, ring
  <2>2. depth' = depth /\ Contents' = Contents
    BY <2>1 DEF depth, Contents
  <2>3. IndexOK' /\ TypeOK'
    BY <2>1, <2>2 DEF IInv, IndexOK, TypeOK
  <2> QED
    BY <2>1, <2>2, <2>3 DEF IInv, Fifo!fifoVars
<1> QED
  BY <1>1, <1>2, <1>3, <1>4, <1>5 DEF RingNext

-----------------------------------------------------------------------------
(* The types hold and the ring is never full, so that an empty ring and a  *)
(* full one, which have equal indexes, are never mistaken for each other.  *)
THEOREM Invariance == SizesFit /\ RingSpec => []IInv
<1> SUFFICES ASSUME SizesFit PROVE RingSpec => []IInv
  OBVIOUS
<1>1. RingInit => IInv
  BY InitStep
<1>2. IInv /\ [RingNext]_ringVars => IInv'
  BY QueueStep
<1> QED
  BY <1>1, <1>2, PTL DEF RingSpec

(* Type correctness: the indexes stay inside the ring or just behind it.   *)
THEOREM TypeCorrect == SizesFit /\ RingSpec => []TypeOK
<1>1. IInv => TypeOK
  BY DEF IInv
<1> QED
  BY <1>1, Invariance, PTL

(* The ring implements the queue: putIn, getOut and flush are the queue's  *)
(* operations, whatever the ring size, the depths and the block sizes.     *)
THEOREM RingIsFifo == SizesFit /\ RingSpec => IsFifo
<1> SUFFICES ASSUME SizesFit PROVE RingSpec => IsFifo
  OBVIOUS
<1>1. RingInit => Fifo!Init
  BY InitStep
<1>2. IInv /\ [RingNext]_ringVars => [Fifo!Next]_(Fifo!fifoVars)
  BY QueueStep
<1>3. RingSpec => []IInv
  BY Invariance
<1> QED
  BY <1>1, <1>2, <1>3, PTL DEF RingSpec, IsFifo, Fifo!Spec

(* A packet's block enters the queue whole, however it falls in the ring.  *)
THEOREM BlocksWhole == SizesFit /\ RingSpec => WholeBlocks
<1> DEFINE Put == \A f \in PutFrames, seqNo \in SeqNos :
                    \A block \in [1..f -> Sample] :
                      PutIn(block, seqNo)
                        => Contents' \in {Contents, Contents \o block}
<1> SUFFICES ASSUME SizesFit PROVE RingSpec => [][Put]_ringVars
  BY DEF WholeBlocks
<1>1. IInv => Put
  BY PutStep
<1> HIDE DEF Put
<1>2. IInv /\ [RingNext]_ringVars => [Put]_ringVars
  BY <1>1
<1>3. RingSpec => []IInv
  BY Invariance
<1> QED
  BY <1>2, <1>3, PTL DEF RingSpec

(* Latency is bounded: what getOut leaves waiting is at most MaxDepth less *)
(* the block it played, whatever depth the filter aims at.                 *)
THEOREM LatencyIsBounded == SizesFit /\ RingSpec => LatencyBounded
<1> DEFINE Bounded == played' # <<>> /\ readIdx' # readIdx
                        => depth' <= MaxDepth - GetFrames
<1> SUFFICES ASSUME SizesFit PROVE RingSpec => [][Bounded]_ringVars
  BY DEF LatencyBounded
<1>1. IInv /\ [RingNext]_ringVars => [Bounded]_ringVars
  <2> SUFFICES ASSUME IInv, RingNext, played' # <<>>, readIdx' # readIdx
               PROVE  depth' <= MaxDepth - GetFrames
    OBVIOUS
  <2> HIDE DEF Bounded
  <2>1. ASSUME NEW f \in PutFrames, NEW seqNo \in SeqNos,
               NEW block \in [1..f -> Sample], PutIn(block, seqNo)
        PROVE  readIdx' = readIdx
    BY <2>1 DEF PutIn, AppendBlock, ring
  <2>2. CASE GetPrefill \/ GetStarved
    BY <2>2 DEF GetPrefill, GetStarved
  <2>3. ASSUME NEW target \in Target, GetBlock(target)
        PROVE  depth' <= MaxDepth - GetFrames
    <3>1. /\ depth' <= target - GetFrames /\ IInv'
          /\ target \in Int /\ target <= MaxDepth
      BY <2>3, BlockStep DEF Target
    <3>2. depth' \in Int
      BY <3>1, DepthType DEF IInv, IndexOK, depth
    <3> HIDE DEF depth
    <3> QED
      BY <3>1, <3>2
  <2>4. ASSUME NEW d \in FillDepths, Flush(d)
        PROVE  depth' <= MaxDepth - GetFrames
    <3>1. depth' = 0
      BY <2>4 DEF Flush, depth
    <3> HIDE DEF depth
    <3> QED
      BY <3>1 DEF SizesFit
  <2> QED
    BY <2>1, <2>2, <2>3, <2>4 DEF RingNext
<1> HIDE DEF Bounded
<1>2. RingSpec => []IInv
  BY Invariance
<1> QED
  BY <1>1, <1>2, PTL DEF RingSpec
=============================================================================
