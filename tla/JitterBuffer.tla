---------------------------- MODULE JitterBuffer ----------------------------
(***************************************************************************)
(* JitterBuffer: the ring a channel's samples wait in between the packet   *)
(* that brought them (putIn) and the mix they are played in (getOut).      *)
(* Calls are whole steps here, as on the audio thread that makes both.     *)
(* The target depth comes from a filter over the measured depths; any      *)
(* value from MinDepth to MaxDepth may come out of it.                     *)
(***************************************************************************)
EXTENDS Integers, Sequences

CONSTANTS
  Sample,     \* sample values
  N,          \* JITTER_SAMPLES
  Reserve,    \* the 512 that maxDepth leaves of JITTER_SAMPLES
  MinDepth,   \* MIN_DEPTH
  MaxDepth,   \* MAX_DEPTH
  PutFrames,  \* block sizes of packets
  GetFrames,  \* block size of the reader
  FillDepths, \* initial depths given to flush
  SeqNos      \* packet sequence numbers, 0 among them

ASSUME JitterAssumption ==
  /\ N \in Nat \ {0} /\ Reserve \in 0..N
  /\ MinDepth \in Nat \ {0} /\ MaxDepth \in Nat /\ MinDepth <= MaxDepth
  /\ PutFrames \subseteq 1..N
  /\ GetFrames \in 1..N
  /\ FillDepths \subseteq Nat /\ 0 \in FillDepths
  /\ SeqNos \subseteq Nat /\ 0 \in SeqNos
  /\ Sample # {}

VARIABLES
  buf,        \* myBuffer
  readIdx, writeIdx,
  lastSeq,    \* lastSequence
  anyPut,     \* numPuts > 0
  filling,    \* m_filling
  fillDepth,  \* m_fillDepth
  played      \* the block of the last getOut; <<>> is a block of zeros

ring == <<buf, readIdx, writeIdx>>
ringVars == <<ring, lastSeq, anyPut, filling, fillDepth, played>>

Slots == 0..(N - 1)

-----------------------------------------------------------------------------
(* Bugs this code could have; each replaces the definition named beside it *)
TooDeepFull == FALSE              \* TooDeep: a full ring takes more
TargetUnbounded == MinDepth..N    \* Target: no cap at MAX_DEPTH
OffsetNoWrap(idx, i) ==           \* Offset: the rest of a block that wraps
  IF i >= idx THEN i - idx ELSE N \* is not written
AdvanceOnly(idx, n) == idx + n    \* Advance: never wraps

-----------------------------------------------------------------------------
(* Samples between the two indexes.  An index that runs up to the end of   *)
(* the ring stays there until its next step.                               *)
depth == IF writeIdx >= readIdx THEN writeIdx - readIdx
         ELSE N - readIdx + writeIdx

(* How appendBuffer moves writeIdx, and getOut readIdx, by n.              *)
Advance(idx, n) == IF N - idx >= n THEN idx + n ELSE n - (N - idx)

(* The k-th slot from idx on, and how far slot i is from idx.              *)
Slot(idx, k) == IF idx + k - 1 < N THEN idx + k - 1 ELSE idx + k - 1 - N
Offset(idx, i) == IF i >= idx THEN i - idx ELSE N - idx + i

IsDuplicate(seqNo) == seqNo = lastSeq
TooDeep == depth > N - Reserve

(* appendBuffer *)
AppendBlock(block) ==
  /\ buf' = [i \in Slots |-> IF Offset(writeIdx, i) < Len(block)
                             THEN block[Offset(writeIdx, i) + 1] ELSE buf[i]]
  /\ writeIdx' = Advance(writeIdx, Len(block))
  /\ UNCHANGED readIdx

(* putIn: a packet with the last sequence number again, or one that finds  *)
(* the ring too deep, is dropped; it counts as put all the same.           *)
PutIn(block, seqNo) ==
  /\ lastSeq' = seqNo
  /\ anyPut' = TRUE
  /\ IF IsDuplicate(seqNo) \/ TooDeep THEN UNCHANGED ring ELSE AppendBlock(block)
  /\ UNCHANGED <<filling, fillDepth, played>>

Target == MinDepth..MaxDepth

Prefilling == filling /\ depth < fillDepth

(* getOut while the initial fill is not done *)
GetPrefill ==
  /\ Prefilling
  /\ played' = <<>>
  /\ UNCHANGED <<ring, lastSeq, anyPut, filling, fillDepth>>

(* getOut without enough for a block: zeros, and fill again *)
GetStarved ==
  /\ ~Prefilling
  /\ depth < GetFrames
  /\ filling' = anyPut
  /\ played' = <<>>
  /\ UNCHANGED <<ring, lastSeq, anyPut, fillDepth>>

(* getOut of a block, after flushing what is beyond the target depth *)
GetBlock(target) ==
  /\ ~Prefilling
  /\ depth >= GetFrames
  /\ filling' = FALSE
  /\ LET from == IF depth > target THEN Advance(readIdx, depth - target)
                 ELSE readIdx
     IN  /\ played' = [k \in 1..GetFrames |-> buf[Slot(from, k)]]
         /\ readIdx' = Advance(from, GetFrames)
  /\ UNCHANGED <<buf, writeIdx, lastSeq, anyPut, fillDepth>>

(* flush, from setSmoothness (some depth) or a mixer reset (depth 0)       *)
Flush(initialDepth) ==
  /\ readIdx' = 0 /\ writeIdx' = 0
  /\ lastSeq' = 0 /\ anyPut' = FALSE
  /\ filling' = TRUE /\ fillDepth' = initialDepth
  /\ UNCHANGED <<buf, played>>

RingInit ==
  /\ buf \in [Slots -> Sample]
  /\ readIdx = 0 /\ writeIdx = 0
  /\ lastSeq = 0 /\ anyPut = FALSE
  /\ filling = TRUE /\ fillDepth = 0
  /\ played = <<>>

RingNext ==
  \/ \E f \in PutFrames, seqNo \in SeqNos :
       \E block \in [1..f -> Sample] : PutIn(block, seqNo)
  \/ GetPrefill
  \/ GetStarved
  \/ \E target \in Target : GetBlock(target)
  \/ \E d \in FillDepths : Flush(d)

RingSpec == RingInit /\ [][RingNext]_ringVars

-----------------------------------------------------------------------------
(* The ring's contents as a queue, oldest sample first.                    *)
Contents == [k \in 1..depth |-> buf[Slot(readIdx, k)]]

Fifo == INSTANCE SampleFifo WITH queue <- Contents

(* The types; the indexes stay inside the ring, or just behind its end.    *)
TypeOK ==
  /\ buf \in [Slots -> Sample]
  /\ readIdx \in 0..N /\ writeIdx \in 0..N
  /\ lastSeq \in SeqNos
  /\ anyPut \in BOOLEAN /\ filling \in BOOLEAN
  /\ fillDepth \in FillDepths
  /\ played \in Seq(Sample)

(* The ring is a queue: putIn only adds at its end, getOut plays the       *)
(* samples in the order they came and loses only the oldest, and neither   *)
(* index ever passes the other.  Holds while a reader's block is no larger *)
(* than MIN_DEPTH and a packet smaller than the reserve.                   *)
IsFifo == Fifo!Spec

(* putIn adds its whole block, wherever in the ring it falls, or nothing.  *)
WholeBlocks ==
  [][\A f \in PutFrames, seqNo \in SeqNos :
       \A block \in [1..f -> Sample] :
         PutIn(block, seqNo) => Contents' \in {Contents, Contents \o block}]_ringVars

(* Latency stays bounded: once samples play, no more of them are left      *)
(* waiting than MaxDepth less the block just played.                       *)
LatencyBounded ==
  [][played' # <<>> /\ readIdx' # readIdx
     => depth' <= MaxDepth - GetFrames]_ringVars

-----------------------------------------------------------------------------
(* "Advance the read pointer to flush old data": what is flushed is old,   *)
(* so a getOut leaves no more samples waiting than it found.               *)
FlushesOldOnly == [][readIdx' # readIdx => depth' <= depth]_ringVars
=============================================================================
