----------------------------- MODULE SampleFifo -----------------------------
(***************************************************************************)
(* What a jitter buffer promises its two ends, whatever its memory layout: *)
(* samples come out in the order they went in, the oldest may be thrown    *)
(* away when too many have gathered, and when there is nothing to play the *)
(* reader gets silence and the queue is left alone.                        *)
(***************************************************************************)
EXTENDS Naturals, Sequences

VARIABLES
  queue,   \* samples received and not yet played
  played   \* the last block handed to the reader; <<>> is silence

fifoVars == <<queue, played>>

Init == queue = <<>> /\ played = <<>>

Accept ==
  /\ Len(queue) <= Len(queue')
  /\ SubSeq(queue', 1, Len(queue)) = queue
  /\ played' = played

Play ==
  \E dropped, frames \in 0..Len(queue) :
    /\ dropped + frames <= Len(queue)
    /\ played' = SubSeq(queue, dropped + 1, dropped + frames)
    /\ queue' = SubSeq(queue, dropped + frames + 1, Len(queue))

Silence == played' = <<>> /\ queue' = queue

Clear == queue' = <<>> /\ played' = played

Next == Accept \/ Play \/ Silence \/ Clear

Spec == Init /\ [][Next]_fifoVars
=============================================================================
