----------------------------- MODULE FifoPacer ------------------------------
(***************************************************************************)
(* FifoPacer: the thread of a room that mixes a block for the web stream   *)
(* every Frame microseconds.  It sleeps for what is missing to the next    *)
(* block and measures by the wall clock, in unsigned 64 bit microseconds,  *)
(* how long it has really been; it may oversleep by any time, and the wall *)
(* clock may be set.                                                       *)
(***************************************************************************)
EXTENDS Integers

CONSTANTS
  Frame,    \* outFrameTime
  Word,     \* 2^64
  Jumps,    \* by how much the clock may be set during a sleep
  Lates,    \* by how much a sleep may be too long
  MaxLead   \* bound: the stream's delay is told apart up to this one

ASSUME PacerAssumption ==
  /\ Frame \in Nat \ {0} /\ Word \in Nat /\ MaxLead \in Nat
  /\ Jumps \subseteq Int /\ Lates \subseteq Nat
  /\ 0 \in Lates
  /\ 2 * Frame <= MaxLead
  /\ \A late \in Lates : Frame + late < Word
  /\ \A jump \in Jumps, late \in Lates :
       -Word <= jump /\ Frame + late + jump < 2 * Word

VARIABLES
  delta,   \* microseconds measured and not yet streamed
  lead,    \* how far the time passed is ahead of the time streamed
  set      \* history: the clock has been set

pacerVars == <<delta, lead, set>>

-----------------------------------------------------------------------------
(* Bugs this code could have; each replaces Left                           *)
LeftAll(sum) == IF sum > Frame THEN sum - Frame ELSE sum
LeftUnpaid(sum) == IF sum > 2 * Frame THEN 0 ELSE sum

-----------------------------------------------------------------------------
Wrap(x) == IF x < 0 THEN x + Word ELSE IF x >= Word THEN x - Word ELSE x

(* What sleep_for is told: a difference of unsigned numbers                *)
SleepTime == Wrap(Frame - delta)

Cap(x) == IF x > MaxLead THEN MaxLead ELSE IF x < -MaxLead THEN -MaxLead ELSE x

(* One block is streamed; if there would be another one already, the time  *)
(* is slipped.                                                             *)
Left(sum) ==
  IF sum <= Frame THEN sum
  ELSE IF sum - Frame > Frame THEN 0 ELSE sum - Frame

(* One round of the loop: time passes, the clock may be set by jump.       *)
Round(late, jump) ==
  LET sum == Wrap(delta + SleepTime + late + jump)
  IN  /\ delta' = Left(sum)
      /\ lead' = Cap(lead + SleepTime + late
                       - (IF sum > Frame THEN Frame ELSE 0))
      /\ set' = (set \/ jump # 0)

PacerInit == delta = 0 /\ lead = 0 /\ set = FALSE

PacerNext == \E late \in Lates, jump \in Jumps : Round(late, jump)

PacerSpec == PacerInit /\ [][PacerNext]_pacerVars

-----------------------------------------------------------------------------
(* The sleep time never wraps: it is at most a frame, whatever the clock   *)
(* does.  A delta greater than outFrameTime would have the thread sleep    *)
(* for half a million years.                                               *)
SleepsAtMostAFrame == delta \in 0..Frame

(* A clock that is not set never lets the stream run ahead of real time:   *)
(* it would drain the room's jitter buffers faster than they are filled.   *)
NotAhead == ~set => delta <= lead
=============================================================================
