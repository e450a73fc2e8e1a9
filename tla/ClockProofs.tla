----------------------------- MODULE ClockProofs -----------------------------
(***************************************************************************)
(* The two parts of a room that go by the clock.  The pacer, for every     *)
(* block time, word size, set of delays and set of clock changes that fit  *)
(* a word.  The playback, for every set of recordings: as long as the two  *)
(* threads have not met, the stream stands at the packet behind the last   *)
(* one given (PlaceOK), those are the ones that are due (DueOK), and what  *)
(* was measured and not yet mixed is no more than the time since readOpen  *)
(* began (OwedOK).                                                         *)
(***************************************************************************)
EXTENDS FifoPacer, Playback, TLAPS

IInv == SleepsAtMostAFrame /\ lead \in Int /\ set \in BOOLEAN /\ NotAhead

USE PacerAssumption

LEMMA InitStep == PacerInit => IInv
<1>1. PacerInit => set \in BOOLEAN
  BY DEF PacerInit
<1>2. PacerInit => SleepsAtMostAFrame /\ lead \in Int /\ NotAhead
  BY DEF PacerInit, SleepsAtMostAFrame, NotAhead
<1> QED
  BY <1>1, <1>2 DEF IInv

(* A frame is in a word, so nothing wraps as long as delta is in a frame.  *)
LEMMA SleepFacts ==
  ASSUME IInv
  PROVE  SleepTime = Frame - delta /\ delta \in Nat /\ delta <= Frame
<1>1. 0 <= Frame - delta /\ Frame - delta <= Frame /\ delta \in Nat
  BY DEF IInv, SleepsAtMostAFrame
<1>2. Frame + 0 < Word
  BY PacerAssumption
<1> QED
  BY <1>1, <1>2 DEF SleepTime, Wrap

(* The time left over is in a frame, wherever the sum wrapped.             *)
LEMMA LeftFacts ==
  ASSUME NEW sum \in Nat
  PROVE  Left(sum) \in 0..Frame
         /\ Left(sum) <= sum - (IF sum > Frame THEN Frame ELSE 0)
BY DEF Left

LEMMA RoundStep ==
  ASSUME IInv, NEW late \in Lates, NEW jump \in Jumps, Round(late, jump)
  PROVE  IInv'
<1> DEFINE total == Frame + late + jump
           sum == Wrap(total)
           streamed == IF sum > Frame THEN Frame ELSE 0
<1>1. late \in Nat /\ jump \in Int /\ -Word <= jump
      /\ total < 2 * Word /\ Frame + late < Word
  BY PacerAssumption
<1>2. sum \in Nat
  BY <1>1 DEF Wrap
<1>3. /\ delta' = Left(sum)
      /\ lead' = Cap(lead + (Frame - delta) + late - streamed)
  <2>1. delta + SleepTime + late + jump = total
    BY <1>1, SleepFacts
  <2> QED
    BY <2>1, SleepFacts DEF Round
<1> HIDE DEF sum
<1>4. SleepsAtMostAFrame'
  BY <1>2, <1>3, LeftFacts DEF SleepsAtMostAFrame
<1>5. lead + (Frame - delta) + late - streamed \in Int
  BY <1>1, SleepFacts DEF IInv
<1> set' \in BOOLEAN
  BY DEF IInv, Round
<1>6. CASE ~set'
  <2>1. ~set /\ jump = 0
    BY <1>6 DEF Round, IInv
  <2>2. sum = Frame + late /\ delta <= lead
    BY <1>1, <2>1 DEF sum, Wrap, IInv, NotAhead
  <2>3. delta' <= lead + (Frame - delta) + late - streamed
        /\ delta' \in 0..Frame
    BY <1>1, <1>2, <1>3, <2>2, LeftFacts, SleepFacts DEF IInv
  <2>4. delta' <= lead' /\ lead' \in Int
    BY <1>3, <1>5, <2>3 DEF Cap
  <2> QED
    BY <1>4, <2>4 DEF IInv, NotAhead
<1>7. CASE set'
  <2>1. lead' \in Int
    BY <1>1, <1>3, SleepFacts DEF IInv, Cap
  <2> QED
    BY <1>4, <1>7, <2>1 DEF IInv, NotAhead
<1> QED
  BY <1>6, <1>7

LEMMA Invariance == PacerSpec => []IInv
<1>1. IInv /\ [PacerNext]_pacerVars => IInv'
  <2>1. IInv /\ UNCHANGED pacerVars => IInv'
    BY DEF IInv, SleepsAtMostAFrame, NotAhead, pacerVars
  <2> QED
    BY <2>1, RoundStep DEF PacerNext
<1> QED
  BY InitStep, <1>1, PTL DEF PacerSpec

-----------------------------------------------------------------------------
(* fifo_thread's sleep time never wraps, whatever happens to the clock.    *)
THEOREM NeverOversleeps == PacerSpec => []SleepsAtMostAFrame
<1>1. IInv => SleepsAtMostAFrame
  BY DEF IInv
<1> QED
  BY <1>1, Invariance, PTL

(* With a clock nobody sets, the web stream is never ahead of real time.   *)
THEOREM NeverAhead == PacerSpec => []NotAhead
<1>1. IInv => NotAhead
  BY DEF IInv
<1> QED
  BY <1>1, Invariance, PTL

-----------------------------------------------------------------------------
Lasts(f) == Len(f.stamps) + (IF f.torn THEN 1 ELSE 0)

(* One file, one clock reading per call.                                   *)
PlayTypes ==
  /\ reel \subseteq Files /\ \A f, g \in reel : f = g
  /\ call \subseteq Int /\ \A a, b \in call : a = b
  /\ age \in (-MaxAge)..MaxAge
  /\ pos \in Nat /\ fed \in Nat
  /\ isOpen \in BOOLEAN /\ moved \in BOOLEAN /\ raced \in BOOLEAN
  /\ chat \in {"idle", "reset", "opening", "opened", "loaded"}

(* The times are numbers; nothing is half measured between two calls.      *)
ClockTypes ==
  /\ stage \in {"feed", "add", "mix"}
  /\ measured \in Int /\ unread \in Int /\ m_delta \in Int
  /\ owed \in (-MaxOwed)..MaxOwed
  /\ call = {} => stage = "feed"
  /\ stage # "add" => measured = 0

(* Unless the threads have met, a call finds the chat thread done, and the *)
(* packet at hand is the one behind the last one given.                    *)
PlaceOK ==
  ~raced =>
    /\ call # {} => chat = "idle" /\ (stage = "feed" => isOpen)
    /\ chat \in {"reset", "opening", "opened"} => fed = 0
    /\ isOpen /\ chat \in {"idle", "loaded"} =>
         /\ reel # {}
         /\ fed = pos - 1 /\ pos >= 1
         /\ \A f \in reel : pos <= Lasts(f)
         /\ chat = "loaded" => pos = 1

(* What was measured and not yet mixed lies after the moment readOpen      *)
(* began, once the timer was set.                                          *)
OwedOK ==
  ~raced /\ ~moved =>
    /\ m_delta >= 0 /\ measured >= 0 /\ owed >= 0
    /\ chat # "idle" => m_delta = 0 /\ measured = 0
    /\ chat # "reset" => unread >= 0 /\ m_delta + measured + unread <= owed
    /\ stage = "mix" => m_delta >= BlockTime

(* What was given was due at the call that gave it, and so it is now.      *)
AllDue(files, n, time) == \A f \in files, k \in 1..n : Since(f, k) < time
DueOK ==
  ~raced /\ ~moved /\ isOpen /\ chat = "idle" =>
    /\ AllDue(reel, fed, age)
    /\ \A asOf \in call : asOf <= age /\ AllDue(reel, fed, asOf)

PlayInv == PlayTypes /\ ClockTypes /\ PlaceOK /\ OwedOK /\ DueOK

LEMMA Bounds ==
  /\ BlockTime \in Nat \ {0} /\ MaxAge \in Nat /\ 0 \in (-MaxAge)..MaxAge
  /\ MaxOwed \in Nat /\ 0 \in (-MaxOwed)..MaxOwed /\ BlockTime <= MaxOwed
BY PlaybackAssumption

(* Of a file: its time stamps and their distances are numbers.             *)
LEMMA FileFacts ==
  ASSUME NEW f \in Files
  PROVE  /\ f.stamps \in Seq(Int) /\ Len(f.stamps) \in Nat
         /\ DOMAIN f.stamps = 1..Len(f.stamps)
         /\ f.stamps # <<>> => Len(f.stamps) >= 1
         /\ Lasts(f) \in Len(f.stamps)..(Len(f.stamps) + 1)
         /\ f.opens \in BOOLEAN
         /\ \A k \in 1..Len(f.stamps) : Since(f, k) \in Int
<1>1. f.stamps \in Seq(Int) /\ f.opens \in BOOLEAN
  BY PlaybackAssumption
<1>2. Len(f.stamps) \in Nat /\ DOMAIN f.stamps = 1..Len(f.stamps)
      /\ (f.stamps # <<>> => Len(f.stamps) >= 1)
      /\ \A k \in 1..Len(f.stamps) : f.stamps[k] \in Int
  BY <1>1
<1>3. \A k \in 1..Len(f.stamps) : Since(f, k) \in Int
  <2> TAKE k \in 1..Len(f.stamps)
  <2>1. 1 \in 1..Len(f.stamps)
    BY <1>2
  <2> QED
    BY <1>2, <2>1 DEF Since
<1>4. Lasts(f) \in Len(f.stamps)..(Len(f.stamps) + 1)
  <2>1. Lasts(f) = Len(f.stamps) + 1 \/ Lasts(f) = Len(f.stamps) + 0
    BY DEF Lasts
  <2> QED
    BY <1>2, <2>1
<1> QED
  BY <1>1, <1>2, <1>3, <1>4

LEMMA NoneDue == \A files, time : AllDue(files, 0, time)
BY DEF AllDue

(* Cutting a number off at a bound keeps its sign and its order.           *)
LEMMA WithinFacts ==
  ASSUME NEW x \in Int, NEW bound \in Nat
  PROVE  /\ Within(x, bound) \in (-bound)..bound
         /\ \A a \in (-bound)..bound : a <= x => a <= Within(x, bound)
         /\ x >= 0 => 0 <= Within(x, bound) /\ Within(x, bound) <= x
         /\ x <= bound => x <= Within(x, bound)
BY DEF Within

(* Of two numbers the greater is cut off no lower.                         *)
LEMMA WithinOrder ==
  ASSUME NEW x \in Int, NEW y \in Int, NEW bound \in Nat, x <= y
  PROVE  Within(x, bound) <= Within(y, bound)
BY DEF Within

LEMMA LessOwed ==
  ASSUME NEW x \in Int, NEW y \in Int, NEW rest \in Int, NEW total \in Int,
         x <= y, y + rest <= total
  PROVE  x + 0 + rest <= total
OBVIOUS

LEMMA StillOwed ==
  ASSUME NEW x \in Int, NEW rest \in Int, NEW less \in Int, NEW total \in Int,
         0 <= x, 0 <= rest, x + 0 + rest <= less, less <= total
  PROVE  x + 0 + rest <= total /\ total >= 0
OBVIOUS

LEMMA OnlyUnread ==
  ASSUME NEW x \in Int, NEW y \in Int, x <= y
  PROVE  0 + 0 + x <= y
OBVIOUS

LEMMA LessMeasured ==
  ASSUME NEW a \in Int, NEW b \in Int, NEW x \in Int, NEW y \in Int,
         NEW d \in Int, NEW total \in Int,
         x <= y + d, a + b + y + d <= total
  PROVE  a + b + x <= total
OBVIOUS

LEMMA PlayInitStep == PlayInit => PlayInv
<1> SUFFICES ASSUME PlayInit PROVE PlayInv
  OBVIOUS
<1>1. PlayTypes
  BY Bounds DEF PlayInit, PlayTypes
<1>2. ClockTypes /\ OwedOK
  BY Bounds DEF PlayInit, ClockTypes, OwedOK
<1>3. PlaceOK /\ DueOK
  BY NoneDue DEF PlayInit, PlaceOK, DueOK
<1> QED
  BY <1>1, <1>2, <1>3 DEF PlayInv

-----------------------------------------------------------------------------
(* The chat thread.                                                        *)
LEMMA ResetStep ==
  ASSUME PlayInv, NEW f \in Files, Reset(f)
  PROVE  PlayInv'
<1> USE DEF PlayInv
<1>1. /\ chat' = "reset" /\ reel' = {f} /\ isOpen' = isOpen
      /\ pos' = 0 /\ fed' = 0 /\ age' = 0 /\ call' = call /\ stage' = stage
      /\ measured' = measured /\ unread' = unread /\ m_delta' = 0
      /\ owed' = 0 /\ moved' = FALSE
  BY DEF Reset, callVars
<1>2. raced' = (call # {})
  BY DEF Reset
<1>3. PlayTypes'
  BY <1>1, <1>2, Bounds DEF PlayTypes
<1>4. ClockTypes'
  BY <1>1, Bounds DEF ClockTypes
<1>5. ~raced' => call' = {} /\ measured' = 0 /\ stage' = "feed"
  BY <1>1, <1>2 DEF ClockTypes
<1>6. PlaceOK' /\ DueOK'
  BY <1>1, <1>5 DEF PlaceOK, DueOK
<1>7. OwedOK'
  BY <1>1, <1>5 DEF OwedOK
<1> QED
  BY <1>3, <1>4, <1>6, <1>7

LEMMA ReadFirstStep ==
  ASSUME PlayInv, ReadFirst
  PROVE  PlayInv'
<1> USE DEF PlayInv
<1>1. PICK f \in reel :
        \/ /\ f.stamps # <<>> /\ pos' = 1 /\ chat' = "loaded"
           /\ isOpen' = isOpen
        \/ isOpen' = FALSE /\ chat' = "idle" /\ pos' = pos
  BY DEF ReadFirst
<1>2. /\ UNCHANGED <<reel, fed, age, call, stage, moved, raced>>
      /\ UNCHANGED <<measured, unread, m_delta, owed>>
      /\ chat = "opened" /\ ~raced
  BY DEF ReadFirst, clockVars, callVars
<1>3. PlayTypes'
  <2>1. CASE isOpen' = isOpen /\ pos' = 1 /\ chat' = "loaded"
    BY <1>2, <2>1 DEF PlayTypes
  <2>2. CASE isOpen' = FALSE /\ pos' = pos /\ chat' = "idle"
    BY <1>2, <2>2 DEF PlayTypes
  <2> QED
    BY <1>1, <2>1, <2>2
<1>4. ClockTypes'
  BY <1>2 DEF ClockTypes
<1>5. call = {} /\ fed = 0 /\ reel = {f} /\ f \in Files
  BY <1>2 DEF PlayTypes, PlaceOK
<1>6. f.stamps # <<>> => 1 <= Lasts(f)
  BY <1>5, FileFacts
<1>7. OwedOK'
  <2>1. chat' \in {"loaded", "idle"}
    BY <1>1
  <2> QED
    BY <1>2, <2>1 DEF OwedOK
<1>8. PlaceOK' /\ DueOK'
  <2>1. CASE /\ isOpen' = isOpen /\ pos' = 1 /\ chat' = "loaded"
             /\ f.stamps # <<>>
    BY <1>2, <1>5, <1>6, <2>1 DEF PlaceOK, DueOK
  <2>2. CASE isOpen' = FALSE /\ pos' = pos /\ chat' = "idle"
    BY <1>2, <1>5, <2>2 DEF PlaceOK, DueOK
  <2> QED
    BY <1>1, <2>1, <2>2
<1> QED
  BY <1>3, <1>4, <1>7, <1>8

LEMMA ChatInv ==
  ASSUME PlayInv, ChatStep
  PROVE  PlayInv'
<1> USE DEF PlayInv
<1>1. CASE ResetTimer
  <2>1. /\ UNCHANGED <<reel, isOpen, pos, fed, age, call, stage, moved, raced>>
        /\ UNCHANGED <<measured, m_delta, owed>>
        /\ chat = "reset" /\ chat' = "opening" /\ unread' = 0
    BY <1>1 DEF ResetTimer, StartTimer, callVars
  <2>2. PlayTypes' /\ ClockTypes'
    BY <2>1 DEF PlayTypes, ClockTypes
  <2>3. PlaceOK' /\ DueOK'
    BY <2>1 DEF PlaceOK, DueOK
  <2>4. OwedOK'
    BY <2>1 DEF OwedOK
  <2> QED
    BY <2>2, <2>3, <2>4
<1>2. CASE Open
  <2>1. PICK f \in reel : /\ isOpen' = f.opens
                          /\ chat' = IF f.opens THEN "opened" ELSE "idle"
    BY <1>2 DEF Open
  <2>2. /\ UNCHANGED <<reel, pos, fed, age, call, stage, moved, raced>>
        /\ UNCHANGED <<measured, unread, m_delta, owed>>
        /\ chat = "opening"
    BY <1>2 DEF Open, clockVars, callVars
  <2>3. isOpen' \in BOOLEAN
    BY <2>1, FileFacts DEF PlayTypes
  <2>4. PlayTypes' /\ ClockTypes'
    BY <2>1, <2>2, <2>3 DEF PlayTypes, ClockTypes
  <2>5. PlaceOK' /\ DueOK'
    BY <2>1, <2>2, <2>3 DEF PlaceOK, DueOK
  <2>6. chat' \in {"opened", "idle"}
    BY <2>1
  <2>7. OwedOK'
    BY <2>2, <2>6 DEF OwedOK
  <2> QED
    BY <2>4, <2>5, <2>7
<1>3. CASE RacedReadFirst
  BY <1>3 DEF RacedReadFirst, clockVars, callVars, PlayTypes, ClockTypes,
              PlaceOK, OwedOK, DueOK
<1>4. CASE SetOffset
  <2>1. /\ UNCHANGED <<reel, isOpen, pos, fed, call, stage, moved, raced>>
        /\ UNCHANGED <<measured, unread, m_delta, owed>>
        /\ chat = "loaded" /\ chat' = "idle" /\ age' = 0
    BY <1>4 DEF SetOffset, clockVars, callVars
  <2>2. ~raced => call = {}
    BY <2>1 DEF PlaceOK
  <2>3. ~raced /\ isOpen => fed = 0
    BY <2>1 DEF PlaceOK, PlayTypes
  <2>4. PlayTypes' /\ ClockTypes'
    BY <2>1, Bounds DEF PlayTypes, ClockTypes
  <2>5. PlaceOK' /\ DueOK'
    BY <2>1, <2>2, <2>3, NoneDue DEF PlaceOK, DueOK
  <2>6. OwedOK'
    BY <2>1 DEF OwedOK
  <2> QED
    BY <2>4, <2>5, <2>6
<1>5. CASE StopPlay
  <2>1. /\ UNCHANGED <<chat, reel, pos, fed, age, call, stage, moved>>
        /\ UNCHANGED <<measured, unread, m_delta, owed>>
        /\ isOpen' = FALSE /\ raced' = (raced \/ call # {})
    BY <1>5 DEF StopPlay, clockVars, callVars
  <2>2. PlayTypes' /\ ClockTypes'
    BY <2>1 DEF PlayTypes, ClockTypes
  <2>3. PlaceOK' /\ DueOK' /\ OwedOK'
    BY <2>1 DEF PlaceOK, DueOK, OwedOK
  <2> QED
    BY <2>2, <2>3
<1> QED
  BY <1>1, <1>2, <1>3, <1>4, <1>5, ResetStep, ReadFirstStep DEF ChatStep

-----------------------------------------------------------------------------
(* The packet thread.                                                      *)
LEMMA CallStep ==
  ASSUME PlayInv, Call
  PROVE  PlayInv'
<1> USE DEF PlayInv
<1>1. /\ UNCHANGED <<chat, reel, isOpen, pos, fed, age, moved>>
      /\ UNCHANGED <<measured, unread, m_delta, owed>>
      /\ isOpen /\ call = {} /\ call' = {age} /\ stage' = "feed"
      /\ raced' = (raced \/ chat # "idle")
  BY DEF Call, fileVars, clockVars
<1>2. stage = "feed" /\ measured = 0
  BY <1>1 DEF ClockTypes
<1>3. age \in Int
  BY Bounds DEF PlayTypes
<1>4. PlayTypes' /\ ClockTypes'
  BY <1>1, <1>2, <1>3 DEF PlayTypes, ClockTypes
<1>5. PlaceOK' /\ OwedOK'
  BY <1>1, <1>2 DEF PlaceOK, OwedOK
<1>6. DueOK'
  <2> SUFFICES ASSUME ~raced, ~moved, isOpen, chat = "idle"
               PROVE  AllDue(reel, fed, age) /\ age <= age
    BY <1>1 DEF DueOK
  <2> QED
    BY <1>3 DEF DueOK
<1> QED
  BY <1>4, <1>5, <1>6

LEMMA FeedStep ==
  ASSUME PlayInv, Feed
  PROVE  PlayInv'
<1> USE DEF PlayInv
<1>1. /\ UNCHANGED <<chat, reel, isOpen, age, call, stage, moved, raced>>
      /\ UNCHANGED <<measured, unread, m_delta, owed>>
      /\ ~raced /\ stage = "feed" /\ fed' = pos /\ pos' = pos + 1
  BY DEF Feed, clockVars, callVars
<1>2. PICK f \in reel, asOf \in call : ~AtEnd(f) /\ Due(f, asOf)
  BY DEF Feed
<1>3. /\ isOpen /\ chat = "idle" /\ f \in Files
      /\ fed = pos - 1 /\ pos >= 1 /\ pos \in Nat /\ pos <= Lasts(f)
  BY <1>1, <1>2 DEF PlaceOK, PlayTypes
<1>4. pos # Lasts(f)
  BY <1>2 DEF AtEnd, Lasts
<1>5. pos + 1 <= Lasts(f) /\ pos \in 1..Len(f.stamps)
  BY <1>3, <1>4, FileFacts
<1>6. reel = {f} /\ call = {asOf} /\ asOf \in Int /\ age \in Int
  <2>1. reel = {f} /\ call = {asOf} /\ asOf \in Int
    BY <1>2 DEF PlayTypes
  <2>2. age \in Int
    BY Bounds DEF PlayTypes
  <2> QED
    BY <2>1, <2>2
<1>7. Since(f, pos) < asOf
  BY <1>2, <1>3, <1>5, <1>6, FileFacts DEF Due
<1>8. ASSUME ~moved
      PROVE  AllDue(reel, pos, asOf) /\ AllDue(reel, pos, age) /\ asOf <= age
  <2>1. \A k \in 1..fed : Since(f, k) < asOf
    BY <1>1, <1>3, <1>6, <1>8 DEF DueOK, AllDue
  <2>2. asOf <= age
    BY <1>1, <1>3, <1>6, <1>8 DEF DueOK
  <2>3. \A k \in 1..pos : Since(f, k) \in Int
    BY <1>3, <1>5, FileFacts
  <2>4. \A k \in 1..pos : k \in 1..fed \/ k = pos
    BY <1>3
  <2>5. \A k \in 1..pos : Since(f, k) < asOf
    BY <1>7, <2>1, <2>4
  <2>6. \A k \in 1..pos : Since(f, k) < age
    BY <1>6, <2>2, <2>3, <2>5
  <2> QED
    BY <1>6, <2>2, <2>5, <2>6 DEF AllDue
<1>9. PlayTypes' /\ ClockTypes'
  BY <1>1, <1>3 DEF PlayTypes, ClockTypes
<1>10. PlaceOK'
  BY <1>1, <1>3, <1>5, <1>6 DEF PlaceOK
<1>11. OwedOK'
  BY <1>1 DEF OwedOK
<1>12. DueOK'
  BY <1>1, <1>6, <1>8 DEF DueOK
<1> QED
  BY <1>9, <1>10, <1>11, <1>12

(* getExpiredTime: what is measured is no longer unread.                   *)
LEMMA MeasureStep ==
  ASSUME PlayInv, Measure, stage = "feed", call # {},
         isOpen' \in {isOpen, FALSE}
  PROVE  PlayInv'
<1> USE DEF PlayInv
<1>1. /\ UNCHANGED <<chat, reel, pos, fed, age, call, moved, raced>>
      /\ UNCHANGED <<m_delta, owed>>
      /\ measured' = unread /\ unread' = 0 /\ stage' = "add"
  BY DEF Measure
<1>2. isOpen' \in BOOLEAN /\ (isOpen' => isOpen)
  <2>1. isOpen \in BOOLEAN
    BY DEF PlayTypes
  <2>2. isOpen' \in BOOLEAN
    BY <2>1
  <2>3. isOpen' => isOpen
    BY <2>1
  <2> QED
    BY <2>2, <2>3
<1>3. PlayTypes' /\ ClockTypes'
  BY <1>1, <1>2 DEF PlayTypes, ClockTypes
<1>4. PlaceOK'
  BY <1>1, <1>2 DEF PlaceOK
<1>5. DueOK'
  BY <1>1, <1>2 DEF DueOK
<1>6. OwedOK'
  <2> SUFFICES ASSUME ~raced, ~moved
               PROVE  OwedOK'
    BY <1>1 DEF OwedOK
  <2>1. chat = "idle" /\ measured = 0
    BY DEF PlaceOK, ClockTypes
  <2>2. m_delta >= 0 /\ owed >= 0 /\ unread >= 0
        /\ m_delta + measured + unread <= owed
    BY <2>1 DEF OwedOK
  <2>3. m_delta + unread + 0 <= owed
    BY <2>1, <2>2 DEF ClockTypes
  <2> QED
    BY <1>1, <2>1, <2>2, <2>3 DEF OwedOK
<1> QED
  BY <1>3, <1>4, <1>5, <1>6

LEMMA AddStep ==
  ASSUME PlayInv, Add
  PROVE  PlayInv'
<1> USE DEF PlayInv
<1> DEFINE sum == m_delta + measured
<1>1. /\ UNCHANGED <<chat, reel, isOpen, pos, fed, age, moved, raced>>
      /\ UNCHANGED <<unread, owed>>
      /\ stage = "add" /\ measured' = 0 /\ m_delta' = Within(sum, MaxOwed)
  BY DEF Add, fileVars
<1>2. IF sum > BlockTime \/ sum < 0
      THEN stage' = "mix" /\ call' = call
      ELSE stage' = "feed" /\ call' = {}
  BY DEF Add
<1>3. sum \in Int /\ m_delta' \in Int /\ call # {}
  <2>1. sum \in Int /\ call # {}
    BY <1>1 DEF ClockTypes
  <2>2. Within(sum, MaxOwed) \in Int
    BY <2>1, Bounds, WithinFacts
  <2> QED
    BY <1>1, <2>1, <2>2
<1>4. stage' \in {"mix", "feed"} /\ call' \in {call, {}}
      /\ (call' # {} => stage' = "mix") /\ (call' = {} => stage' = "feed")
  BY <1>2, <1>3
<1>5. ~raced => chat = "idle"
  BY <1>3 DEF PlaceOK
<1> HIDE DEF sum
<1>6. PlayTypes' /\ ClockTypes'
  BY <1>1, <1>3, <1>4 DEF PlayTypes, ClockTypes
<1>7. PlaceOK'
  BY <1>1, <1>4, <1>5 DEF PlaceOK
<1>8. DueOK'
  BY <1>1, <1>4 DEF DueOK
<1>9. OwedOK'
  <2> SUFFICES ASSUME ~raced, ~moved
               PROVE  OwedOK'
    BY <1>1 DEF OwedOK
  <2>1. sum >= 0 /\ unread >= 0 /\ owed >= 0 /\ sum + unread <= owed
    BY <1>5 DEF OwedOK, ClockTypes, sum
  <2>2. 0 <= m_delta' /\ m_delta' <= sum
    BY <1>1, <1>3, <2>1, Bounds, WithinFacts
  <2>3. m_delta' + 0 + unread <= owed
    <3>1. unread \in Int /\ owed \in Int
      BY Bounds DEF ClockTypes
    <3>2. sum + unread <= owed
      BY <2>1
    <3> QED
      BY <1>3, <2>2, <3>1, <3>2, LessOwed
  <2>4. stage' = "mix" => m_delta' >= BlockTime
    <3>1. stage' = "mix" => sum > BlockTime
      BY <1>2, <1>3, <2>1
    <3>2. BlockTime \in (-MaxOwed)..MaxOwed
      BY Bounds
    <3>3. sum > BlockTime => BlockTime <= Within(sum, MaxOwed)
      BY <1>3, <3>2, Bounds, WithinFacts
    <3> QED
      BY <1>1, <1>3, <3>1, <3>3, Bounds
  <2> QED
    BY <1>1, <1>5, <2>1, <2>2, <2>3, <2>4 DEF OwedOK
<1> QED
  BY <1>6, <1>7, <1>8, <1>9

LEMMA MixStep ==
  ASSUME PlayInv, Mix
  PROVE  PlayInv'
<1> USE DEF PlayInv
<1>1. /\ UNCHANGED <<chat, reel, isOpen, pos, fed, age, moved, raced>>
      /\ UNCHANGED <<measured, unread>>
      /\ stage = "mix" /\ stage' = "feed" /\ call' = {}
      /\ m_delta' = Within(m_delta - BlockTime, MaxOwed)
      /\ owed' = IF moved THEN 0 ELSE Within(owed - BlockTime, MaxOwed)
  BY DEF Mix, fileVars
<1>2. m_delta - BlockTime \in Int /\ owed - BlockTime \in Int /\ measured = 0
      /\ call # {}
  BY <1>1, Bounds DEF ClockTypes
<1>3. m_delta' \in Int /\ owed' \in (-MaxOwed)..MaxOwed
  <2>1. m_delta' \in (-MaxOwed)..MaxOwed
    BY <1>1, <1>2, Bounds, WithinFacts
  <2>2. Within(owed - BlockTime, MaxOwed) \in (-MaxOwed)..MaxOwed
    BY <1>2, Bounds, WithinFacts
  <2>3. owed' \in (-MaxOwed)..MaxOwed
    BY <1>1, <2>2, Bounds
  <2> QED
    BY <2>1, <2>3
<1>4. PlayTypes' /\ ClockTypes'
  BY <1>1, <1>2, <1>3 DEF PlayTypes, ClockTypes
<1>5. ~raced => chat = "idle"
  BY <1>2 DEF PlaceOK
<1>6. PlaceOK' /\ DueOK'
  BY <1>1, <1>5 DEF PlaceOK, DueOK
<1>7. OwedOK'
  <2> SUFFICES ASSUME ~raced, ~moved
               PROVE  OwedOK'
    BY <1>1 DEF OwedOK
  <2>1. m_delta >= BlockTime /\ unread >= 0 /\ m_delta + unread <= owed
    BY <1>1, <1>2, <1>5 DEF OwedOK, ClockTypes
  <2>2. 0 <= m_delta' /\ m_delta' <= m_delta - BlockTime
    <3>1. m_delta - BlockTime >= 0
      BY <2>1, Bounds DEF ClockTypes
    <3> QED
      BY <1>1, <1>2, <3>1, Bounds, WithinFacts
  <2>3. owed - BlockTime <= owed'
    <3>1. owed - BlockTime <= MaxOwed
      BY Bounds DEF ClockTypes
    <3> QED
      BY <1>1, <1>2, <3>1, Bounds, WithinFacts
  <2>4. m_delta' + 0 + unread <= owed' /\ owed' >= 0
    <3>1. unread \in Int /\ owed \in Int /\ owed' \in Int /\ m_delta \in Int
      BY <1>3, Bounds DEF ClockTypes
    <3>2. m_delta' <= m_delta - BlockTime /\ 0 <= m_delta'
      BY <2>2
    <3>3. (m_delta - BlockTime) + unread <= owed - BlockTime
      BY <2>1, <3>1, Bounds
    <3>4. m_delta' + 0 + unread <= owed - BlockTime
      BY <1>2, <1>3, <3>1, <3>2, <3>3, LessOwed
    <3>5. 0 <= unread
      BY <2>1
    <3> QED
      BY <1>2, <1>3, <2>3, <3>1, <3>2, <3>4, <3>5, StillOwed
  <2> QED
    BY <1>1, <1>2, <1>5, <2>1, <2>2, <2>4 DEF OwedOK
<1> QED
  BY <1>4, <1>6, <1>7

LEMMA PacketInv ==
  ASSUME PlayInv, PacketStep
  PROVE  PlayInv'
<1>1. FeedDone => stage = "feed" /\ call # {} /\ isOpen' \in {isOpen, FALSE}
                  /\ Measure
  BY DEF FeedDone
<1>2. RacedFeedDone => stage = "feed" /\ call # {}
                       /\ isOpen' \in {isOpen, FALSE} /\ Measure
  BY DEF RacedFeedDone
<1>3. CASE FeedDone \/ RacedFeedDone
  BY <1>1, <1>2, <1>3, MeasureStep
<1> QED
  BY <1>3, CallStep, FeedStep, AddStep, MixStep DEF PacketStep

-----------------------------------------------------------------------------
(* Time passes.                                                            *)
LEMMA PassStep ==
  ASSUME PlayInv, NEW d \in Nat, NEW jump \in Int, Pass(d, jump)
  PROVE  PlayInv'
<1> USE DEF PlayInv
<1>1. CASE UNCHANGED playVars
  BY <1>1 DEF playVars, fileVars, clockVars, callVars, PlayTypes, ClockTypes,
              PlaceOK, OwedOK, DueOK
<1>2. CASE ~UNCHANGED playVars
  <2>1. /\ UNCHANGED <<chat, reel, isOpen, pos, fed, call, stage, raced>>
        /\ UNCHANGED <<measured, m_delta>>
        /\ moved' = (moved \/ jump # 0)
        /\ age' = IF chat = "idle" /\ ~raced
                  THEN Within(age + d + jump, MaxAge) ELSE age
        /\ unread' = Within(unread + d + jump, MaxOwed)
        /\ owed' = IF moved' THEN 0 ELSE Within(owed + d, MaxOwed)
    BY <1>2 DEF Pass, fileVars, callVars
  <2>2. ~raced /\ ~moved /\ chat = "idle" /\ jump = 0
          => m_delta + measured + unread + d <= MaxOwed
    BY <1>2 DEF Pass
  <2>3. /\ age \in Int /\ age + d + jump \in Int /\ age \in (-MaxAge)..MaxAge
        /\ unread + d + jump \in Int /\ owed + d \in Int
    BY Bounds DEF PlayTypes, ClockTypes
  <2>4. age' \in (-MaxAge)..MaxAge
    BY <2>1, <2>3, Bounds, WithinFacts
  <2>5. unread' \in Int /\ owed' \in (-MaxOwed)..MaxOwed
    <3>1. unread' \in (-MaxOwed)..MaxOwed
      BY <2>1, <2>3, Bounds, WithinFacts
    <3>2. Within(owed + d, MaxOwed) \in (-MaxOwed)..MaxOwed
      BY <2>3, Bounds, WithinFacts
    <3>3. owed' \in (-MaxOwed)..MaxOwed
      BY <2>1, <3>2, Bounds
    <3> QED
      BY <3>1, <3>3
  <2>6. PlayTypes' /\ ClockTypes' /\ PlaceOK'
    BY <2>1, <2>4, <2>5 DEF PlayTypes, ClockTypes, PlaceOK
  <2>7. OwedOK'
    <3> SUFFICES ASSUME ~raced, ~moved'
                 PROVE  OwedOK'
      BY <2>1 DEF OwedOK
    <3>1. ~moved /\ jump = 0
      BY <2>1 DEF PlayTypes
    <3>2. unread' = Within(unread + d, MaxOwed)
          /\ owed' = Within(owed + d, MaxOwed)
          /\ unread + d \in Int
      BY <2>1, <3>1 DEF ClockTypes
    <3>3. m_delta >= 0 /\ measured >= 0 /\ owed >= 0
          /\ (chat # "idle" => m_delta = 0 /\ measured = 0)
          /\ (chat # "reset" =>
                unread >= 0 /\ m_delta + measured + unread <= owed)
          /\ (stage = "mix" => m_delta >= BlockTime)
      BY <3>1 DEF OwedOK
    <3>4. owed' >= 0
      <4>1. owed + d >= 0
        BY <3>3, Bounds DEF ClockTypes
      <4> QED
        BY <2>3, <3>2, <4>1, Bounds, WithinFacts
    <3>5. ASSUME chat # "reset"
          PROVE  unread' >= 0 /\ m_delta + measured + unread' <= owed'
      <4>1. unread + d >= 0
        BY <3>3, <3>5 DEF ClockTypes
      <4>2. unread' >= 0 /\ unread' <= unread + d
        BY <3>2, <4>1, Bounds, WithinFacts
      <4>3. CASE chat = "idle"
        <5>1. m_delta + measured + unread + d <= MaxOwed
          BY <2>2, <3>1, <4>3
        <5> DEFINE total == m_delta + measured + unread + d
        <5>2. total \in (-MaxOwed)..MaxOwed /\ total <= owed + d
          BY <3>3, <3>5, <5>1, Bounds DEF ClockTypes
        <5>3. total <= owed'
          <6> HIDE DEF total
          <6>1. total <= Within(owed + d, MaxOwed)
            BY <2>3, <5>2, Bounds, WithinFacts
          <6> QED
            BY <3>2, <6>1
        <5>4. unread \in Int /\ unread' \in Int /\ owed' \in Int
              /\ m_delta \in Int /\ measured \in Int
          BY <2>5, Bounds DEF ClockTypes
        <5>5. m_delta + measured + unread' <= owed'
          <6>1. unread' <= unread + d /\ d \in Int
            BY <4>2
          <6>2. m_delta + measured + unread + d <= owed'
            BY <5>3
          <6> HIDE DEF total
          <6> QED
            BY <5>4, <6>1, <6>2, LessMeasured
        <5> QED
          BY <4>2, <5>5
      <4>4. CASE chat # "idle"
        <5>1. unread + d <= owed + d
          BY <3>3, <3>5, <4>4 DEF ClockTypes
        <5>2. unread' <= owed'
          BY <2>3, <3>2, <5>1, Bounds, WithinOrder
        <5>3. m_delta = 0 /\ measured = 0
          BY <3>3, <4>4
        <5>4. unread' \in Int /\ owed' \in Int
          BY <2>5, Bounds
        <5>5. 0 + 0 + unread' <= owed'
          BY <5>2, <5>4, OnlyUnread
        <5>6. m_delta + measured + unread' <= owed'
          BY <5>3, <5>5, Zenon
        <5> QED
          BY <4>2, <5>6
      <4> QED
        BY <4>3, <4>4
    <3> QED
      BY <2>1, <3>3, <3>4, <3>5 DEF OwedOK
  <2>8. DueOK'
    <3> SUFFICES ASSUME ~raced, ~moved', isOpen, chat = "idle"
                 PROVE  DueOK'
      BY <2>1 DEF DueOK
    <3>1. ~moved /\ jump = 0
      BY <2>1 DEF PlayTypes
    <3>2. age <= age'
      <4>1. age <= age + d + jump
        BY <2>3, <3>1
      <4>2. age <= Within(age + d + jump, MaxAge)
        BY <2>3, <4>1, Bounds, WithinFacts
      <4> QED
        BY <2>1, <4>2
    <3>3. AllDue(reel, fed, age')
      <4> SUFFICES \A f \in reel, k \in 1..fed : Since(f, k) < age'
        BY DEF AllDue
      <4> TAKE f \in reel, k \in 1..fed
      <4>1. Since(f, k) < age
        BY <3>1 DEF DueOK, AllDue
      <4>2. Since(f, k) \in Int
        <5>1. f \in Files /\ fed = pos - 1 /\ pos <= Lasts(f) /\ pos \in Nat
          BY DEF PlaceOK, PlayTypes
        <5>2. k \in 1..Len(f.stamps)
          BY <5>1, FileFacts
        <5> QED
          BY <5>1, <5>2, FileFacts
      <4> QED
        BY <2>3, <2>4, <3>2, <4>1, <4>2
    <3>4. \A asOf \in call : asOf <= age' /\ AllDue(reel, fed, asOf)
      <4> TAKE asOf \in call
      <4>1. asOf <= age /\ asOf \in Int /\ AllDue(reel, fed, asOf)
        BY <3>1 DEF DueOK, PlayTypes
      <4> QED
        BY <2>3, <2>4, <3>2, <4>1
    <3> QED
      BY <2>1, <3>3, <3>4 DEF DueOK
  <2> QED
    BY <2>6, <2>7, <2>8
<1> QED
  BY <1>1, <1>2

LEMMA PlayInvariance == PlaySpec => []PlayInv
<1>1. PlayInv /\ [PlayNext]_playVars => PlayInv'
  <2> SUFFICES ASSUME PlayInv, [PlayNext]_playVars
               PROVE  PlayInv'
    OBVIOUS
  <2>1. ASSUME NEW d \in Gaps, NEW jump \in Settings, Pass(d, jump)
        PROVE  PlayInv'
    <3>1. d \in Nat /\ jump \in Int
      BY PlaybackAssumption
    <3> QED
      BY <2>1, <3>1, PassStep
  <2>2. CASE UNCHANGED playVars
    BY <2>2 DEF playVars, fileVars, clockVars, callVars, PlayInv, PlayTypes,
                ClockTypes, PlaceOK, OwedOK, DueOK
  <2> QED
    BY <2>1, <2>2, ChatInv, PacketInv DEF PlayNext, TimePasses
<1> QED
  BY <1>1, PlayInitStep, PTL DEF PlaySpec

-----------------------------------------------------------------------------
(* A play in which the threads do not meet and the clock is not set never  *)
(* mixes more sound than time has passed since readOpen began, for every   *)
(* set of recordings and whatever became of the plays before it.           *)
THEOREM NeverMixedAhead == PlaySpec => []MixNotAhead
<1>1. PlayInv => MixNotAhead
  BY DEF PlayInv, OwedOK, MixNotAhead
<1> QED
  BY <1>1, PlayInvariance, PTL

(* The feeding of a call the other thread has not met ends in FeedDone.    *)
LEMMA WhoEndsFeeding ==
  ASSUME [PlayNext]_playVars, FeedingEnds, ~raced
  PROVE  FeedDone
<1>1. \A f \in Files : Reset(f) => stage' = stage
  BY DEF Reset, callVars
<1>2. ResetTimer \/ Open \/ ReadFirst \/ RacedReadFirst \/ SetOffset \/ StopPlay
        => stage' = stage
  BY DEF ResetTimer, Open, ReadFirst, RacedReadFirst, SetOffset, StopPlay, callVars
<1>3. TimePasses => stage' = stage
  BY DEF TimePasses, Pass, playVars, callVars
<1>4. ~Call /\ ~Add /\ ~Mix
  BY DEF Call, Add, Mix, FeedingEnds
<1>5. Feed => stage' = stage
  BY DEF Feed, callVars
<1>6. ~RacedFeedDone
  BY DEF RacedFeedDone
<1>7. UNCHANGED playVars => stage' = stage
  BY DEF playVars, callVars
<1>8. stage' # stage
  BY DEF FeedingEnds
<1> QED
  BY <1>1, <1>2, <1>3, <1>4, <1>5, <1>6, <1>7, <1>8
     DEF PlayNext, ChatStep, PacketStep

(* A play that ends by itself has skipped no packet of its file before the *)
(* last, however the clock is set, unless the threads have met in it.      *)
THEOREM EndsWithAllButLast == PlaySpec => AllButLast
<1> DEFINE Ended == \A f \in reel :
                      FeedingEnds /\ isOpen /\ ~isOpen' /\ ~raced
                        => fed >= Len(f.stamps) - 1
<1> SUFFICES PlaySpec => [][Ended]_playVars
  BY DEF AllButLast
<1>1. PlayInv /\ [PlayNext]_playVars => Ended
  <2> SUFFICES ASSUME PlayInv, [PlayNext]_playVars, NEW f \in reel,
                      FeedingEnds, isOpen, ~isOpen', ~raced
               PROVE  fed >= Len(f.stamps) - 1
    OBVIOUS
  <2> HIDE DEF Ended
  <2>1. FeedDone
    BY WhoEndsFeeding
  <2>2. AtEnd(f) /\ chat = "idle"
    BY <2>1 DEF FeedDone, PlayInv, PlayTypes, PlaceOK
  <2>3. fed = pos - 1 /\ f \in Files
    BY <2>2 DEF PlayInv, PlaceOK, PlayTypes
  <2>4. Len(f.stamps) \in Nat
    BY <2>3, FileFacts
  <2>5. pos = Len(f.stamps) + 1 \/ pos = Len(f.stamps) + 0
    BY <2>2 DEF AtEnd
  <2> QED
    BY <2>3, <2>4, <2>5
<1> HIDE DEF Ended
<1>2. PlayInv /\ [PlayNext]_playVars => [Ended]_playVars
  BY <1>1
<1> QED
  BY <1>2, PlayInvariance, PTL DEF PlaySpec

(* A call that the other thread has not met leaves the mixer with all that *)
(* was due when it read the clock and with nothing else, for every set of  *)
(* recordings and all their time stamps, if the clock was not set.         *)
THEOREM InTime == PlaySpec => PlaysInTime
<1> DEFINE Timely ==
      \A asOf \in call, f \in reel :
        FeedingEnds /\ ~raced /\ ~moved =>
          /\ \A k \in 1..fed : Since(f, k) < asOf
          /\ fed + 1 < Len(f.stamps) => Since(f, fed + 1) >= asOf
<1> SUFFICES PlaySpec => [][Timely]_playVars
  BY DEF PlaysInTime
<1>1. PlayInv /\ [PlayNext]_playVars => Timely
  <2> SUFFICES ASSUME PlayInv, [PlayNext]_playVars,
                      NEW asOf \in call, NEW f \in reel,
                      FeedingEnds, ~raced, ~moved
               PROVE  /\ \A k \in 1..fed : Since(f, k) < asOf
                      /\ fed + 1 < Len(f.stamps) => Since(f, fed + 1) >= asOf
    OBVIOUS
  <2> HIDE DEF Timely
  <2>1. FeedDone
    BY WhoEndsFeeding
  <2>2. isOpen /\ chat = "idle" /\ reel = {f} /\ call = {asOf}
        /\ f \in Files /\ pos \in Nat /\ asOf \in Int
    <3>1. reel = {f} /\ call = {asOf} /\ f \in Files
          /\ pos \in Nat /\ asOf \in Int
      BY DEF PlayInv, PlayTypes
    <3> QED
      BY <3>1 DEF PlayInv, PlaceOK, FeedingEnds
  <2>3. fed = pos - 1 /\ pos >= 1
    BY <2>2 DEF PlayInv, PlaceOK
  <2>4. \A k \in 1..fed : Since(f, k) < asOf
    BY <2>2 DEF PlayInv, DueOK, AllDue
  <2>5. ASSUME fed + 1 < Len(f.stamps)
        PROVE  Since(f, fed + 1) >= asOf
    <3>1. Len(f.stamps) \in Nat
      BY <2>2, FileFacts
    <3>2. fed + 1 = pos /\ pos < Len(f.stamps)
      BY <2>2, <2>3, <2>5
    <3>3. pos \in 1..Len(f.stamps)
      BY <2>2, <2>3, <3>1, <3>2
    <3>4. ~AtEnd(f)
      <4>1. AtEnd(f) => pos = Len(f.stamps) + 1 \/ pos = Len(f.stamps) + 0
        BY DEF AtEnd
      <4> QED
        BY <2>2, <3>1, <3>2, <4>1
    <3>5. ~Due(f, asOf)
      BY <2>1, <2>2, <3>4 DEF FeedDone
    <3>6. Since(f, pos) \in Int
      BY <2>2, <3>3, FileFacts
    <3> QED
      BY <2>2, <3>2, <3>5, <3>6 DEF Due
  <2> QED
    BY <2>4, <2>5
<1> HIDE DEF Timely
<1>2. PlayInv /\ [PlayNext]_playVars => [Timely]_playVars
  BY <1>1
<1> QED
  BY <1>2, PlayInvariance, PTL DEF PlaySpec
=============================================================================
