------------------------------ MODULE Playback ------------------------------
(***************************************************************************)
(* Playback of a recording into a room: the reading side of ReplayStream.  *)
(* The chat thread opens a file (readOpen) and closes it; the packet       *)
(* thread calls getPlayBackMix for every packet it forwards, which gives   *)
(* the mixer what has become due and then may mix a block.                 *)
(*                                                                         *)
(* Neither thread locks anything.  A call that meets readOpen or close is  *)
(* a data race on the file stream: to the end of this play the stream may  *)
(* be anywhere in the file, or closed (the actions named Raced...).  What  *)
(* such a call does to the timer and to m_delta is kept step by step, each *)
(* of its += and -= taken as one.                                          *)
(*                                                                         *)
(* The measured times are unsigned in the code; here they are integers,    *)
(* and a negative one is one that has wrapped, so greater than any other.  *)
(*                                                                         *)
(* A file is its contents: the time stamps of its packets, and whether one *)
(* more packet is left unfinished at the end.                              *)
(***************************************************************************)
EXTENDS Integers, Sequences

CONSTANTS
  Files,      \* what a recording may contain: a set of contents
  BlockTime,  \* outFrameTime of the playback: 128 samples
  Gaps,       \* time that may pass between two steps
  Settings,   \* by how much the clock may be set meanwhile
  MaxAge,     \* bound: the age of a play is told apart up to this one
  MaxOwed     \* bound: the packet thread calls again within this time, and
              \* times are told apart up to it

ASSUME PlaybackAssumption ==
  /\ Files \subseteq [opens : BOOLEAN, header : BOOLEAN,
                     stamps : Seq(Int), torn : BOOLEAN]
  /\ Gaps \subseteq Nat /\ Settings \subseteq Int
  /\ BlockTime \in Nat \ {0} /\ MaxAge \in Nat
  /\ MaxOwed \in Nat /\ BlockTime <= MaxOwed
  /\ \A f \in Files : \A k \in DOMAIN f.stamps :
       f.stamps[k] - f.stamps[1] < MaxAge

VARIABLES
  chat,     \* how far the chat thread is in readOpen; "idle": not in it
  reel,     \* {f}: the file last opened, or about to be
  isOpen,   \* m_infile.is_open()
  pos,      \* packets read; the last one is in m_packet, not yet given
  age,      \* now less the moment m_timeOffset was computed
  call,     \* {asOf}: the packet thread is in getPlayBackMix,
  stage,    \* at this point of it,
  measured, \* with this answer of m_timer's, not yet in m_delta
  unread,   \* what m_timer would answer now
  m_delta,  \* time measured and not yet mixed
  fed,      \* history: the last packet given to the mixer
  owed,     \* history: time since readOpen began, less the time mixed
  moved,    \* history: the clock was set since readOpen began
  raced     \* history: the two threads met in this play

fileVars == <<chat, reel, isOpen, pos, fed>>
clockVars == <<measured, unread, m_delta, owed>>
callVars == <<call, stage>>
playVars == <<fileVars, clockVars, callVars, age, moved, raced>>

Within(x, bound) == IF x > bound THEN bound ELSE IF x < -bound THEN -bound ELSE x

-----------------------------------------------------------------------------
(* Bugs this code could have; each replaces the definition named beside it *)
SinceSwapped(f, k) == IF k = 1 THEN 0 ELSE MaxAge                  \* Since
DueAtOnce(f, asOf) == asOf >= f.stamps[pos] - f.stamps[1]          \* Due
AtEndTooSoon(f) == pos + 1 >= Len(f.stamps)                        \* AtEnd
TimerRuns == UNCHANGED unread                               \* StartTimer

-----------------------------------------------------------------------------
(* A time stamp, of which only the distance to the first one matters       *)
Since(f, k) == f.stamps[k] - f.stamps[1]

(* packetReady: nothing left to peek at closes the file, also when one     *)
(* packet is still in m_packet; of an unfinished packet there is something *)
AtEnd(f) == pos = Len(f.stamps) + (IF f.torn THEN 1 ELSE 0)
Due(f, asOf) == asOf > Since(f, pos)

StartTimer == unread' = 0

-----------------------------------------------------------------------------
(* The chat thread: !playAudio, in five steps, and !stopAudio.  A file     *)
(* still open is open to the third.                                        *)
Reset(f) ==
  /\ chat = "idle"
  /\ chat' = "reset" /\ reel' = {f} /\ pos' = 0 /\ fed' = 0
  /\ m_delta' = 0 /\ owed' = 0
  /\ moved' = FALSE
  /\ raced' = (call # {})
  /\ age' = 0
  /\ UNCHANGED <<isOpen, measured, unread, callVars>>

ResetTimer ==
  /\ chat = "reset"
  /\ StartTimer
  /\ chat' = "opening"
  /\ UNCHANGED <<reel, isOpen, pos, fed, measured, m_delta, owed, callVars, age,
                 moved, raced>>

Open ==
  /\ chat = "opening"
  /\ \E f \in reel :
       /\ isOpen' = f.opens
       /\ chat' = IF f.opens THEN "opened" ELSE "idle"
  /\ UNCHANGED <<reel, pos, fed, clockVars, age, callVars, moved, raced>>

(* The metadata and the first packet; what is missing closes the file      *)
ReadFirst ==
  /\ chat = "opened" /\ ~raced
  /\ \E f \in reel :
       IF isOpen /\ f.header /\ f.stamps # <<>>
       THEN pos' = 1 /\ chat' = "loaded" /\ UNCHANGED isOpen
       ELSE isOpen' = FALSE /\ chat' = "idle" /\ UNCHANGED pos
  /\ UNCHANGED <<reel, fed, clockVars, age, callVars, moved, raced>>

RacedReadFirst ==
  /\ chat = "opened" /\ raced
  /\ \/ chat' = "loaded" /\ UNCHANGED isOpen
     \/ chat' = "idle" /\ isOpen' = FALSE
  /\ UNCHANGED <<reel, pos, fed, clockVars, age, callVars, moved, raced>>

SetOffset ==
  /\ chat = "loaded"
  /\ chat' = "idle"
  /\ age' = 0
  /\ UNCHANGED <<reel, isOpen, pos, fed, clockVars, callVars, moved, raced>>

StopPlay ==
  /\ chat = "idle" /\ isOpen
  /\ isOpen' = FALSE
  /\ raced' = (raced \/ call # {})
  /\ UNCHANGED <<chat, reel, pos, fed, clockVars, age, callVars, moved>>

-----------------------------------------------------------------------------
(* The packet thread: one call of getPlayBackMix, from its clock reading   *)
Call ==
  /\ isOpen /\ call = {}
  /\ call' = {age} /\ stage' = "feed"
  /\ raced' = (raced \/ chat # "idle")
  /\ UNCHANGED <<fileVars, clockVars, age, moved>>

Feed ==
  /\ stage = "feed" /\ ~raced
  /\ \E f \in reel, asOf \in call : ~AtEnd(f) /\ Due(f, asOf)
  /\ fed' = pos
  /\ pos' = pos + 1
  /\ UNCHANGED <<chat, reel, isOpen, clockVars, callVars, age, moved, raced>>

(* getExpiredTime                                                          *)
Measure ==
  /\ measured' = unread /\ unread' = 0
  /\ stage' = "add"
  /\ UNCHANGED <<chat, reel, pos, fed, m_delta, owed, call, age, moved, raced>>

FeedDone ==
  /\ stage = "feed" /\ ~raced
  /\ \E f \in reel, asOf \in call :
       IF AtEnd(f) THEN isOpen' = FALSE
       ELSE ~Due(f, asOf) /\ UNCHANGED isOpen
  /\ Measure

RacedFeedDone ==
  /\ stage = "feed" /\ raced /\ call # {}
  /\ isOpen' \in {isOpen, FALSE}
  /\ Measure

Add ==
  /\ stage = "add"
  /\ LET sum == m_delta + measured
     IN  /\ m_delta' = Within(sum, MaxOwed)
         /\ IF sum > BlockTime \/ sum < 0
            THEN stage' = "mix" /\ UNCHANGED call
            ELSE stage' = "feed" /\ call' = {}
  /\ measured' = 0
  /\ UNCHANGED <<fileVars, unread, owed, age, moved, raced>>

(* What is subtracted from is m_delta as it is by then.                    *)
Mix ==
  /\ stage = "mix"
  /\ m_delta' = Within(m_delta - BlockTime, MaxOwed)
  /\ owed' = IF moved THEN 0 ELSE Within(owed - BlockTime, MaxOwed)
  /\ stage' = "feed" /\ call' = {}
  /\ UNCHANGED <<fileVars, measured, unread, age, moved, raced>>

-----------------------------------------------------------------------------
(* d microseconds pass and the wall clock is set by jump.  While no file   *)
(* is open nothing reads the clock before readOpen resets it.  In a play   *)
(* that nobody disturbs, the packet thread calls before MaxOwed is over.   *)
Pass(d, jump) ==
  LET busy == isOpen \/ chat # "idle" \/ call # {}
      clean == ~raced /\ ~moved /\ chat = "idle" /\ jump = 0
  IN  IF ~busy THEN UNCHANGED playVars
      ELSE /\ clean => m_delta + measured + unread + d <= MaxOwed
           /\ moved' = (moved \/ jump # 0)
           /\ age' = IF chat = "idle" /\ ~raced
                     THEN Within(age + d + jump, MaxAge) ELSE age
           /\ unread' = Within(unread + d + jump, MaxOwed)
           /\ owed' = IF moved' THEN 0 ELSE Within(owed + d, MaxOwed)
           /\ UNCHANGED <<fileVars, measured, m_delta, callVars, raced>>

PlayInit ==
  /\ chat = "idle" /\ reel = {} /\ isOpen = FALSE /\ pos = 0
  /\ age = 0 /\ call = {} /\ stage = "feed"
  /\ measured = 0 /\ unread = 0 /\ m_delta = 0
  /\ fed = 0 /\ owed = 0 /\ moved = FALSE /\ raced = FALSE

ChatStep ==
  \/ \E f \in Files : Reset(f)
  \/ ResetTimer \/ Open \/ ReadFirst \/ RacedReadFirst \/ SetOffset \/ StopPlay

PacketStep == Call \/ Feed \/ FeedDone \/ RacedFeedDone \/ Add \/ Mix

TimePasses == \E d \in Gaps, jump \in Settings : Pass(d, jump)

PlayNext == ChatStep \/ PacketStep \/ TimePasses

PlaySpec == PlayInit /\ [][PlayNext]_playVars

(* Time goes on, the packet thread gets on with its call, and members of   *)
(* the room send packets, so that it calls again.                          *)
FairPlaySpec ==
  /\ PlaySpec
  /\ WF_playVars(PacketStep)
  /\ WF_playVars((\E d \in Gaps : Pass(d, 0)) /\ age' # age)

-----------------------------------------------------------------------------
(* A call has given the mixer what it found due.                           *)
FeedingEnds == stage = "feed" /\ stage' = "add"

(* A call that no other thread disturbs leaves the mixer with every packet *)
(* before the last that is due at the time of the call, and none that is   *)
(* not: none early, none forgotten, as long as the clock is not set.       *)
PlaysInTime ==
  [][\A asOf \in call, f \in reel :
       FeedingEnds /\ ~raced /\ ~moved =>
         /\ \A k \in 1..fed : Since(f, k) < asOf
         /\ fed + 1 < Len(f.stamps) => Since(f, fed + 1) >= asOf]_playVars

(* A play that ends by itself has skipped no packet before the last one,   *)
(* whatever the clock did meanwhile.                                       *)
AllButLast ==
  [][\A f \in reel :
       FeedingEnds /\ isOpen /\ ~isOpen' /\ ~raced
         => fed >= Len(f.stamps) - 1]_playVars

(* A play nobody disturbs, with a clock that is not set, never mixes more  *)
(* sound than time has passed since readOpen began: the time left from an  *)
(* earlier play does not count, however that one ended.                    *)
MixNotAhead == ~raced /\ ~moved => owed >= 0

(* A play nobody disturbs comes to its end, if packets keep coming.        *)
PlaybackEnds ==
  (isOpen /\ chat = "idle")
    ~> (~isOpen \/ chat # "idle" \/ raced \/ moved)
=============================================================================
