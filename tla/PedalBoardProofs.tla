-------------------------- MODULE PedalBoardProofs --------------------------
(***************************************************************************)
(* The grace period protects the chain for every grace period longer than  *)
(* a block, any boards and any calls.  The invariant behind it: while the  *)
(* parameter thread sleeps, a block still running began before m_stable    *)
(* was cleared, so it is at least as old as the sleep.                     *)
(*                                                                         *)
(* And every pedal has one owner: between calls because of what holds      *)
(* within them (Owned), where a pedal is on no chain while it is held,     *)
(* where init frees the chain from its front, and where what the factory   *)
(* lost is on no chain and never comes back.                               *)
(***************************************************************************)
EXTENDS PedalBoard, SequenceTheorems, TLAPS

Op == {"idle", "init?", "insert?", "delete?", "move?", "init", "load",
       "insert", "delete", "free", "move", "place", "done"}

TimeOK ==
  /\ edit \in [op : Op, a : Int, b : Int]
  /\ inBlock \in BOOLEAN
  /\ waited \in Nat /\ blockAge \in 0..BlockTime

IInv ==
  /\ TimeOK
  /\ stable => edit.op = "idle"
  /\ Waiting /\ inBlock => waited <= blockAge
  /\ GraceProtects

USE PedalAssumption

LEMMA ZeroAge == 0 \in 0..BlockTime /\ 0 \in Nat
OBVIOUS

LEMMA SleepIsGrace == Sleep \in Nat /\ Sleep >= Grace
BY DEF Sleep

-----------------------------------------------------------------------------
LEMMA InitStep == Init => IInv
<1> SUFFICES ASSUME Init PROVE IInv
  OBVIOUS
<1>1. edit \in [op : Op, a : Int, b : Int] /\ edit.op = "idle"
  BY DEF Init, Idle, Op
<1>2. TimeOK
  BY <1>1, ZeroAge DEF Init, TimeOK
<1> QED
  BY <1>1, <1>2 DEF Init, IInv, GraceProtects, Waiting, Editing

(* A call begins: nothing is touched while the sleep begins from 0.        *)
LEMMA MarkUnstableStep ==
  ASSUME IInv, NEW op \in {"init?", "insert?", "delete?", "move?"},
         NEW a \in Int, NEW b \in Int, MarkUnstable(op, a, b)
  PROVE  IInv'
BY DEF MarkUnstable, IInv, TimeOK, GraceProtects, Idle, Op, Waiting, Editing,
       audio

(* The sleep is over: a block still running would be too old.              *)
LEMMA SleepOverStep ==
  ASSUME IInv, SleepOver
  PROVE  IInv'
<1>1. ~inBlock
  BY SleepIsGrace DEF IInv, TimeOK, SleepOver
<1>2. /\ edit'.op \in {"init", "insert", "delete", "move"}
      /\ edit' \in [op : Op, a : Int, b : Int]
  BY DEF SleepOver, IInv, TimeOK, Op
<1>3. UNCHANGED <<stable, waited, inBlock, blockAge>> /\ ~stable
  BY DEF SleepOver, IInv, Waiting, audio
<1> QED
  BY <1>1, <1>2, <1>3 DEF IInv, TimeOK, GraceProtects, Waiting, Editing

(* The steps of the editing: the audio thread stays out.                   *)
LEMMA EditStep ==
  ASSUME IInv, Edit
  PROVE  IInv'
<1>1. CASE SleepOver
  BY <1>1, SleepOverStep
<1>2. ASSUME InitFree \/ InitClear \/ Delete \/ Free \/ Move \/ Place
             \/ (\E pedal \in Pedal, bypass \in BOOLEAN : InitLoad(pedal, bypass))
             \/ (\E pedal \in Pedal : InitLoadFails(pedal) \/ Insert(pedal))
      PROVE  IInv'
  <2>1. /\ Editing /\ UNCHANGED <<stable, waited, inBlock, blockAge>>
        /\ edit' \in [op : Op, a : Int, b : Int]
        /\ edit'.op \in {"init", "load", "free", "place", "done"}
    BY <1>2 DEF InitFree, InitClear, Delete, Free, Move, Place, InitLoad,
                InitLoadFails, Insert, Editing, audio, IInv, TimeOK, Op
  <2> QED
    BY <2>1 DEF IInv, TimeOK, GraceProtects, Waiting, Editing
<1>3. CASE MarkStable
  BY <1>3 DEF MarkStable, IInv, TimeOK, GraceProtects, Waiting, Editing, Idle,
              Op, audio
<1> QED
  BY <1>1, <1>2, <1>3 DEF Edit

(* The audio thread begins a block on a stable board only.                 *)
LEMMA AudioStep ==
  ASSUME IInv, Audio
  PROVE  IInv'
<1>1. CASE StartBlock
  BY <1>1 DEF StartBlock, IInv, TimeOK, GraceProtects, Waiting, Editing, params
<1>2. CASE Effect \/ EffectDone
  <2>1. UNCHANGED <<stable, edit, waited, inBlock, blockAge>>
    BY <1>2 DEF Effect, EffectDone, params
  <2> QED
    BY <2>1 DEF IInv, TimeOK, GraceProtects, Waiting, Editing
<1>3. CASE EndBlock
  <2>1. UNCHANGED <<stable, edit, waited>> /\ inBlock' = FALSE /\ blockAge' = 0
    BY <1>3 DEF EndBlock, params
  <2> QED
    BY <2>1, ZeroAge DEF IInv, TimeOK, GraceProtects, Waiting, Editing
<1> QED
  BY <1>1, <1>2, <1>3 DEF Audio

LEMMA TickStep ==
  ASSUME IInv, Tick
  PROVE  IInv'
<1>1. /\ UNCHANGED <<stable, edit, inBlock>>
      /\ waited' \in {waited, waited + 1}
      /\ blockAge' = IF inBlock THEN blockAge + 1 ELSE 0
      /\ inBlock => blockAge < BlockTime
  BY DEF Tick
<1> QED
  BY <1>1 DEF IInv, TimeOK, GraceProtects, Waiting, Editing

LEMMA RequestStep ==
  ASSUME IInv, Request
  PROVE  IInv'
<1>1. ASSUME NEW idx \in 0..MaxPedals, ToggleBypass(idx)
      PROVE  IInv'
  BY <1>1 DEF ToggleBypass, params, audio, IInv, TimeOK, GraceProtects,
              Waiting, Editing
<1>2. ASSUME NEW n \in 0..MaxPedals, InitBoard(n)
      PROVE  IInv'
  BY <1>2, MarkUnstableStep DEF InitBoard
<1>3. ASSUME NEW idx \in 0..MaxPedals, InsertPedal(idx) \/ DeletePedal(idx)
      PROVE  IInv'
  BY <1>3, MarkUnstableStep DEF InsertPedal, DeletePedal
<1>4. ASSUME NEW from \in 0..MaxPedals, NEW to \in 0..MaxPedals,
             MovePedal(from, to)
      PROVE  IInv'
  BY <1>4, MarkUnstableStep DEF MovePedal
<1> QED
  BY <1>1, <1>2, <1>3, <1>4 DEF Request

-----------------------------------------------------------------------------
(* While the chain is changed the audio thread is not in processBlock, for *)
(* every grace period that is longer than the longest block.               *)
THEOREM GraceIsEnough == Spec => []GraceProtects
<1>1. Init => IInv
  BY InitStep
<1>2. IInv /\ [Next]_vars => IInv'
  <2>1. CASE UNCHANGED vars
    BY <2>1 DEF vars, params, audio, IInv, TimeOK, GraceProtects, Waiting,
                Editing
  <2> QED
    BY <2>1, RequestStep, EditStep, AudioStep, TickStep DEF Next
<1>3. IInv => GraceProtects
  BY DEF IInv
<1> QED
  BY <1>1, <1>2, <1>3, PTL DEF Spec

-----------------------------------------------------------------------------
(* Who owns the pedals, also within a call.                                *)
Holds(s) == {s[i] : i \in 1..Len(s)}
Distinct(s) == \A i, j \in 1..Len(s) : i # j => s[i] # s[j]
InHand == edit.op \in {"free", "place"}

Owned ==
  /\ chain \in Seq(Pedal) /\ Distinct(chain)
  /\ leaked \cap Holds(chain) = {}
  /\ edit.op = "init" =>
       /\ live = {chain[i] : i \in (edit.b + 1)..Len(chain)} \cup leaked
       /\ held = NoPedal
  /\ InHand =>
       /\ held \in Pedal \ (Holds(chain) \cup leaked)
       /\ live = Holds(chain) \cup {held} \cup leaked
  /\ edit.op # "init" /\ ~InHand =>
       live = Holds(chain) \cup leaked /\ held = NoPedal

(* The operands of a call stay what the call was given, in range where the *)
(* call has checked them.                                                  *)
OperandsOK ==
  /\ edit \in [op : Op, a : Nat, b : Nat]
  /\ edit.op = "init?" => edit.b = 0
  /\ edit.op = "init" => edit.b <= Len(chain)
  /\ edit.op \in {"move?", "move"} => edit.a < Len(chain)

Ownership == Owned /\ OperandsOK

(* What stands where after an insertion and after a removal.               *)
IsSpliced(r, s, i, p) ==
  /\ Len(r) = Len(s) + 1
  /\ \A k \in 1..i : r[k] = s[k]
  /\ r[i + 1] = p
  /\ \A k \in (i + 1)..Len(s) : r[k + 1] = s[k]
IsReduced(r, s, i) ==
  /\ Len(r) = Len(s) - 1
  /\ \A k \in 1..i : r[k] = s[k]
  /\ \A k \in (i + 2)..Len(s) : r[k - 1] = s[k]

LEMMA SplicedIn ==
  ASSUME NEW s \in Seq(Pedal), NEW p \in Pedal, NEW i \in 0..Len(s)
  PROVE  \E r \in Seq(Pedal) :
           /\ r = SubSeq(s, 1, i) \o <<p>> \o SubSeq(s, i + 1, Len(s))
           /\ IsSpliced(r, s, i, p)
<1> DEFINE front == SubSeq(s, 1, i)
           back == SubSeq(s, i + 1, Len(s))
<1>1. Len(s) \in Nat /\ i \in Int /\ 1 \in Int /\ i + 1 \in Int /\ Len(s) \in Int
      /\ \A k \in 1..Len(s) : s[k] \in Pedal
  OBVIOUS
<1>2. front \in Seq(Pedal) /\ Len(front) = i /\ \A k \in 1..i : front[k] = s[k]
  <2>1. /\ front \in Seq(Pedal)
        /\ Len(front) = IF 1 <= i THEN i - 1 + 1 ELSE 0
        /\ \A k \in 1..(i - 1 + 1) : front[k] = s[1 + k - 1]
    BY <1>1, SubSeqProperties
  <2> QED
    BY <1>1, <2>1
<1>3. /\ back \in Seq(Pedal) /\ Len(back) = Len(s) - i
      /\ \A k \in 1..(Len(s) - i) : back[k] = s[i + k]
  <2>1. /\ back \in Seq(Pedal)
        /\ Len(back) = IF i + 1 <= Len(s) THEN Len(s) - (i + 1) + 1 ELSE 0
        /\ \A k \in 1..(Len(s) - (i + 1) + 1) : back[k] = s[(i + 1) + k - 1]
    BY <1>1, SubSeqProperties
  <2> QED
    BY <1>1, <2>1
<1> HIDE DEF front, back
<1>4. /\ front \o <<p>> \in Seq(Pedal) /\ Len(front \o <<p>>) = i + 1
      /\ \A k \in 1..i : (front \o <<p>>)[k] = s[k]
      /\ (front \o <<p>>)[i + 1] = p
  BY <1>1, <1>2
<1> DEFINE most == front \o <<p>>
<1> HIDE DEF most
<1>5. /\ most \o back \in Seq(Pedal)
      /\ Len(most \o back) = Len(s) + 1
      /\ \A k \in 1..(i + 1) : (most \o back)[k] = most[k]
      /\ \A k \in (i + 1)..Len(s) : (most \o back)[k + 1] = back[k - i]
  <2>1. most \in Seq(Pedal) /\ Len(most) = i + 1
    BY <1>4 DEF most
  <2>2. /\ most \o back \in Seq(Pedal)
        /\ Len(most \o back) = Len(most) + Len(back)
        /\ \A k \in 1..(Len(most) + Len(back)) :
             (most \o back)[k] = IF k <= Len(most) THEN most[k]
                                 ELSE back[k - Len(most)]
    BY <1>3, <2>1, ConcatProperties
  <2>3. \A k \in 1..(i + 1) : k \in 1..(Len(most) + Len(back)) /\ k <= Len(most)
    BY <1>1, <1>3, <2>1
  <2>4. \A k \in (i + 1)..Len(s) :
          /\ k + 1 \in 1..(Len(most) + Len(back)) /\ ~(k + 1 <= Len(most))
          /\ (k + 1) - Len(most) = k - i
    BY <1>1, <1>3, <2>1
  <2>5. Len(most) + Len(back) = Len(s) + 1
    BY <1>1, <1>3, <2>1
  <2> QED
    BY ONLY <2>2, <2>3, <2>4, <2>5
<1>6. \A k \in (i + 1)..Len(s) : back[k - i] = s[k]
  BY <1>1, <1>3
<1>7. /\ \A k \in 1..i : (most \o back)[k] = s[k]
      /\ (most \o back)[i + 1] = p
  <2>1. i + 1 \in 1..(i + 1) /\ \A k \in 1..i : k \in 1..(i + 1)
    BY <1>1
  <2> QED
    BY <1>4, <1>5, <2>1 DEF most
<1> QED
  BY <1>5, <1>6, <1>7 DEF most, front, back, IsSpliced

LEMMA TakenOut ==
  ASSUME NEW s \in Seq(Pedal), NEW i \in Nat, i < Len(s)
  PROVE  \E r \in Seq(Pedal) :
           /\ r = SubSeq(s, 1, i) \o SubSeq(s, i + 2, Len(s))
           /\ IsReduced(r, s, i)
<1> DEFINE front == SubSeq(s, 1, i)
           back == SubSeq(s, i + 2, Len(s))
<1>1. Len(s) \in Nat /\ i \in Int /\ 1 \in Int /\ i + 2 \in Int /\ Len(s) \in Int
      /\ \A k \in 1..Len(s) : s[k] \in Pedal
  OBVIOUS
<1>2. front \in Seq(Pedal) /\ Len(front) = i /\ \A k \in 1..i : front[k] = s[k]
  <2>1. /\ front \in Seq(Pedal)
        /\ Len(front) = IF 1 <= i THEN i - 1 + 1 ELSE 0
        /\ \A k \in 1..(i - 1 + 1) : front[k] = s[1 + k - 1]
    BY <1>1, SubSeqProperties
  <2> QED
    BY <1>1, <2>1
<1>3. /\ back \in Seq(Pedal) /\ Len(back) = Len(s) - i - 1
      /\ \A k \in 1..(Len(s) - i - 1) : back[k] = s[i + 1 + k]
  <2>1. /\ back \in Seq(Pedal)
        /\ Len(back) = IF i + 2 <= Len(s) THEN Len(s) - (i + 2) + 1 ELSE 0
        /\ \A k \in 1..(Len(s) - (i + 2) + 1) : back[k] = s[(i + 2) + k - 1]
    BY <1>1, SubSeqProperties
  <2> QED
    BY <1>1, <2>1
<1> HIDE DEF front, back
<1>4. /\ front \o back \in Seq(Pedal) /\ Len(front \o back) = Len(s) - 1
      /\ \A k \in 1..i : (front \o back)[k] = front[k]
      /\ \A k \in (i + 2)..Len(s) : (front \o back)[k - 1] = back[k - i - 1]
  <2>1. /\ front \o back \in Seq(Pedal)
        /\ Len(front \o back) = Len(front) + Len(back)
        /\ \A k \in 1..(Len(front) + Len(back)) :
             (front \o back)[k] = IF k <= Len(front) THEN front[k]
                                  ELSE back[k - Len(front)]
    BY <1>2, <1>3, ConcatProperties
  <2>2. \A k \in 1..i : k \in 1..(Len(front) + Len(back)) /\ k <= Len(front)
    BY <1>1, <1>2, <1>3
  <2>3. \A k \in (i + 2)..Len(s) :
          /\ k - 1 \in 1..(Len(front) + Len(back)) /\ ~(k - 1 <= Len(front))
          /\ (k - 1) - Len(front) = k - i - 1
    BY <1>1, <1>2, <1>3
  <2>4. Len(front) + Len(back) = Len(s) - 1
    BY <1>1, <1>2, <1>3
  <2> QED
    BY <2>1, <2>2, <2>3, <2>4
<1>5. \A k \in (i + 2)..Len(s) : back[k - i - 1] = s[k]
  <2> TAKE k \in (i + 2)..Len(s)
  <2>1. k - i - 1 \in 1..(Len(s) - i - 1) /\ i + 1 + (k - i - 1) = k
    BY <1>1
  <2> QED
    BY ONLY <1>3, <2>1
<1> DEFINE r == front \o back
<1> HIDE DEF r
<1>6. /\ r \in Seq(Pedal) /\ Len(r) = Len(s) - 1
      /\ \A k \in 1..i : r[k] = s[k]
      /\ \A k \in (i + 2)..Len(s) : r[k - 1] = s[k]
  BY <1>2, <1>4, <1>5 DEF r
<1>7. r = SubSeq(s, 1, i) \o SubSeq(s, i + 2, Len(s))
  BY DEF r, front, back
<1> QED
  BY ONLY <1>6, <1>7 DEF IsReduced

(* A pedal put anywhere into a chain it is not on.                         *)
LEMMA InsertedOnce ==
  ASSUME NEW s \in Seq(Pedal), Distinct(s), NEW p \in Pedal, p \notin Holds(s),
         NEW i \in 0..Len(s), NEW r \in Seq(Pedal), IsSpliced(r, s, i, p)
  PROVE  Distinct(r) /\ Holds(r) = Holds(s) \cup {p}
<1> USE DEF IsSpliced
<1>1. /\ Len(s) \in Nat /\ i \in Nat /\ i <= Len(s)
      /\ Len(r) = Len(s) + 1 /\ r[i + 1] = p /\ Distinct(s)
  OBVIOUS
<1>2. \A k \in 1..Len(s) : s[k] # p
  BY DEF Holds
<1>3. \A j \in 1..Len(r) :
        \/ j \in 1..i /\ r[j] = s[j]
        \/ j = i + 1 /\ r[j] = p
        \/ j > i + 1 /\ j - 1 \in 1..Len(s) /\ r[j] = s[j - 1]
  <2> TAKE j \in 1..Len(r)
  <2>1. CASE j > i + 1
    <3>1. j - 1 \in (i + 1)..Len(s) /\ (j - 1) + 1 = j
      BY <1>1, <2>1
    <3> QED
      BY <1>1, <2>1, <3>1
  <2> QED
    BY <1>1, <2>1
<1>4. Distinct(r)
  <2> DEFINE from(j) == IF j <= i THEN j ELSE j - 1
  <2>1. \A j \in 1..Len(r) : j # i + 1 =>
          from(j) \in 1..Len(s) /\ r[j] = s[from(j)]
    BY ONLY <1>1, <1>3
  <2>2. \A j, k \in 1..Len(r) :
          j # i + 1 /\ k # i + 1 /\ j # k => from(j) # from(k)
    BY ONLY <1>1
  <2> HIDE DEF from
  <2>3. ASSUME NEW j \in 1..Len(r), NEW k \in 1..Len(r), j # k
        PROVE  r[j] # r[k]
    <3>1. CASE j = i + 1
      BY ONLY <1>1, <1>2, <2>1, <2>3, <3>1
    <3>2. CASE k = i + 1
      BY ONLY <1>1, <1>2, <2>1, <2>3, <3>2
    <3>3. CASE j # i + 1 /\ k # i + 1
      <4>1. /\ from(j) \in 1..Len(s) /\ from(k) \in 1..Len(s)
            /\ from(j) # from(k)
            /\ r[j] = s[from(j)] /\ r[k] = s[from(k)]
        BY ONLY <2>1, <2>2, <2>3, <3>3
      <4> QED
        BY ONLY <1>1, <4>1 DEF Distinct
    <3> QED
      BY <3>1, <3>2, <3>3
  <2> QED
    BY ONLY <2>3 DEF Distinct
<1>5. \A k \in 1..Len(s) : \E j \in 1..Len(r) : r[j] = s[k]
  <2> TAKE k \in 1..Len(s)
  <2>1. k \in 1..i \/ k \in (i + 1)..Len(s)
    BY <1>1
  <2>2. k \in 1..Len(r) /\ k + 1 \in 1..Len(r)
    BY <1>1
  <2> QED
    BY <2>1, <2>2
<1>6. i + 1 \in 1..Len(r)
  BY <1>1
<1>7. \A j \in 1..Len(r) : r[j] = p \/ \E k \in 1..Len(s) : s[k] = r[j]
  <2> TAKE j \in 1..Len(r)
  <2>1. j \in 1..i => j \in 1..Len(s)
    BY <1>1
  <2> QED
    BY ONLY <1>3, <2>1
<1>8. Holds(r) \subseteq Holds(s) \cup {p}
  BY ONLY <1>7 DEF Holds
<1>9. Holds(s) \cup {p} \subseteq Holds(r)
  <2>1. p \in Holds(r)
    BY ONLY <1>1, <1>6 DEF Holds
  <2> QED
    BY ONLY <1>5, <2>1 DEF Holds
<1> QED
  BY ONLY <1>4, <1>8, <1>9

(* A pedal taken off a chain.                                              *)
LEMMA TakenOff ==
  ASSUME NEW s \in Seq(Pedal), Distinct(s), NEW i \in Nat, i < Len(s),
         NEW r \in Seq(Pedal), IsReduced(r, s, i)
  PROVE  /\ Distinct(r)
         /\ s[i + 1] \in Pedal \ Holds(r)
         /\ Holds(s) = Holds(r) \cup {s[i + 1]}
<1> USE DEF IsReduced
<1>1. /\ Len(s) \in Nat /\ i + 1 \in 1..Len(s) /\ s[i + 1] \in Pedal
      /\ i \in Nat /\ Len(r) = Len(s) - 1 /\ Distinct(s)
  OBVIOUS
<1>2. \A j \in 1..Len(r) :
        \/ j \in 1..i /\ r[j] = s[j]
        \/ j > i /\ j + 1 \in 1..Len(s) /\ r[j] = s[j + 1]
  <2> TAKE j \in 1..Len(r)
  <2>1. CASE j > i
    <3>1. j + 1 \in (i + 2)..Len(s) /\ (j + 1) - 1 = j
      BY <1>1, <2>1
    <3> QED
      BY <1>1, <2>1, <3>1
  <2> QED
    BY <1>1, <2>1
<1>3. Distinct(r)
  <2> DEFINE from(j) == IF j <= i THEN j ELSE j + 1
  <2>1. \A j \in 1..Len(r) : from(j) \in 1..Len(s) /\ r[j] = s[from(j)]
    BY ONLY <1>1, <1>2
  <2>2. \A j, k \in 1..Len(r) : j # k => from(j) # from(k)
    BY ONLY <1>1
  <2> HIDE DEF from
  <2>3. ASSUME NEW j \in 1..Len(r), NEW k \in 1..Len(r), j # k
        PROVE  r[j] # r[k]
    <3>1. /\ from(j) \in 1..Len(s) /\ from(k) \in 1..Len(s)
          /\ from(j) # from(k)
          /\ r[j] = s[from(j)] /\ r[k] = s[from(k)]
      BY ONLY <2>1, <2>2, <2>3
    <3> QED
      BY ONLY <1>1, <3>1 DEF Distinct
  <2> QED
    BY ONLY <2>3 DEF Distinct
<1>4. \A j \in 1..Len(r) : r[j] # s[i + 1]
  BY ONLY <1>1, <1>2 DEF Distinct
<1>5. \A k \in 1..Len(s) : k = i + 1 \/ \E j \in 1..Len(r) : r[j] = s[k]
  <2> TAKE k \in 1..Len(s)
  <2>1. k \in 1..i \/ k = i + 1 \/ k \in (i + 2)..Len(s)
    BY <1>1
  <2>2. k \in 1..i => k \in 1..Len(r)
    BY <1>1
  <2>3. k \in (i + 2)..Len(s) => k - 1 \in 1..Len(r)
    BY <1>1
  <2> QED
    BY <2>1, <2>2, <2>3
<1>6. \A j \in 1..Len(r) : \E k \in 1..Len(s) : s[k] = r[j]
  BY ONLY <1>1, <1>2
<1>7. s[i + 1] \notin Holds(r)
  BY ONLY <1>4 DEF Holds
<1>8. Holds(r) \subseteq Holds(s) /\ s[i + 1] \in Holds(s)
  BY ONLY <1>1, <1>6 DEF Holds
<1>9. Holds(s) \subseteq Holds(r) \cup {s[i + 1]}
  BY ONLY <1>5 DEF Holds
<1> QED
  BY ONLY <1>1, <1>3, <1>7, <1>8, <1>9

(* The same of the sequences the code computes.                            *)
LEMMA PutIn ==
  ASSUME NEW s \in Seq(Pedal), Distinct(s), NEW p \in Pedal, p \notin Holds(s),
         NEW i \in 0..Len(s), NEW r,
         r = SubSeq(s, 1, i) \o <<p>> \o SubSeq(s, i + 1, Len(s))
  PROVE  r \in Seq(Pedal) /\ Distinct(r) /\ Holds(r) = Holds(s) \cup {p}
<1>1. PICK q \in Seq(Pedal) :
        /\ q = SubSeq(s, 1, i) \o <<p>> \o SubSeq(s, i + 1, Len(s))
        /\ IsSpliced(q, s, i, p)
  BY SplicedIn
<1>2. Distinct(q) /\ Holds(q) = Holds(s) \cup {p}
  BY <1>1, InsertedOnce
<1>3. r = q
  BY <1>1
<1> QED
  BY ONLY <1>1, <1>2, <1>3

LEMMA TakenAway ==
  ASSUME NEW s \in Seq(Pedal), Distinct(s), NEW i \in Nat, i < Len(s),
         NEW r, r = SubSeq(s, 1, i) \o SubSeq(s, i + 2, Len(s))
  PROVE  /\ r \in Seq(Pedal) /\ Distinct(r)
         /\ s[i + 1] \in Pedal \ Holds(r)
         /\ Holds(s) = Holds(r) \cup {s[i + 1]}
<1>1. PICK q \in Seq(Pedal) :
        /\ q = SubSeq(s, 1, i) \o SubSeq(s, i + 2, Len(s))
        /\ IsReduced(q, s, i)
  BY TakenOut
<1>2. /\ Distinct(q) /\ s[i + 1] \in Pedal \ Holds(q)
      /\ Holds(s) = Holds(q) \cup {s[i + 1]}
  BY <1>1, TakenOff
<1>3. r = q
  BY <1>1
<1> QED
  BY ONLY <1>1, <1>2, <1>3

-----------------------------------------------------------------------------
(* The board is built without a pedal.                                     *)
LEMMA InitOwned == Init => Ownership
BY DEF Init, Ownership, Owned, OperandsOK, Holds, Distinct, InHand, Idle, Op

(* A call that waits has done nothing yet.                                 *)
LEMMA MarkUnstableOwned ==
  ASSUME Ownership, NEW op \in {"init?", "insert?", "delete?", "move?"},
         NEW a \in Nat, NEW b \in Nat, MarkUnstable(op, a, b),
         op = "init?" => b = 0, op = "move?" => a < Len(chain)
  PROVE  Ownership'
<1>1. /\ UNCHANGED <<chain, live, leaked, held>>
      /\ edit.op = "idle" /\ edit' = [op |-> op, a |-> a, b |-> b]
  BY DEF MarkUnstable, board, Idle
<1>2. OperandsOK'
  BY <1>1 DEF OperandsOK, Op
<1> QED
  BY <1>1, <1>2 DEF Ownership, Owned, InHand

LEMMA RequestOwned ==
  ASSUME Ownership, Request
  PROVE  Ownership'
<1>1. ASSUME NEW idx \in 0..MaxPedals, ToggleBypass(idx)
      PROVE  Ownership'
  <2>1. UNCHANGED <<chain, live, leaked, held, edit>>
    BY <1>1 DEF ToggleBypass, params
  <2> QED
    BY <2>1 DEF Ownership, Owned, OperandsOK, InHand
<1>2. ASSUME NEW n \in 0..MaxPedals, InitBoard(n)
      PROVE  Ownership'
  BY <1>2, MarkUnstableOwned DEF InitBoard
<1>3. ASSUME NEW idx \in 0..MaxPedals, InsertPedal(idx) \/ DeletePedal(idx)
      PROVE  Ownership'
  BY <1>3, MarkUnstableOwned DEF InsertPedal, DeletePedal
<1>4. ASSUME NEW from \in 0..MaxPedals, NEW to \in 0..MaxPedals,
             MovePedal(from, to)
      PROVE  Ownership'
  BY <1>4, MarkUnstableOwned DEF MovePedal
<1> QED
  BY <1>1, <1>2, <1>3, <1>4 DEF Request

(* init frees the chain from the front, and forgets it when it is all free *)
LEMMA InitFreeOwned ==
  ASSUME Ownership, InitFree
  PROVE  Ownership'
<1> DEFINE b == edit.b
<1>1. /\ chain \in Seq(Pedal) /\ Distinct(chain) /\ held = NoPedal
      /\ b \in Nat /\ b < Len(chain) /\ Len(chain) \in Nat
      /\ live = {chain[i] : i \in (b + 1)..Len(chain)} \cup leaked
      /\ leaked \cap Holds(chain) = {}
  BY DEF Ownership, Owned, OperandsOK, InitFree
<1>2. /\ chain' = chain /\ held' = held /\ leaked' = leaked /\ live' = live \ {chain[b + 1]}
      /\ edit' = [edit EXCEPT !.b = b + 1] /\ edit.op = "init"
      /\ edit \in [op : Op, a : Nat, b : Nat]
  BY DEF InitFree, Ownership, OperandsOK
<1>3. /\ edit' \in [op : Op, a : Nat, b : Nat]
      /\ edit'.op = "init" /\ edit'.b = b + 1
  BY <1>1, <1>2
<1>4. live' = {chain[i] : i \in ((b + 1) + 1)..Len(chain)} \cup leaked
  <2>1. \A i \in (b + 1)..Len(chain) :
          chain[i] = chain[b + 1] <=> i = b + 1
    BY <1>1 DEF Distinct
  <2>2. \A i : i \in ((b + 1) + 1)..Len(chain)
                <=> i \in (b + 1)..Len(chain) /\ i # b + 1
    BY <1>1
  <2>3. chain[b + 1] \notin leaked
    BY <1>1 DEF Holds
  <2> QED
    BY <1>1, <1>2, <2>1, <2>2, <2>3
<1> HIDE DEF b
<1>5. /\ live' = {chain'[i] : i \in (edit'.b + 1)..Len(chain')} \cup leaked
      /\ edit'.b <= Len(chain')
  <2>1. chain' = chain /\ b + 1 <= Len(chain)
    BY <1>1, <1>2
  <2> QED
    BY ONLY <1>3, <1>4, <2>1
<1> QED
  BY <1>1, <1>2, <1>3, <1>5 DEF Ownership, Owned, OperandsOK, InHand

LEMMA InitClearOwned ==
  ASSUME Ownership, InitClear
  PROVE  Ownership'
<1>1. /\ held = NoPedal /\ edit.b = Len(chain) /\ Len(chain) \in Nat
      /\ live = {chain[i] : i \in (edit.b + 1)..Len(chain)} \cup leaked
  BY DEF Ownership, Owned, InitClear
<1>2. live = leaked
  BY <1>1
<1>3. /\ chain' = <<>> /\ live' = live /\ held' = held /\ leaked' = leaked
      /\ edit' \in [op : Op, a : Nat, b : Nat] /\ edit'.op = "load"
  BY DEF InitClear, Ownership, OperandsOK, Op
<1> QED
  BY <1>1, <1>2, <1>3 DEF Ownership, Owned, OperandsOK, InHand, Holds, Distinct

LEMMA InitLoadOwned ==
  ASSUME Ownership, NEW pedal \in Pedal, NEW bypass, InitLoad(pedal, bypass)
  PROVE  Ownership'
<1>1. /\ chain \in Seq(Pedal) /\ Distinct(chain) /\ Len(chain) \in Nat
      /\ live = Holds(chain) \cup leaked /\ held = NoPedal /\ pedal \notin live
      /\ leaked \cap Holds(chain) = {}
  BY DEF Ownership, Owned, InHand, InitLoad
<1>2. /\ chain' = Append(chain, pedal) /\ leaked' = leaked /\ live' = live \cup {pedal}
      /\ held' = held /\ edit' = [edit EXCEPT !.a = edit.a - 1]
      /\ edit.a > 0 /\ edit.op = "load"
      /\ edit \in [op : Op, a : Nat, b : Nat]
  BY DEF InitLoad, Ownership, OperandsOK
<1>3. /\ edit' \in [op : Op, a : Nat, b : Nat] /\ edit'.op = "load"
  BY <1>2
<1>4. /\ chain' \in Seq(Pedal) /\ Len(chain') = Len(chain) + 1
      /\ \A k \in 1..Len(chain) : chain'[k] = chain[k]
      /\ chain'[Len(chain) + 1] = pedal
  BY <1>1, <1>2
<1>5. Distinct(chain') /\ Holds(chain') = Holds(chain) \cup {pedal}
  BY <1>1, <1>4 DEF Distinct, Holds
<1> QED
  BY <1>1, <1>2, <1>3, <1>4, <1>5 DEF Ownership, Owned, OperandsOK, InHand

LEMMA InitLoadFailsOwned ==
  ASSUME Ownership, NEW pedal \in Pedal, InitLoadFails(pedal)
  PROVE  Ownership'
<1>1. /\ live = Holds(chain) \cup leaked /\ held = NoPedal /\ pedal \notin live
      /\ edit \in [op : Op, a : Nat, b : Nat]
      /\ edit.op = "load" /\ edit.a > 0
  BY DEF Ownership, Owned, OperandsOK, InHand, InitLoadFails
<1>2. /\ chain' = chain /\ held' = held /\ live' = live \cup {pedal}
      /\ leaked' = leaked \cup {pedal}
      /\ edit' = [edit EXCEPT !.a = edit.a - 1]
  BY DEF InitLoadFails
<1>3. edit' \in [op : Op, a : Nat, b : Nat] /\ edit'.op = "load"
  BY <1>1, <1>2
<1> QED
  BY <1>1, <1>2, <1>3 DEF Ownership, Owned, OperandsOK, InHand

LEMMA InsertOwned ==
  ASSUME Ownership, NEW pedal \in Pedal, Insert(pedal)
  PROVE  Ownership'
<1> DEFINE i == IF edit.a >= Len(chain) THEN Len(chain) ELSE edit.a
<1>1. /\ chain \in Seq(Pedal) /\ Distinct(chain) /\ Len(chain) \in Nat
      /\ live = Holds(chain) \cup leaked /\ held = NoPedal /\ pedal \notin live
      /\ leaked \cap Holds(chain) = {}
  BY DEF Ownership, Owned, InHand, Insert
<1>2. /\ leaked' = leaked /\ live' = live \cup {pedal} /\ held' = held
      /\ edit' \in [op : Op, a : Nat, b : Nat] /\ edit'.op = "done"
  BY DEF Insert, Ownership, OperandsOK, Op
<1>3. i \in 0..Len(chain)
  BY <1>1 DEF Ownership, OperandsOK
<1>4. chain' = SubSeq(chain, 1, i) \o <<pedal>> \o SubSeq(chain, i + 1, Len(chain))
  BY DEF Insert, InsertAt
<1> HIDE DEF i
<1>5. /\ chain' \in Seq(Pedal) /\ Distinct(chain')
      /\ Holds(chain') = Holds(chain) \cup {pedal}
  BY <1>1, <1>3, <1>4, PutIn
<1> QED
  BY <1>1, <1>2, <1>5 DEF Ownership, Owned, OperandsOK, InHand

(* delete and move take a pedal into the hand ...                          *)
LEMMA TakeOffOwned ==
  ASSUME Ownership, Delete \/ Move
  PROVE  Ownership'
<1>1. /\ chain \in Seq(Pedal) /\ Distinct(chain)
      /\ live = Holds(chain) \cup leaked /\ leaked \cap Holds(chain) = {}
      /\ edit.a \in Nat /\ edit.a < Len(chain)
  BY DEF Ownership, Owned, OperandsOK, InHand, Delete, Move
<1>2. /\ held' = chain[edit.a + 1] /\ live' = live /\ leaked' = leaked
      /\ chain' = SubSeq(chain, 1, edit.a)
                    \o SubSeq(chain, edit.a + 2, Len(chain))
      /\ edit' \in [op : Op, a : Nat, b : Nat] /\ edit'.op \in {"free", "place"}
  BY DEF Delete, Move, TakeOff, Ownership, OperandsOK, Op
<1>3. /\ chain' \in Seq(Pedal) /\ Distinct(chain')
      /\ held' \in Pedal \ Holds(chain')
      /\ Holds(chain) = Holds(chain') \cup {held'}
  BY <1>1, <1>2, TakenAway
<1> QED
  BY <1>1, <1>2, <1>3 DEF Ownership, Owned, OperandsOK, InHand

(* ... from where it is freed, or put back on the chain.                   *)
LEMMA FreeOwned ==
  ASSUME Ownership, Free
  PROVE  Ownership'
<1>1. /\ chain \in Seq(Pedal) /\ Distinct(chain)
      /\ held \notin Holds(chain) \cup leaked
      /\ live = Holds(chain) \cup {held} \cup leaked
      /\ leaked \cap Holds(chain) = {}
  BY DEF Ownership, Owned, InHand, Free
<1>2. /\ chain' = chain /\ live' = live \ {held} /\ held' = NoPedal
      /\ leaked' = leaked
      /\ edit' \in [op : Op, a : Nat, b : Nat] /\ edit'.op = "done"
  BY DEF Free, Ownership, OperandsOK, Op
<1> QED
  BY <1>1, <1>2 DEF Ownership, Owned, OperandsOK, InHand

LEMMA PlaceOwned ==
  ASSUME Ownership, Place
  PROVE  Ownership'
<1> DEFINE i == IF edit.b > Len(chain) THEN Len(chain) ELSE edit.b
<1>1. /\ chain \in Seq(Pedal) /\ Distinct(chain) /\ Len(chain) \in Nat
      /\ held \in Pedal \ (Holds(chain) \cup leaked)
      /\ live = Holds(chain) \cup {held} \cup leaked
      /\ leaked \cap Holds(chain) = {}
  BY DEF Ownership, Owned, InHand, Place
<1>2. /\ live' = live /\ held' = NoPedal /\ leaked' = leaked
      /\ edit' \in [op : Op, a : Nat, b : Nat] /\ edit'.op = "done"
  BY DEF Place, Ownership, OperandsOK, Op
<1>3. i \in 0..Len(chain)
  BY <1>1 DEF Ownership, OperandsOK
<1>4. chain' = SubSeq(chain, 1, i) \o <<held>> \o SubSeq(chain, i + 1, Len(chain))
  BY DEF Place, InsertAt
<1> HIDE DEF i
<1>5. /\ chain' \in Seq(Pedal) /\ Distinct(chain')
      /\ Holds(chain') = Holds(chain) \cup {held}
  BY <1>1, <1>3, <1>4, PutIn
<1> QED
  BY <1>1, <1>2, <1>5 DEF Ownership, Owned, OperandsOK, InHand

(* The steps that touch no pedal.                                          *)
LEMMA WaitOwned ==
  ASSUME Ownership, SleepOver \/ MarkStable
  PROVE  Ownership'
<1>1. CASE SleepOver
  <2>1. /\ UNCHANGED <<chain, live, leaked, held>> /\ Waiting
        /\ edit' = [edit EXCEPT !.op = CASE @ = "init?" -> "init"
                                         [] @ = "insert?" -> "insert"
                                         [] @ = "delete?" -> "delete"
                                         [] OTHER -> "move"]
    BY <1>1 DEF SleepOver, board
  <2>2. /\ edit \in [op : Op, a : Nat, b : Nat]
        /\ chain \in Seq(Pedal) /\ live = Holds(chain) \cup leaked
        /\ held = NoPedal
    BY <2>1 DEF Ownership, Owned, OperandsOK, InHand, Waiting
  <2>3. /\ edit' \in [op : Op, a : Nat, b : Nat]
        /\ edit'.a = edit.a /\ edit'.b = edit.b
        /\ edit'.op \in {"init", "insert", "delete", "move"}
        /\ edit'.op = "init" => edit.op = "init?"
        /\ edit'.op = "move" => edit.op = "move?"
    BY <2>1, <2>2 DEF Waiting, Op
  <2>4. OperandsOK'
    BY <2>1, <2>2, <2>3 DEF Ownership, OperandsOK
  <2>5. edit'.op = "init" =>
          live = {chain[i] : i \in (edit'.b + 1)..Len(chain)} \cup leaked
    BY <2>2, <2>3 DEF Ownership, OperandsOK, Holds
  <2> QED
    BY <2>1, <2>2, <2>3, <2>4, <2>5 DEF Ownership, Owned, InHand
<1>2. CASE MarkStable
  <2>1. /\ UNCHANGED <<chain, live, leaked, held>> /\ edit' = Idle
        /\ edit.op \in {"done", "load", "insert", "delete"}
    BY <1>2 DEF MarkStable, Finished, board
  <2> QED
    BY <2>1 DEF Ownership, Owned, OperandsOK, InHand, Idle, Op
<1> QED
  BY <1>1, <1>2

-----------------------------------------------------------------------------
(* Who owns which pedal, at every step of every call.                      *)
THEOREM AlwaysOwned == Spec => []Ownership
<1>1. Init => Ownership
  BY InitOwned
<1>2. Ownership /\ [Next]_vars => Ownership'
  <2> SUFFICES ASSUME Ownership, [Next]_vars
               PROVE  Ownership'
    OBVIOUS
  <2>1. CASE Request
    BY <2>1, RequestOwned
  <2>2. CASE Edit
    BY <2>2, WaitOwned, InitFreeOwned, InitClearOwned, InitLoadOwned,
       InitLoadFailsOwned, InsertOwned, TakeOffOwned, FreeOwned, PlaceOwned DEF Edit
  <2>3. CASE Audio \/ Tick \/ UNCHANGED vars
    <3>1. UNCHANGED <<chain, live, leaked, held, edit>>
      BY <2>3 DEF Audio, StartBlock, Effect, EffectDone, EndBlock, Tick, vars,
                  board, params
    <3> QED
      BY <3>1 DEF Ownership, Owned, OperandsOK, InHand
  <2> QED
    BY <2>1, <2>2, <2>3 DEF Next
<1> QED
  BY <1>1, <1>2, PTL DEF Spec

(* Between calls the pedals allocated are those on the chain, each once:   *)
(* and those the factory has lost: whatever boards are loaded, with bad    *)
(* settings too, and pedals inserted, moved and deleted, the board itself  *)
(* leaks none, frees none twice and keeps none it has freed.               *)
THEOREM PedalsOwned == Spec => []OneOwner
<1>1. Ownership => OneOwner
  BY DEF Ownership, Owned, OneOwner, InHand, Idle, Elements, Holds, Distinct
<1> QED
  BY <1>1, AlwaysOwned, PTL
=============================================================================
