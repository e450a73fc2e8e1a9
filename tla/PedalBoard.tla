----------------------------- MODULE PedalBoard -----------------------------
(***************************************************************************)
(* PedalBoard: the chain of effects of one input.  The audio thread runs   *)
(* the pedals on every block; the parameter thread loads boards, inserts,  *)
(* moves and deletes pedals.  There is no lock: the parameter thread       *)
(* clears m_stable, on which the audio thread bypasses the board, and      *)
(* sleeps for a grace period before it touches the chain.  That is safe if *)
(* a block already begun takes less than the grace period: BlockTime <     *)
(* Grace below.  The tuner's blocks touch no pedal and are left out.       *)
(***************************************************************************)
EXTENDS Integers, Sequences, FiniteSets

CONSTANTS
  Pedal,       \* addresses of pedals
  NoPedal,
  MaxPedals,   \* bound on the pedals of a board
  MaxLeaks,    \* bound on the pedals the factory loses
  Grace,       \* the 10000 usec of markUnstable, in ticks
  InitGrace,   \* the 2000 usec more of init
  BlockTime    \* the longest block

ASSUME PedalAssumption ==
  /\ NoPedal \notin Pedal
  /\ MaxPedals \in Nat /\ MaxLeaks \in Nat /\ Grace \in Nat /\ InitGrace \in Nat
  /\ BlockTime \in Nat /\ BlockTime < Grace

VARIABLES
  chain,     \* m_chain
  live,      \* pedals that are allocated
  leaked,    \* history: those the factory made and lost
  bypassed,  \* pedals whose m_byPass is set
  stable,    \* m_stable
  edit,      \* what the parameter thread is about, and its operands
  held,      \* the pedal it has taken off the chain
  waited,    \* ticks it has slept
  inBlock,   \* the audio thread is in processBlock,
  pos,       \* at this index of the chain (from 1),
  using,     \* in this pedal's doProcess,
  blockAge   \* and began so many ticks ago

board == <<chain, live, leaked, bypassed>>
params == <<stable, edit, held, waited>>
audio == <<inBlock, pos, using, blockAge>>
vars == <<board, params, audio>>

Idle == [op |-> "idle", a |-> 0, b |-> 0]
Waiting == edit.op \in {"init?", "insert?", "delete?", "move?"}
Editing == edit.op \notin {"idle", "init?", "insert?", "delete?", "move?"}

-----------------------------------------------------------------------------
(* Bugs this code could have; each replaces the definition named beside it *)
SleepNone == 0                       \* Sleep: the chain is changed at once
DeleteLeaks ==                       \* Delete: does not free the pedal
  /\ edit.op = "delete" /\ edit.a < Len(chain)
  /\ chain' = SubSeq(chain, 1, edit.a) \o SubSeq(chain, edit.a + 2, Len(chain))
  /\ edit' = [edit EXCEPT !.op = "done"]
  /\ UNCHANGED <<live, leaked, bypassed, stable, held, waited, audio>>
FinishedInRange ==                   \* Finished: no markStable if out of range
  \/ edit.op = "done"
  \/ edit.op = "load" /\ edit.a = 0
  \/ edit.op = "insert"

-----------------------------------------------------------------------------
(* The parameter thread.  Indexes in calls count from 0, as in the code.   *)

Sleep == IF edit.op = "init?" THEN Grace + InitGrace ELSE Grace

MarkUnstable(op, a, b) ==
  /\ edit = Idle
  /\ stable' = FALSE
  /\ edit' = [op |-> op, a |-> a, b |-> b]
  /\ waited' = 0
  /\ UNCHANGED <<board, held, audio>>

InitBoard(n) == MarkUnstable("init?", n, 0)  \* with n pedals that exist
InsertPedal(idx) == Len(chain) < MaxPedals /\ MarkUnstable("insert?", idx, 0)
DeletePedal(idx) == MarkUnstable("delete?", idx, 0)
MovePedal(from, to) ==
  /\ from < Len(chain) /\ to <= Len(chain) /\ from # to
  /\ MarkUnstable("move?", from, to)

(* setEffectSetting and toggleEffect: on the running board.  Of a pedal's  *)
(* settings only the bypass is kept.                                       *)
ToggleBypass(idx) ==
  /\ edit = Idle /\ idx < Len(chain)
  /\ bypassed' = IF chain[idx + 1] \in bypassed
                 THEN bypassed \ {chain[idx + 1]} ELSE bypassed \cup {chain[idx + 1]}
  /\ UNCHANGED <<chain, live, leaked, params, audio>>

SleepOver ==
  /\ Waiting /\ waited >= Sleep
  /\ edit' = [edit EXCEPT !.op = CASE @ = "init?" -> "init" [] @ = "insert?" -> "insert"
                                   [] @ = "delete?" -> "delete" [] OTHER -> "move"]
  /\ UNCHANGED <<board, stable, held, waited, audio>>

InsertAt(i, pedal) ==
  chain' = SubSeq(chain, 1, i) \o <<pedal>> \o SubSeq(chain, i + 1, Len(chain))

TakeOff(i) ==
  /\ held' = chain[i + 1]
  /\ chain' = SubSeq(chain, 1, i) \o SubSeq(chain, i + 2, Len(chain))

(* init: frees the pedals one by one, edit.b of them so far ...            *)
InitFree ==
  /\ edit.op = "init" /\ edit.b < Len(chain)
  /\ live' = live \ {chain[edit.b + 1]}
  /\ edit' = [edit EXCEPT !.b = @ + 1]
  /\ UNCHANGED <<chain, leaked, bypassed, stable, held, waited, audio>>

(* ... empties the chain ...                                               *)
InitClear ==
  /\ edit.op = "init" /\ edit.b = Len(chain)
  /\ chain' = <<>>
  /\ edit' = [edit EXCEPT !.op = "load"]
  /\ UNCHANGED <<live, leaked, bypassed, stable, held, waited, audio>>

(* ... and loads the new ones.                                             *)
InitLoad(pedal, bypass) ==
  /\ edit.op = "load" /\ edit.a > 0 /\ pedal \notin live
  /\ chain' = Append(chain, pedal) /\ live' = live \cup {pedal}
  /\ bypassed' = IF bypass THEN bypassed \cup {pedal} ELSE bypassed \ {pedal}
  /\ edit' = [edit EXCEPT !.a = @ - 1]
  /\ UNCHANGED <<leaked, stable, held, waited, audio>>

(* A setting is bad: the factory's catch returns NULL and the pedal it has *)
(* made by then is nobody's.  A name it does not know makes no pedal, and  *)
(* does not count in edit.a.                                               *)
InitLoadFails(pedal) ==
  /\ edit.op = "load" /\ edit.a > 0 /\ pedal \notin live
  /\ Cardinality(leaked) < MaxLeaks
  /\ live' = live \cup {pedal} /\ leaked' = leaked \cup {pedal}
  /\ edit' = [edit EXCEPT !.a = @ - 1]
  /\ UNCHANGED <<chain, bypassed, stable, held, waited, audio>>

(* A new pedal is bypassed.                                                *)
Insert(pedal) ==
  /\ edit.op = "insert" /\ pedal \notin live
  /\ live' = live \cup {pedal} /\ bypassed' = bypassed \cup {pedal}
  /\ InsertAt(IF edit.a >= Len(chain) THEN Len(chain) ELSE edit.a, pedal)
  /\ edit' = [edit EXCEPT !.op = "done"]
  /\ UNCHANGED <<leaked, stable, held, waited, audio>>

Delete ==
  /\ edit.op = "delete" /\ edit.a < Len(chain)
  /\ TakeOff(edit.a)
  /\ edit' = [edit EXCEPT !.op = "free"]
  /\ UNCHANGED <<live, leaked, bypassed, stable, waited, audio>>

Free ==
  /\ edit.op = "free"
  /\ live' = live \ {held} /\ held' = NoPedal
  /\ edit' = [edit EXCEPT !.op = "done"]
  /\ UNCHANGED <<chain, leaked, bypassed, stable, waited, audio>>

Move ==
  /\ edit.op = "move"
  /\ TakeOff(edit.a)
  /\ edit' = [edit EXCEPT !.op = "place"]
  /\ UNCHANGED <<live, leaked, bypassed, stable, waited, audio>>

(* On the end for an index of the old size: one more than the size now.    *)
Place ==
  /\ edit.op = "place"
  /\ InsertAt(IF edit.b > Len(chain) THEN Len(chain) ELSE edit.b, held)
  /\ held' = NoPedal
  /\ edit' = [edit EXCEPT !.op = "done"]
  /\ UNCHANGED <<live, leaked, bypassed, stable, waited, audio>>

(* Also where there was nothing to do: a pedal the factory does not know,  *)
(* an index behind the end.                                                *)
Finished ==
  \/ edit.op = "done"
  \/ edit.op = "load" /\ edit.a = 0
  \/ edit.op = "insert"
  \/ edit.op = "delete" /\ edit.a >= Len(chain)

MarkStable ==
  /\ Finished
  /\ stable' = TRUE /\ edit' = Idle
  /\ UNCHANGED <<board, held, waited, audio>>

-----------------------------------------------------------------------------
(* The audio thread *)

StartBlock ==
  /\ ~inBlock /\ stable
  /\ inBlock' = TRUE /\ pos' = 1 /\ blockAge' = 0
  /\ UNCHANGED <<board, params, using>>

Effect ==
  /\ inBlock /\ using = NoPedal /\ pos <= Len(chain)
  /\ IF chain[pos] \in bypassed
     THEN pos' = pos + 1 /\ UNCHANGED using
     ELSE using' = chain[pos] /\ UNCHANGED pos
  /\ UNCHANGED <<board, params, inBlock, blockAge>>

EffectDone ==
  /\ inBlock /\ using # NoPedal
  /\ using' = NoPedal /\ pos' = pos + 1
  /\ UNCHANGED <<board, params, inBlock, blockAge>>

EndBlock ==
  /\ inBlock /\ using = NoPedal /\ pos > Len(chain)
  /\ inBlock' = FALSE /\ pos' = 1 /\ blockAge' = 0
  /\ UNCHANGED <<board, params, using>>

(* Time passes, but no block lasts longer than BlockTime.                  *)
Tick ==
  /\ inBlock => blockAge < BlockTime
  /\ blockAge' = IF inBlock THEN blockAge + 1 ELSE 0
  /\ waited' = IF Waiting /\ waited < Sleep THEN waited + 1 ELSE waited
  /\ UNCHANGED <<board, stable, edit, held, inBlock, pos, using>>

-----------------------------------------------------------------------------
(* After the constructor and the init(json::array()) of JamEngine::init.   *)
Init ==
  /\ chain = <<>> /\ live = {} /\ leaked = {} /\ bypassed = {}
  /\ stable = TRUE /\ edit = Idle /\ held = NoPedal /\ waited = 0
  /\ inBlock = FALSE /\ pos = 1 /\ using = NoPedal /\ blockAge = 0

Request ==
  \/ \E n \in 0..MaxPedals : InitBoard(n)
  \/ \E idx \in 0..MaxPedals :
       InsertPedal(idx) \/ DeletePedal(idx) \/ ToggleBypass(idx)
  \/ \E from, to \in 0..MaxPedals : MovePedal(from, to)

Edit ==
  \/ SleepOver \/ InitFree \/ InitClear
  \/ \E pedal \in Pedal, bypass \in BOOLEAN : InitLoad(pedal, bypass)
  \/ \E pedal \in Pedal : InitLoadFails(pedal) \/ Insert(pedal)
  \/ Delete \/ Free \/ Move \/ Place \/ MarkStable

Audio == StartBlock \/ Effect \/ EffectDone \/ EndBlock

Next == Request \/ Edit \/ Audio \/ Tick

Spec == Init /\ [][Next]_vars

(* The parameter thread finishes what it began, blocks end, time goes on.  *)
FairSpec == Spec /\ WF_vars(Edit) /\ WF_vars(Audio) /\ WF_vars(Tick)

-----------------------------------------------------------------------------
Elements == {chain[i] : i \in 1..Len(chain)}

(* The grace period does what it is for: while the parameter thread works  *)
(* on the chain the audio thread is in no pedal and reads no chain.        *)
GraceProtects == Editing => ~inBlock

(* Every pedal has one owner: between calls those allocated are those on   *)
(* the chain, each once, and those the factory lost, so that the board     *)
(* itself leaks none, frees none twice and uses none it has freed.         *)
OneOwner ==
  edit = Idle =>
    /\ live = Elements \cup leaked /\ Elements \cap leaked = {}
    /\ held = NoPedal
    /\ \A i, j \in 1..Len(chain) : i # j => chain[i] # chain[j]

(* The board comes back: whatever was asked of it, and whether or not it   *)
(* could be done, the board's sound returns.                               *)
SoundReturns == ~stable ~> stable
=============================================================================
