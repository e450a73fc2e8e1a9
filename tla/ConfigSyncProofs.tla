-------------------------- MODULE ConfigSyncProofs --------------------------
(***************************************************************************)
(* A viewer with a channel of his own is never left with an old chain, for *)
(* any number of viewers.  The invariant behind it: whoever holds the      *)
(* latest mark, be it published, copied or remembered, the JSON in shared  *)
(* memory is the one it was given for.                                     *)
(***************************************************************************)
EXTENDS ConfigSync, TLAPS

(* No two viewers share a remembered mark.                                 *)
Unshared == \A v, w \in Viewer : Via[v] = Via[w] => v = w

Latest == json # Mixed /\ json.sync = syncs

EngineInv ==
  /\ syncs > 0
  /\ engine = "writing" => json = Mixed /\ mark < syncs
  /\ engine = "marking" => Latest /\ mark < syncs
  /\ engine = "idle" => Latest
  /\ engine = "down" => mark = 0

HoldersInv ==
  /\ published = syncs => Latest
  /\ \A v \in Viewer : copied[v] = syncs => Latest
  /\ \A c \in Channel : acked[c] = syncs => Latest
  /\ \A v \in Viewer :
       step[v] = "parsing" /\ acked[Via[v]] = syncs => begun[v] = json

IInv == TypeOK /\ EngineInv /\ HoldersInv /\ MissedIsRepeated

USE SyncAssumption, MixedAssumption

-----------------------------------------------------------------------------
LEMMA InitStep == Init /\ MaxSyncs > 0 => IInv
<1> SUFFICES ASSUME Init, MaxSyncs > 0 PROVE IInv
  OBVIOUS
<1>1. Nothing \in Config /\ json \in Config
  BY DEF Init, Nothing, Config
<1>2. TypeOK
  BY <1>1 DEF Init, TypeOK
<1>3. json # Mixed /\ Nothing # Mixed
  BY <1>1
<1>4. MissedIsRepeated
  BY DEF Init, MissedIsRepeated
<1> QED
  BY <1>2, <1>3, <1>4 DEF Init, IInv, EngineInv, HoldersInv, Latest

(* A new sync: nobody holds its mark.                                      *)
LEMMA BeginStep ==
  ASSUME IInv, Begin, chain' \in 0..MaxChains,
         UNCHANGED <<playing, published, viewers>>
  PROVE  IInv'
<1>1. /\ syncs \in Nat /\ syncs' = syncs + 1 /\ syncs' \in 0..MaxSyncs
      /\ mark' \in 0..syncs /\ published' \in 0..syncs
      /\ \A v \in Viewer : copied'[v] \in 0..syncs
      /\ \A c \in Channel : acked'[c] \in 0..syncs
  BY DEF IInv, TypeOK, Begin, viewers
<1>2. /\ mark' \in 0..syncs' /\ published' \in 0..syncs'
      /\ \A v \in Viewer : copied'[v] \in 0..syncs' /\ copied'[v] # syncs'
      /\ \A c \in Channel : acked'[c] \in 0..syncs' /\ acked'[c] < syncs'
      /\ mark' < syncs' /\ published' # syncs' /\ syncs' > 0
  BY <1>1
<1>3. TypeOK'
  BY <1>1, <1>2 DEF IInv, TypeOK, Begin, viewers
<1>4. EngineInv'
  BY <1>2 DEF Begin, EngineInv
<1>5. HoldersInv' /\ MissedIsRepeated'
  BY <1>2 DEF HoldersInv, MissedIsRepeated
<1> QED
  BY <1>3, <1>4, <1>5 DEF IInv

LEMMA WrittenStep ==
  ASSUME IInv, Written
  PROVE  IInv'
<1>1. json' \in Config /\ json'.sync = syncs /\ json' # Mixed
  BY DEF IInv, TypeOK, Written, Config
<1>2. TypeOK'
  BY <1>1 DEF IInv, TypeOK, Written, viewers
<1>3. EngineInv'
  BY <1>1 DEF IInv, EngineInv, Written, Latest
<1>4. /\ published # syncs
      /\ \A v \in Viewer : copied[v] # syncs
      /\ \A c \in Channel : acked[c] # syncs
  BY DEF IInv, EngineInv, HoldersInv, Written, Latest
<1>5. \A v \in Viewer : acked[Via[v]] # syncs
  BY <1>4
<1>6. HoldersInv'
  BY <1>4, <1>5 DEF HoldersInv, Written, viewers
<1>7. MissedIsRepeated'
  BY DEF IInv, MissedIsRepeated, Written, viewers, Current
<1> QED
  BY <1>2, <1>3, <1>6, <1>7 DEF IInv

LEMMA MarkStep ==
  ASSUME IInv, Mark
  PROVE  IInv'
<1>1. syncs \in 0..syncs
  BY DEF IInv, TypeOK
<1>2. TypeOK'
  BY <1>1 DEF IInv, TypeOK, Mark, viewers
<1>3. EngineInv'
  BY DEF IInv, EngineInv, Mark, Latest
<1> QED
  BY <1>2, <1>3 DEF IInv, HoldersInv, MissedIsRepeated, Mark, Latest, viewers,
     Current

LEMMA EngineStep ==
  ASSUME IInv, LoadBadBoard \/ Crash
  PROVE  IInv'
<1>1. chain' \in 0..MaxChains
  BY DEF IInv, TypeOK, LoadBadBoard, Crash
<1>2. 0 \in 0..syncs
  BY DEF IInv, TypeOK
<1>3. TypeOK'
  BY <1>1, <1>2 DEF IInv, TypeOK, LoadBadBoard, Crash, viewers
<1>4. EngineInv'
  BY DEF IInv, EngineInv, LoadBadBoard, Crash, Latest
<1> QED
  BY <1>3, <1>4 DEF IInv, HoldersInv, MissedIsRepeated, LoadBadBoard, Crash,
     Latest, viewers, Current

(* The latest mark is in m_levels only when its JSON is in shared memory.  *)
LEMMA PublishStep ==
  ASSUME IInv, Publish
  PROVE  IInv'
<1>1. mark = syncs => Latest
  BY DEF IInv, TypeOK, EngineInv
<1>2. TypeOK'
  BY DEF IInv, TypeOK, Publish, sound, viewers
<1>3. EngineInv'
  BY DEF IInv, EngineInv, Publish, sound, Latest
<1> QED
  BY <1>1, <1>2, <1>3 DEF IInv, HoldersInv, MissedIsRepeated, Publish, sound,
     viewers, Latest, Current

LEMMA CopyLevelsStep ==
  ASSUME IInv, NEW v \in Viewer, CopyLevels(v)
  PROVE  IInv'
<1>1. TypeOK'
  BY DEF IInv, TypeOK, CopyLevels, sound
<1>2. EngineInv'
  BY DEF IInv, EngineInv, CopyLevels, sound, Latest
<1>3. HoldersInv'
  BY DEF IInv, TypeOK, HoldersInv, CopyLevels, sound, Latest
<1>4. MissedIsRepeated'
  BY DEF IInv, TypeOK, MissedIsRepeated, CopyLevels, sound, Current
<1> QED
  BY <1>1, <1>2, <1>3, <1>4 DEF IInv

(* A channel of one's own: a mark remembered concerns no other viewer.     *)
LEMMA CompareStep ==
  ASSUME Unshared, IInv, NEW v \in Viewer, Compare(v)
  PROVE  IInv'
<1>1. CASE acked[Via[v]] = copied[v]
  <2>1. TypeOK' /\ EngineInv'
    BY <1>1 DEF IInv, TypeOK, EngineInv, Compare, sound, Latest
  <2>2. HoldersInv' /\ MissedIsRepeated'
    BY <1>1 DEF IInv, TypeOK, HoldersInv, MissedIsRepeated, Compare, sound,
       Latest, Current
  <2> QED
    BY <2>1, <2>2 DEF IInv
<1>2. CASE acked[Via[v]] # copied[v]
  <2>1. /\ acked' = [acked EXCEPT ![Via[v]] = copied[v]]
        /\ begun' = [begun EXCEPT ![v] = json]
        /\ step' = [step EXCEPT ![v] = "parsing"]
        /\ UNCHANGED <<sound, published, copied, shown>>
    BY <1>2 DEF Compare
  <2>2. TypeOK'
    BY <2>1 DEF IInv, TypeOK, sound
  <2>3. EngineInv'
    BY <2>1 DEF IInv, EngineInv, sound, Latest
  <2>4. \A w \in Viewer \ {v} :
          Via[w] # Via[v] /\ acked'[Via[w]] = acked[Via[w]]
          /\ step'[w] = step[w] /\ begun'[w] = begun[w]
    BY <2>1 DEF Unshared, IInv, TypeOK
  <2>5. step'[v] = "parsing" /\ begun'[v] = json
    BY <2>1 DEF IInv, TypeOK
  <2>6. \A c \in Channel : acked'[c] = syncs => Latest
    BY <2>1 DEF IInv, TypeOK, HoldersInv
  <2>7. HoldersInv'
    BY <2>1, <2>4, <2>5, <2>6 DEF IInv, HoldersInv, sound, Latest
  <2>8. MissedIsRepeated'
    BY <2>1, <2>4, <2>5 DEF IInv, MissedIsRepeated, sound, Current
  <2> QED
    BY <2>2, <2>3, <2>7, <2>8 DEF IInv
<1> QED
  BY <1>1, <1>2

(* What was parsed whole is the latest if its mark is.                     *)
LEMMA ShowStep ==
  ASSUME IInv, NEW v \in Viewer, Show(v)
  PROVE  IInv'
<1>1. shown' = [shown EXCEPT ![v] = shown'[v]]
      /\ shown'[v] \in Config \cup {Mixed}
  BY DEF IInv, TypeOK, Show
<1>2. Nothing \in Config
  BY DEF Nothing, Config
<1>3. TypeOK'
  BY <1>1, <1>2 DEF IInv, TypeOK, Show, sound
<1>4. EngineInv'
  BY DEF IInv, EngineInv, Show, sound, Latest
<1>5. HoldersInv'
  BY DEF IInv, TypeOK, HoldersInv, Show, sound, Latest
<1>6. Current(shown'[v], acked[Via[v]]) \/ acked[Via[v]] < syncs
  <2>1. CASE acked[Via[v]] = syncs
    <3>1. begun[v] = json /\ Latest
      BY <2>1 DEF IInv, HoldersInv, Show
    <3>2. shown'[v] = json
      BY <3>1 DEF IInv, TypeOK, Show, Latest
    <3> QED
      BY <2>1, <3>1, <3>2 DEF Latest, Current, IInv, TypeOK
  <2>2. acked[Via[v]] \in 0..syncs /\ syncs \in Nat
    BY DEF IInv, TypeOK
  <2> QED
    BY <2>1, <2>2
<1>7. MissedIsRepeated'
  BY <1>1, <1>6 DEF IInv, TypeOK, MissedIsRepeated, Show, sound, Current
<1> QED
  BY <1>3, <1>4, <1>5, <1>7 DEF IInv

LEMMA NextStep ==
  ASSUME Unshared, IInv, [Next]_vars
  PROVE  IInv'
<1>1. CASE Change \/ Refresh \/ Restart
  <2>1. chain' \in 0..MaxChains
    BY <1>1 DEF IInv, TypeOK, Change, Refresh, Restart
  <2> QED
    BY <1>1, <2>1, BeginStep DEF Change, Refresh, Restart
<1>2. CASE Engine \/ LoadBadBoard \/ Crash \/ Publish
  BY <1>2, WrittenStep, MarkStep, EngineStep, PublishStep DEF Engine
<1>3. CASE \E v \in Viewer : View(v)
  BY <1>3, CopyLevelsStep, CompareStep, ShowStep DEF View
<1>4. CASE UNCHANGED vars
  BY <1>4 DEF IInv, TypeOK, EngineInv, HoldersInv, MissedIsRepeated, Latest,
     Current, vars, sound, viewers
<1> QED
  BY <1>1, <1>2, <1>3, <1>4 DEF Next

-----------------------------------------------------------------------------
(* A viewer who missed a configuration, because syncConfigData overwrote   *)
(* it while it was parsed, will get a newer mark, however many viewers     *)
(* poll and however often rtjam-sound crashes; each needs a mark of his.   *)
THEOREM MissedComesAgain ==
  ASSUME Unshared, MaxSyncs > 0
  PROVE  Spec => []MissedIsRepeated
<1>1. Init => IInv
  BY InitStep
<1>2. IInv /\ [Next]_vars => IInv'
  BY NextStep
<1>3. IInv => MissedIsRepeated
  BY DEF IInv
<1> QED
  BY <1>1, <1>2, <1>3, PTL DEF Spec

(* No mark is ever one of the future, and the state keeps its types.       *)
THEOREM TypeCorrect ==
  ASSUME Unshared, MaxSyncs > 0
  PROVE  Spec => []TypeOK
<1>1. Init => IInv
  BY InitStep
<1>2. IInv /\ [Next]_vars => IInv'
  BY NextStep
<1>3. IInv => TypeOK
  BY DEF IInv
<1> QED
  BY <1>1, <1>2, <1>3, PTL DEF Spec
=============================================================================
