----------------------------- MODULE ConfigSync -----------------------------
(***************************************************************************)
(* ConfigSync: how a change of the effect chains reaches the screens.  The *)
(* parameter thread of rtjam-sound writes the chains as JSON into shared   *)
(* memory and marks the time in m_levels; the audio thread publishes the   *)
(* levels, with the mark, after every block; rtjam-box and its websocket   *)
(* robot copy the levels and parse the JSON when the mark is a new one.    *)
(* No lock is taken.  rtjam-sound may crash and be restarted.              *)
(***************************************************************************)
EXTENDS Integers

CONSTANTS
  Viewer,      \* who looks at the chains: browsers, the chat room
  Channel,     \* remembered time marks: s_jsonTimeStamp, m_jsonTimeStamp
  Via,         \* the channel of every viewer
  Mixed,       \* JSON of which a part is old and a part new
  BadBoards,   \* whether boards without an id are loaded
  MaxChains,   \* bound: changes of the chains
  MaxSyncs     \* bound: writes of the JSON

ASSUME SyncAssumption ==
  /\ Via \in [Viewer -> Channel]
  /\ BadBoards \in BOOLEAN
  /\ MaxChains \in Nat /\ MaxSyncs \in Nat

Config == [sync : Nat, chain : Nat]

ASSUME MixedAssumption == Mixed \notin Config

VARIABLES
  chain,      \* the effect chains, numbered as they change
  engine,     \* where the parameter thread is: "down" if rtjam-sound is
  playing,    \* whether the audio thread runs
  syncs,      \* how often the JSON was begun
  mark,       \* m_levels.jsonTimeStamp: the number of a sync for its time
  json,       \* m_pJsonInfo
  published,  \* the mark in the shared levels
  step,       \* where every viewer's request is,
  copied,     \* with which mark,
  begun,      \* and the JSON when it began to parse it
  acked,      \* the mark every channel remembers
  shown       \* what every viewer was shown last

sound == <<chain, engine, playing, syncs, mark, json>>
viewers == <<step, copied, begun, acked, shown>>
vars == <<sound, published, viewers>>

Nothing == [sync |-> 0, chain |-> 0]

-----------------------------------------------------------------------------
(* Bugs this code could have; each replaces the definition named beside it *)
BeginMarked ==                    \* Begin: the time is marked first
  /\ syncs < MaxSyncs
  /\ engine' = "writing" /\ syncs' = syncs + 1 /\ json' = Mixed
  /\ mark' = syncs + 1
PublishAhead ==                   \* Publish: the sync begun is published
  /\ playing
  /\ published' = mark + 1
  /\ UNCHANGED <<sound, viewers>>
MarkOnce ==                       \* Mark: only at the start
  /\ engine = "marking"
  /\ mark' = IF mark = 0 THEN syncs ELSE mark
  /\ engine' = "idle" /\ playing' = TRUE
  /\ UNCHANGED <<chain, syncs, json, published, viewers>>

-----------------------------------------------------------------------------
(* syncConfigData: sprintf overwrites the JSON, then the time is marked.   *)

Begin ==
  /\ syncs < MaxSyncs
  /\ engine' = "writing" /\ syncs' = syncs + 1 /\ json' = Mixed
  /\ UNCHANGED mark

Written ==
  /\ engine = "writing"
  /\ json' = [sync |-> syncs, chain |-> chain]
  /\ engine' = "marking"
  /\ UNCHANGED <<chain, playing, syncs, mark, published, viewers>>

(* The audio thread starts after init, which syncs for the first time.     *)
Mark ==
  /\ engine = "marking"
  /\ mark' = syncs
  /\ engine' = "idle" /\ playing' = TRUE
  /\ UNCHANGED <<chain, syncs, json, published, viewers>>

(* getParams: a pedal inserted, deleted or moved, or a board loaded        *)
Change ==
  /\ engine = "idle" /\ Begin
  /\ chain < MaxChains /\ chain' = chain + 1
  /\ UNCHANGED <<playing, published, viewers>>

(* A board without an id: the chain is built, then the missing id throws.  *)
LoadBadBoard ==
  /\ BadBoards
  /\ engine = "idle"
  /\ chain < MaxChains /\ chain' = chain + 1
  /\ UNCHANGED <<engine, playing, syncs, mark, json, published, viewers>>

(* paramGetConfigJson                                                      *)
Refresh ==
  /\ engine = "idle" /\ Begin
  /\ UNCHANGED <<chain, playing, published, viewers>>

(* rtjam-sound dies; started again, its chains are empty.                  *)
Crash ==
  /\ engine # "down"
  /\ engine' = "down" /\ playing' = FALSE /\ mark' = 0
  /\ UNCHANGED <<chain, syncs, json, published, viewers>>

Restart ==
  /\ engine = "down" /\ Begin
  /\ chain < MaxChains /\ chain' = chain + 1
  /\ UNCHANGED <<playing, published, viewers>>

(* The audio thread: syncLevels                                            *)
Publish ==
  /\ playing
  /\ published' = mark
  /\ UNCHANGED <<sound, viewers>>

-----------------------------------------------------------------------------
(* rtjam-box: getCollect for a browser, doInterPollStuff for the room.     *)

CopyLevels(v) ==
  /\ step[v] = "idle"
  /\ copied' = [copied EXCEPT ![v] = published]
  /\ step' = [step EXCEPT ![v] = "copied"]
  /\ UNCHANGED <<sound, published, begun, acked, shown>>

(* The new mark is remembered before the JSON is parsed.                   *)
Compare(v) ==
  /\ step[v] = "copied"
  /\ IF acked[Via[v]] = copied[v]
     THEN step' = [step EXCEPT ![v] = "idle"] /\ UNCHANGED <<begun, acked>>
     ELSE /\ acked' = [acked EXCEPT ![Via[v]] = copied[v]]
          /\ begun' = [begun EXCEPT ![v] = json]
          /\ step' = [step EXCEPT ![v] = "parsing"]
  /\ UNCHANGED <<sound, published, copied, shown>>

(* JSON overwritten meanwhile does not parse, or parses to a mixture.      *)
Show(v) ==
  /\ step[v] = "parsing"
  /\ IF json = begun[v] /\ json # Mixed
     THEN shown' = [shown EXCEPT ![v] = json]
     ELSE \E seen \in {shown[v], Mixed} : shown' = [shown EXCEPT ![v] = seen]
  /\ step' = [step EXCEPT ![v] = "idle"]
  /\ begun' = [begun EXCEPT ![v] = Nothing]
  /\ UNCHANGED <<sound, published, copied, acked>>

-----------------------------------------------------------------------------
(* init has synced; the box begins with no mark remembered.                *)
Init ==
  /\ chain = 0 /\ engine = "idle" /\ playing = TRUE
  /\ syncs = 1 /\ mark = 1 /\ json = [sync |-> 1, chain |-> 0]
  /\ published = 0
  /\ step = [v \in Viewer |-> "idle"]
  /\ copied = [v \in Viewer |-> 0]
  /\ begun = [v \in Viewer |-> Nothing]
  /\ acked = [c \in Channel |-> 0]
  /\ shown = [v \in Viewer |-> Nothing]

Engine == Written \/ Mark

View(v) == CopyLevels(v) \/ Compare(v) \/ Show(v)

Next ==
  \/ Engine \/ Change \/ LoadBadBoard \/ Refresh \/ Crash \/ Restart
  \/ Publish
  \/ \E v \in Viewer : View(v)

Spec == Init /\ [][Next]_vars

(* Threads are scheduled, and viewers go on polling.  Nobody is bound to   *)
(* start rtjam-sound again.                                                *)
FairSpec ==
  /\ Spec
  /\ WF_vars(Engine) /\ WF_vars(Publish)
  /\ \A v \in Viewer : WF_vars(View(v))

-----------------------------------------------------------------------------
(* The one type invariant of syncConfigData and its readers; no mark is    *)
(* one of the future.                                                      *)
TypeOK ==
  /\ chain \in 0..MaxChains /\ syncs \in 0..MaxSyncs
  /\ engine \in {"idle", "writing", "marking", "down"} /\ playing \in BOOLEAN
  /\ json \in Config \cup {Mixed}
  /\ mark \in 0..syncs /\ published \in 0..syncs
  /\ step \in [Viewer -> {"idle", "copied", "parsing"}]
  /\ copied \in [Viewer -> 0..syncs] /\ acked \in [Channel -> 0..syncs]
  /\ begun \in [Viewer -> Config \cup {Mixed}]
  /\ shown \in [Viewer -> Config \cup {Mixed}]

Current(seen, m) == seen # Mixed /\ seen.sync >= m

(* A viewer who was not shown what the remembered mark stands for (the     *)
(* JSON was being overwritten) will see a newer mark: the JSON is written  *)
(* before its time is marked.                                              *)
MissedIsRepeated ==
  \A v \in Viewer :
    step[v] # "parsing" /\ ~Current(shown[v], acked[Via[v]])
      => acked[Via[v]] < syncs

(* Once the chains are left alone every viewer comes to see what was last  *)
(* written of them, whatever parts of the JSON it parsed before, though    *)
(* rtjam-sound crashed, and though a board without an id had no sync.      *)
ViewersCatchUp ==
  \A v \in Viewer :
    engine = "idle"
      ~> \/ engine # "idle"
         \/ shown[v] # Mixed /\ shown[v].chain = json.chain
=============================================================================
