-------------------------- MODULE JamClientProofs ---------------------------
(***************************************************************************)
(* Slots of the channel map, for every set of players, size of the map and *)
(* expiration time.  The invariant behind both results says what the audio *)
(* thread still knows of the map while the parameter thread clears it: the *)
(* player it looks for is in no slot, and the slot it found is free unless *)
(* it is slot 0.                                                           *)
(***************************************************************************)
EXTENDS JamClient, WellFoundedInduction, TLAPS

CallStep == [do : {"activate", "deactivate", "flush", "clear", "mine", "lookup"}]
              \cup [do : {"id"}, id : Me]
              \cup [do : {"port", "host"}, room : Room]

Sought ==
  audio \in {"look", "claim"} /\ packet.id \in Player =>
    \A i \in Slots : channels[i] # packet.id

FoundFree == audio = "claim" /\ slot # 0 => channels[slot] = Empty

IInv ==
  /\ todo \in Seq(CallStep)
  /\ TypeOK
  /\ OthersOnce
  /\ Sought
  /\ FoundFree

USE ClientAssumption

-----------------------------------------------------------------------------
(* A set of slots that is not empty has a first one.                       *)
LEMMA FirstIn ==
  ASSUME NEW T, T \subseteq Slots, T # {}
  PROVE  First(T) \in T
<1>1. T \subseteq Nat
  BY DEF Slots
<1>2. PICK i \in T : \A j \in T : ~(<<j, i>> \in OpToRel(<, Nat))
  BY <1>1, NatLessThanWellFounded, WFMin
<1>3. \A j \in T : i <= j
  <2> TAKE j \in T
  <2>1. i \in Nat /\ j \in Nat
    BY <1>1
  <2>2. ~(j < i)
    BY <1>2, <2>1 DEF OpToRel
  <2> QED
    BY <2>1, <2>2
<1> QED
  BY <1>3 DEF First

(* Pruning only empties slots.                                             *)
LEMMA PrunedFacts ==
  ASSUME TypeOK
  PROVE  /\ Pruned \in [Slots -> Player \cup Me \cup {Empty}]
         /\ \A i \in Slots : Pruned[i] \in {channels[i], Empty}
         /\ \A i \in Slots \ {0} :
              age[i] <= Expiration => Pruned[i] = channels[i]
<1> \A i \in Slots : age[i] \in Int
  BY DEF TypeOK, MaxAge
<1> QED
  BY DEF TypeOK, Pruned, Stale

(* What a call has still to do when its first step is done.                *)
LEMMA StepFacts ==
  ASSUME todo \in Seq(CallStep), todo # <<>>
  PROVE  /\ Tail(todo) \in Seq(CallStep)
         /\ todo[1].do = "id" => todo[1].id \in Me
         /\ todo[1].do \in {"port", "host"} => todo[1].room \in Room
<1>1. todo[1] \in CallStep
  OBVIOUS
<1> QED
  BY <1>1 DEF CallStep

LEMMA AgeFacts ==
  /\ 0 \in 0..MaxAge /\ 0 \in Slots /\ 0 \in 0..2
  /\ \A a \in 0..MaxAge : a < MaxAge => a + 1 \in 0..MaxAge
BY DEF MaxAge, Slots

-----------------------------------------------------------------------------
LEMMA InitStep == Init => IInv
<1> SUFFICES ASSUME Init PROVE IInv
  OBVIOUS
<1>1. TypeOK
  <2>1. calls \in 0..MaxCalls /\ strays \in 0..2
    BY DEF Init
  <2>2. residue \in BOOLEAN
    BY DEF Init
  <2>3. server \in [host : Host \cup {Nowhere}, port : Port \cup {Nowhere}]
    BY DEF Init, NoRoom
  <2> QED
    BY <2>1, <2>2, <2>3, AgeFacts DEF Init, TypeOK, NoPacket
<1>2. OthersOnce
  BY DEF Init, OthersOnce
<1> QED
  BY <1>1, <1>2 DEF Init, IInv, Sought, FoundFree

(* Steps of the audio thread: only Find and Claim concern a slot.          *)
LEMMA StartBlockStep ==
  ASSUME IInv, StartBlock
  PROVE  IInv'
<1>1. TypeOK'
  BY PrunedFacts DEF IInv, TypeOK, StartBlock, call, history, Reading
<1>2. OthersOnce'
  BY PrunedFacts DEF IInv, OthersOnce, StartBlock
<1> QED
  BY <1>1, <1>2 DEF IInv, StartBlock, Sought, FoundFree, call, history, Reading

LEMMA ReceiveStep ==
  ASSUME IInv, NEW id \in Player \cup Me, NEW from \in Room, Receive(id, from)
  PROVE  IInv'
<1>1. TypeOK'
  BY DEF IInv, TypeOK, Receive, NoPacket, map, call
<1> QED
  BY <1>1 DEF IInv, Receive, OthersOnce, Sought, FoundFree, map, call

(* A player that is sought further is in no slot that was not pruned.      *)
LEMMA FindStep ==
  ASSUME IInv, Find
  PROVE  IInv'
<1>1. Holds # {} => First(Holds) \in Slots
  <2>1. Holds \subseteq Slots
    BY DEF Holds
  <2> QED
    BY <2>1, FirstIn
<1>2. TypeOK'
  <2>1. age' \in [Slots -> 0..MaxAge] /\ slot' \in Slots
    BY <1>1, AgeFacts DEF IInv, TypeOK, Find
  <2> QED
    BY <2>1, PrunedFacts DEF IInv, TypeOK, Find, call, history
<1>3. OthersOnce'
  BY PrunedFacts DEF IInv, OthersOnce, Find
<1>4. Sought'
  BY DEF Find, Sought, Holds
<1> QED
  BY <1>2, <1>3, <1>4 DEF IInv, Find, FoundFree, call

(* The first free slot is free.                                            *)
LEMMA LookStep ==
  ASSUME IInv, Look
  PROVE  IInv'
<1>1. Free # {} => First(Free) \in Free
  <2>1. Free \subseteq Slots
    BY DEF Free
  <2> QED
    BY <2>1, FirstIn
<1>2. TypeOK'
  BY <1>1 DEF IInv, TypeOK, Look, map, call, history, Free, Reading
<1>3. Sought' /\ FoundFree'
  BY <1>1 DEF IInv, Look, Sought, FoundFree, map, Free, Reading
<1> QED
  BY <1>2, <1>3 DEF IInv, Look, OthersOnce, map, call

(* The player was in no slot, so he is in one.                             *)
LEMMA ClaimStep ==
  ASSUME IInv, Claim
  PROVE  IInv'
<1>1. packet.id \in Player \cup Me /\ slot \in Slots
  BY DEF IInv, TypeOK, Claim, NoPacket
<1>2. TypeOK'
  <2>1. age' \in [Slots -> 0..MaxAge]
    BY AgeFacts DEF IInv, TypeOK, Claim
  <2> QED
    BY <1>1, <2>1 DEF IInv, TypeOK, Claim, call, history
<1>3. OthersOnce'
  BY <1>1 DEF IInv, TypeOK, OthersOnce, Sought, Claim
<1> QED
  BY <1>2, <1>3 DEF IInv, Claim, Sought, FoundFree, call

LEMMA PutStep ==
  ASSUME IInv, Put
  PROVE  IInv'
<1>1. packet.from \in Room
  BY DEF IInv, TypeOK, Put, NoPacket
<1>2. TypeOK'
  BY <1>1, AgeFacts DEF IInv, TypeOK, Put, map, call, history, Reading
<1> QED
  BY <1>2 DEF IInv, Put, OthersOnce, Sought, FoundFree, map, call, history, Reading

LEMMA MixStep ==
  ASSUME IInv, Mix
  PROVE  IInv'
<1>1. TypeOK'
  BY DEF IInv, TypeOK, Mix, map, call, history
<1> QED
  BY <1>1 DEF IInv, Mix, OthersOnce, Sought, FoundFree, map, call

(* Steps of the parameter thread only empty slots, or fill slot 0 with an  *)
(* id of this client's.                                                    *)
LEMMA TimeOutStep ==
  ASSUME IInv, TimeOut \/ TimeOutLeave \/ TimeOutClear \/ TimeOutMine
  PROVE  IInv'
<1>1. /\ UNCHANGED <<clientId, server, packet, slot, calls, residue, todo>>
      /\ active' \in BOOLEAN /\ strays' \in 0..2
      /\ audio \in {"idle", "late", "clear", "mine"}
      /\ audio' \in {"late", "clear", "mine", "ready"}
  BY AgeFacts DEF IInv, TypeOK, TimeOut, TimeOutLeave, TimeOutClear,
                  TimeOutMine, call, history
<1>2. /\ channels' \in [Slots -> Player \cup Me \cup {Empty}]
      /\ age' \in [Slots -> 0..MaxAge]
  BY AgeFacts DEF IInv, TypeOK, TimeOut, TimeOutLeave, TimeOutClear,
                  TimeOutMine, map, Cleared, SlotZero
<1>3. TypeOK'
  BY <1>1, <1>2 DEF IInv, TypeOK
<1>4. OthersOnce'
  BY AgeFacts DEF IInv, TypeOK, OthersOnce, TimeOut, TimeOutLeave,
                  TimeOutClear, TimeOutMine, map, Cleared, SlotZero
<1> QED
  BY <1>1, <1>3, <1>4 DEF IInv, Sought, FoundFree

LEMMA CallStepStep ==
  ASSUME IInv,
         \/ \E room \in Room, id \in Me : Connect(room, id)
         \/ Disconnect
  PROVE  IInv'
<1>1. todo' \in Seq(CallStep) /\ calls' \in 0..MaxCalls
  <2>1. calls' \in 0..MaxCalls
    BY DEF IInv, TypeOK, Connect, Disconnect, Call
  <2>2. ASSUME NEW room \in Room, NEW id \in Me, Connect(room, id)
        PROVE  todo' \in Seq(CallStep)
    <3>1. /\ \A name \in {"activate", "flush", "clear", "mine", "lookup"} :
               Do(name) \in CallStep
          /\ [do |-> "id", id |-> id] \in CallStep
          /\ \A half \in {"port", "host"} :
               [do |-> half, room |-> room] \in CallStep
      BY DEF Do, CallStep
    <3> QED
      BY <2>2, <3>1 DEF Connect, Call
  <2>3. ASSUME Disconnect
        PROVE  todo' \in Seq(CallStep)
    <3>1. \A name \in {"deactivate", "clear", "mine"} : Do(name) \in CallStep
      BY DEF Do, CallStep
    <3> QED
      BY <2>3, <3>1 DEF Disconnect, Call
  <2> QED
    BY <2>1, <2>2, <2>3
<1>2. UNCHANGED <<clientId, channels, age, active, server, audio,
                  packet, slot, strays, residue>>
  BY DEF Connect, Disconnect, map, thread, history
<1> QED
  BY <1>1, <1>2 DEF IInv, TypeOK, OthersOnce, Sought, FoundFree

LEMMA SimpleStep ==
  ASSUME IInv,
         \/ SetActive \/ Flush \/ SetClientId
         \/ \E found \in BOOLEAN : LookUp(found)
  PROVE  IInv'
<1>1. todo' \in Seq(CallStep) /\ UNCHANGED calls
  <2>1. CASE SetActive \/ Flush \/ SetClientId
    BY <2>1, StepFacts DEF IInv, SetActive, Flush, SetClientId, Then, Step
  <2>2. ASSUME NEW found \in BOOLEAN, LookUp(found)
        PROVE  todo' \in Seq(CallStep) /\ UNCHANGED calls
    <3>1. todo' = Tail(todo) \/ todo' = <<>>
      BY <2>2 DEF LookUp
    <3> QED
      BY <2>2, <3>1, StepFacts DEF IInv, LookUp, Step
  <2> QED
    BY <2>1, <2>2
<1>2. /\ clientId' \in Me /\ active' \in BOOLEAN
      /\ strays' \in 0..2 /\ residue' \in BOOLEAN
  BY StepFacts, AgeFacts DEF IInv, TypeOK, SetActive, Flush, SetClientId,
                             LookUp, Step, history
<1>3. UNCHANGED <<channels, age, server, audio, packet, slot>>
  BY DEF SetActive, Flush, SetClientId, LookUp, map, thread
<1> QED
  BY <1>1, <1>2, <1>3 DEF IInv, TypeOK, OthersOnce, Sought, FoundFree

LEMMA ClearStep ==
  ASSUME IInv, Clear
  PROVE  IInv'
<1>1. todo' \in Seq(CallStep) /\ UNCHANGED calls
  BY StepFacts DEF IInv, Clear, Then, Step
<1>2. TypeOK'
  BY <1>1, AgeFacts DEF IInv, TypeOK, Clear, Cleared, thread, history
<1>3. OthersOnce' /\ Sought' /\ FoundFree'
  BY DEF IInv, TypeOK, OthersOnce, Sought, FoundFree, Clear, Cleared,
                  thread
<1> QED
  BY <1>1, <1>2, <1>3 DEF IInv

LEMMA SetMyIdStep ==
  ASSUME IInv, SetMyId
  PROVE  IInv'
<1>1. todo' \in Seq(CallStep) /\ UNCHANGED calls
  BY StepFacts DEF IInv, SetMyId, Then, Step
<1>2. TypeOK'
  BY <1>1 DEF IInv, TypeOK, SetMyId, SlotZero, thread, history
<1>3. OthersOnce' /\ Sought' /\ FoundFree'
  BY AgeFacts DEF IInv, TypeOK, OthersOnce, Sought, FoundFree, SetMyId,
                  SlotZero, thread
<1> QED
  BY <1>1, <1>2, <1>3 DEF IInv

LEMMA SetAddressStep ==
  ASSUME IInv, NEW half \in {"port", "host"}, SetAddress(half)
  PROVE  IInv'
<1>1. todo' \in Seq(CallStep) /\ todo[1].room \in Room
  BY StepFacts DEF IInv, SetAddress, Step, Then
<1>2. server' \in [host : Host \cup {Nowhere}, port : Port \cup {Nowhere}]
  BY <1>1 DEF IInv, TypeOK, SetAddress, Room
<1>3. /\ strays' \in 0..2
      /\ UNCHANGED <<clientId, channels, age, active, audio, packet, slot,
                     calls, residue>>
  BY AgeFacts DEF SetAddress, Then, map, thread
<1> QED
  BY <1>1, <1>2, <1>3 DEF IInv, TypeOK, OthersOnce, Sought, FoundFree

LEMMA TickStep ==
  ASSUME IInv, Tick
  PROVE  IInv'
<1>1. age' \in [Slots -> 0..MaxAge]
  BY AgeFacts DEF IInv, TypeOK, Tick
<1> QED
  BY <1>1 DEF IInv, TypeOK, OthersOnce, Sought, FoundFree, Tick, thread,
                   call, history

LEMMA NextStep == IInv /\ [Next]_vars => IInv'
<1> SUFFICES ASSUME IInv, [Next]_vars PROVE IInv'
  OBVIOUS
<1>1. CASE Audio
  BY <1>1, StartBlockStep, TimeOutStep, FindStep, LookStep, ClaimStep, PutStep,
     MixStep DEF Audio
<1>2. CASE Parameters
  BY <1>2, SimpleStep, ClearStep, SetMyIdStep, SetAddressStep DEF Parameters
<1>3. CASE \E id \in Player \cup Me, from \in Room : Receive(id, from)
  BY <1>3, ReceiveStep
<1>4. CASE TimeOut \/ Tick
  BY <1>4, TimeOutStep, TickStep
<1>5. CASE \/ \E room \in Room, id \in Me : Connect(room, id)
           \/ Disconnect
  BY <1>5, CallStepStep
<1>6. CASE UNCHANGED vars
  BY <1>6 DEF IInv, TypeOK, OthersOnce, Sought, FoundFree, vars, map, thread,
              call, history
<1> QED
  BY <1>1, <1>2, <1>3, <1>4, <1>5, <1>6 DEF Next

LEMMA Invariance == Spec => []IInv
<1> QED
  BY InitStep, NextStep, PTL DEF Spec

-----------------------------------------------------------------------------
(* After a stray packet the audio thread holds only what the address as it *)
(* is now has sent, until the next change starts the count again.          *)
Outside == {"idle", "late", "clear", "mine", "ready", "mix"}

NoMoreStrays ==
  /\ strays \in 0..1
  /\ strays = 1 /\ audio \notin Outside =>
       active /\ (packet = NoPacket \/ packet.from = server)

LEMMA StrayStep ==
  ASSUME IInv, NoMoreStrays, [Next]_vars
  PROVE  NoMoreStrays'
<1> USE DEF NoMoreStrays, Outside
<1>1. CASE StartBlock \/ Look \/ Mix
  BY <1>1 DEF StartBlock, Look, Mix, Reading, IInv, TypeOK, history
<1>2. CASE Find \/ Claim
  BY <1>2 DEF Find, Claim, history
<1>3. CASE Put
  BY <1>3 DEF Put, Reading, IInv, TypeOK
<1>4. CASE \E id \in Player \cup Me, from \in Room : Receive(id, from)
  BY <1>4 DEF Receive
<1>5. CASE TimeOut \/ TimeOutLeave \/ TimeOutClear \/ TimeOutMine
  BY <1>5 DEF TimeOut, TimeOutLeave, TimeOutClear, TimeOutMine, history
<1>6. CASE \/ SetActive \/ Flush \/ Tick \/ Clear \/ SetMyId \/ SetClientId
           \/ \E found \in BOOLEAN : LookUp(found)
  BY <1>6 DEF SetActive, Flush, Tick, Clear, SetMyId, SetClientId, LookUp,
              thread, history
<1>7. CASE \E half \in {"port", "host"} : SetAddress(half)
  BY <1>7 DEF SetAddress, thread
<1>8. CASE (\E room \in Room, id \in Me : Connect(room, id)) \/ Disconnect
  BY <1>8 DEF Connect, Disconnect, thread, history
<1>9. CASE UNCHANGED vars
  BY <1>9 DEF vars, thread, history
<1> QED
  BY <1>1, <1>2, <1>3, <1>4, <1>5, <1>6, <1>7, <1>8, <1>9
     DEF Next, Audio, Parameters

(* From one change of the room to the next (the client is deactivated, or  *)
(* a half of the new address written) at most one packet is put that is    *)
(* not of the address as it is now: the one the audio thread held.  It     *)
(* does not speak of the packets connect lets in before it changes the     *)
(* address.                                                                *)
THEOREM AtMostOneStray == Spec => []OneStray
<1>1. Init => NoMoreStrays
  BY DEF Init, NoMoreStrays
<1>2. IInv /\ NoMoreStrays /\ [Next]_vars => NoMoreStrays'
  BY StrayStep
<1>3. NoMoreStrays => OneStray
  BY DEF NoMoreStrays, OneStray
<1> QED
  BY <1>1, <1>2, <1>3, Invariance, PTL DEF Spec

-----------------------------------------------------------------------------
(* Every slot index is a slot of the map, at any moment.                   *)
THEOREM TypeCorrect == Spec => []TypeOK
<1>1. IInv => TypeOK
  BY DEF IInv
<1> QED
  BY <1>1, Invariance, PTL

(* No other player is ever given two slots: the channel map of the audio   *)
(* thread's getChannel against clear and setMyId of the parameter thread.  *)
THEOREM OnePlayerOneSlot == Spec => []OthersOnce
<1>1. IInv => OthersOnce
  BY DEF IInv
<1> QED
  BY <1>1, Invariance, PTL

(* A player who is heard keeps his slot.  Find and StartBlock prune stale  *)
(* slots only, Claim fills a free one, SetMyId slot 0.                     *)
LEMMA StableStep ==
  ASSUME IInv, [Next]_vars, NEW i \in Slots \ {0},
         channels[i] # Empty, age[i] <= Expiration, channels'[i] # channels[i]
  PROVE  /\ Step("clear") \/ audio = "clear"
         /\ channels' = [j \in Slots |-> Empty]
<1>1. ~StartBlock /\ ~Find
  BY PrunedFacts DEF IInv, StartBlock, Find
<1>2. ~Claim
  BY DEF IInv, TypeOK, FoundFree, Claim
<1>3. /\ ~TimeOut /\ ~TimeOutLeave /\ ~Look /\ ~Put /\ ~Mix
      /\ ~(\E id \in Player \cup Me, from \in Room : Receive(id, from))
  BY DEF TimeOut, TimeOutLeave, Look, Put, Mix, Receive, map
<1>4. /\ ~SetActive /\ ~Flush /\ ~SetClientId
      /\ ~(\E found \in BOOLEAN : LookUp(found))
      /\ ~(\E half \in {"port", "host"} : SetAddress(half))
      /\ ~(\E room \in Room, id \in Me : Connect(room, id)) /\ ~Disconnect
  BY DEF SetActive, Flush, SetClientId, LookUp, SetAddress, Connect, Disconnect,
         map
<1>5. ~SetMyId /\ ~TimeOutMine
  BY DEF IInv, TypeOK, SetMyId, TimeOutMine, SlotZero
<1>6. ~Tick /\ ~UNCHANGED vars
  BY DEF Tick, vars, map
<1>7. TimeOutClear \/ Clear
  BY <1>1, <1>2, <1>3, <1>4, <1>5, <1>6 DEF Next, Audio, Parameters
<1> QED
  BY <1>7 DEF TimeOutClear, Clear, Cleared

(* A player heard within the expiration time loses his slot only when the  *)
(* whole map is cleared.                                                   *)
THEOREM HeardKeepsSlot == Spec => StablePlaces
<1>1. IInv /\ [Next]_vars
        => [\A i \in Slots \ {0} :
              /\ channels[i] # Empty /\ age[i] <= Expiration
              /\ channels'[i] # channels[i]
              => /\ Step("clear") \/ audio = "clear"
                 /\ channels' = [j \in Slots |-> Empty]]_vars
  BY StableStep
<1> QED
  BY <1>1, Invariance, PTL DEF Spec, StablePlaces
=============================================================================
