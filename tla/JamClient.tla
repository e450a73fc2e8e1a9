----------------------------- MODULE JamClient ------------------------------
(***************************************************************************)
(* JamClient: a player's end of a room.  The audio thread reads packets    *)
(* from the socket on every block, finds each player's local channel in    *)
(* the ChannelMap and puts the samples in that channel's jitter buffers;   *)
(* the parameter thread connects to rooms and leaves them.  Nothing locks  *)
(* what they share.  What waits in the jitter buffers is left to           *)
(* JitterBuffer; of connect's flush of them it is kept here whether what   *)
(* is put in afterwards is of the room the client goes to.                 *)
(***************************************************************************)
EXTENDS Integers, Sequences

CONSTANTS
  Player,     \* ids of the other players
  Me,         \* the ids this client connects with
  Host, Port, \* of rooms
  Nowhere,    \* the host and the port of serverAddr before the first connect
  Empty,      \* EMPTY_SLOT
  LastSlot,   \* MAX_JAMMERS - 1
  Expiration, \* EXPIRATION_IN_SECONDS
  MaxCalls    \* bound: calls of the parameter thread

ASSUME ClientAssumption ==
  /\ Me # {} /\ Me \cap Player = {} /\ Empty \notin Player \cup Me
  /\ Nowhere \notin Host \cup Port
  /\ LastSlot \in Nat \ {0} /\ Expiration \in Nat /\ MaxCalls \in Nat

VARIABLES
  clientId,   \* the packet's clientId, and myId of the map
  channels,   \* the clientId in every slot of the map
  age,        \* seconds since KeepAlive, of every slot
  active,     \* isActivated
  server,     \* serverAddr: its host and its port
  audio,      \* where the audio thread is,
  packet,     \* with which packet
  slot,       \* and which slot
  todo,       \* what the parameter thread has still to do in its call
  calls,      \* calls it began
  strays,     \* history: packets of no current room put since it changed
  residue     \* history: a packet of another room than the one the client
              \* goes to was let in since connect's flush

map == <<channels, age>>
thread == <<audio, packet, slot>>
call == <<todo, calls>>
history == <<strays, residue>>
vars == <<clientId, map, active, server, thread, call, history>>

Slots == 0..LastSlot
MaxAge == Expiration + 1   \* bound: ages are told apart up to this one
Room == [host : Host, port : Port]
NoRoom == [host |-> Nowhere, port |-> Nowhere]
NoPacket == [id |-> Empty, from |-> NoRoom]

-----------------------------------------------------------------------------
(* Bugs this code could have; each replaces the definition named beside it *)
HoldsFirstOnly == {i \in {1} : channels[i] = packet.id}              \* Holds
FreeToTheEnd == {i \in 0..LastSlot + 1 :                            \* Free
                   i > LastSlot \/ channels[i] = Empty}
PrunedAnyway ==                                                     \* Pruned
  [i \in Slots |-> IF i > 0 /\ age[i] > 0 THEN Empty ELSE channels[i]]
PrunedNever == channels                                             \* Pruned
ReadingAnyway == "reading"                                          \* Reading

-----------------------------------------------------------------------------
(* ChannelMap.  Slot 0, the local player's, never gets stale.              *)

Stale(i) == channels[i] # Empty /\ age[i] > Expiration

Pruned == [i \in Slots |-> IF i > 0 /\ Stale(i) THEN Empty ELSE channels[i]]

Holds == {i \in Slots : Pruned[i] = packet.id}

Free == {i \in Slots : channels[i] = Empty}

First(slots) == CHOOSE i \in slots : \A j \in slots : i <= j

(* clearChannelMap: clear and then setMyId                                 *)
Cleared == channels' = [i \in Slots |-> Empty] /\ age' = [i \in Slots |-> 0]
SlotZero == channels' = [channels EXCEPT ![0] = clientId]

-----------------------------------------------------------------------------
(* The audio thread: JamEngine::run, readPackets, addData, sendPacket      *)

(* A client that is not active reads nothing (more).                       *)
Reading == IF active THEN "reading" ELSE "mix"

StartBlock ==
  /\ audio \in {"idle", "ready"}
  /\ channels' = Pruned
  /\ audio' = Reading
  /\ UNCHANGED <<clientId, age, active, server, packet, slot, call, history>>

(* Ninety minutes without a sign of the user's: run disconnects first.     *)
TimeOut ==
  /\ audio = "idle" /\ active
  /\ audio' = "late"
  /\ UNCHANGED <<clientId, map, active, server, packet, slot, call, history>>

TimeOutLeave ==
  /\ audio = "late"
  /\ active' = FALSE /\ strays' = 0
  /\ audio' = "clear"
  /\ UNCHANGED <<clientId, map, server, packet, slot, call, residue>>

TimeOutClear ==
  /\ audio = "clear"
  /\ Cleared
  /\ audio' = "mine"
  /\ UNCHANGED <<clientId, active, server, packet, slot, call, history>>

TimeOutMine ==
  /\ audio = "mine"
  /\ SlotZero
  /\ audio' = "ready"
  /\ UNCHANGED <<clientId, age, active, server, packet, slot, call, history>>

(* Where the client goes to: the room of connect's call, else its server.  *)
Destination ==
  LET addressing == {i \in DOMAIN todo : todo[i].do = "host"}
  IN  IF addressing = {} THEN server
      ELSE todo[CHOOSE i \in addressing : TRUE].room

(* Packets from elsewhere than the current server are ignored: no step.    *)
Receive(id, from) ==
  /\ audio = "reading" /\ from = server
  /\ packet' = [id |-> id, from |-> from]
  /\ residue' = (residue \/ (id \in Player /\ from # Destination))
  /\ audio' = "find"
  /\ UNCHANGED <<clientId, map, active, server, slot, call, strays>>

(* getChannel: the player's slot ...                                       *)
Find ==
  /\ audio = "find"
  /\ channels' = Pruned
  /\ IF Holds # {}
     THEN /\ slot' = First(Holds) /\ audio' = "put"
          /\ age' = [age EXCEPT ![First(Holds)] = 0]
     ELSE /\ audio' = "look" /\ UNCHANGED <<slot, age>>
  /\ UNCHANGED <<clientId, active, server, packet, call, history>>

(* ... or the first free one; without one the packet is dropped, ...       *)
Look ==
  /\ audio = "look"
  /\ IF Free # {}
     THEN slot' = First(Free) /\ audio' = "claim" /\ UNCHANGED packet
     ELSE audio' = Reading /\ packet' = NoPacket /\ UNCHANGED slot
  /\ UNCHANGED <<clientId, map, active, server, call, history>>

(* ... which becomes his.                                                  *)
Claim ==
  /\ audio = "claim"
  /\ channels' = [channels EXCEPT ![slot] = packet.id]
  /\ age' = [age EXCEPT ![slot] = 0]
  /\ audio' = "put"
  /\ UNCHANGED <<clientId, active, server, packet, slot, call, history>>

(* putIn, unless what comes back of the client's own packets is a header   *)
(* only.                                                                   *)
Put ==
  /\ audio = "put"
  /\ strays' = IF active /\ packet.from = server THEN strays
               ELSE IF strays < 2 THEN strays + 1 ELSE 2
  /\ audio' = Reading /\ packet' = NoPacket /\ slot' = 0
  /\ UNCHANGED <<clientId, map, active, server, call, residue>>

(* No more data: send (to server, if active) and mix.                      *)
Mix ==
  /\ audio \in {"reading", "mix"}
  /\ audio' = "idle"
  /\ UNCHANGED <<clientId, map, active, server, packet, slot, call, history>>

-----------------------------------------------------------------------------
(* The parameter thread: JamEngine::connect, JamSocket::initClient and     *)
(* disconnect.  A call is a sequence of steps, each visible to the audio   *)
(* thread by itself.                                                       *)

Call(steps) ==
  /\ todo = <<>> /\ calls < MaxCalls
  /\ todo' = steps /\ calls' = calls + 1

Step(name) == todo # <<>> /\ todo[1].do = name

Then == todo' = Tail(todo) /\ UNCHANGED calls

Do(name) == [do |-> name]

Connect(room, id) ==
  /\ Call(<<Do("activate"), Do("flush"), [do |-> "id", id |-> id],
            Do("clear"), Do("mine"), Do("lookup"),
            [do |-> "port", room |-> room], [do |-> "host", room |-> room],
            Do("clear"), Do("mine")>>)
  /\ UNCHANGED <<clientId, map, active, server, thread, history>>

Disconnect ==
  /\ Call(<<Do("deactivate"), Do("clear"), Do("mine")>>)
  /\ UNCHANGED <<clientId, map, active, server, thread, history>>

SetActive ==
  /\ Step("activate") \/ Step("deactivate")
  /\ active' = Step("activate")
  /\ strays' = IF active' THEN strays ELSE 0
  /\ Then
  /\ UNCHANGED <<clientId, map, server, thread, residue>>

(* clearPlayerVolumes: the jitter buffers of all players                   *)
Flush ==
  /\ Step("flush")
  /\ residue' = FALSE
  /\ Then
  /\ UNCHANGED <<clientId, map, active, server, thread, strays>>

SetClientId ==
  /\ Step("id")
  /\ clientId' = todo[1].id
  /\ Then
  /\ UNCHANGED <<map, active, server, thread, history>>

Clear ==
  /\ Step("clear")
  /\ Cleared
  /\ Then
  /\ UNCHANGED <<clientId, active, server, thread, history>>

SetMyId ==
  /\ Step("mine")
  /\ SlotZero
  /\ Then
  /\ UNCHANGED <<clientId, age, active, server, thread, history>>

(* The name of the server may not be found: the call ends there, and the   *)
(* client stays in the room it was in.                                     *)
LookUp(found) ==
  /\ Step("lookup")
  /\ todo' = IF found THEN Tail(todo) ELSE <<>>
  /\ residue' = (residue /\ found)
  /\ UNCHANGED <<clientId, map, active, server, thread, calls, strays>>

(* The new address, which is no room's in between, or another room's.      *)
SetAddress(half) ==
  /\ Step(half)
  /\ server' = [server EXCEPT ![half] = todo[1].room[half]]
  /\ strays' = 0
  /\ Then
  /\ UNCHANGED <<clientId, map, active, thread, residue>>

-----------------------------------------------------------------------------
Tick ==
  /\ age' = [i \in Slots |-> IF channels[i] # Empty /\ age[i] < MaxAge
                             THEN age[i] + 1 ELSE age[i]]
  /\ UNCHANGED <<clientId, channels, active, server, thread, call, history>>

Init ==
  /\ clientId \in Me
  /\ channels = [i \in Slots |-> IF i = 0 THEN clientId ELSE Empty]
  /\ age = [i \in Slots |-> 0]
  /\ active = FALSE /\ server = NoRoom /\ residue = FALSE
  /\ audio = "idle" /\ slot = 0 /\ packet = NoPacket
  /\ todo = <<>> /\ calls = 0 /\ strays = 0

Audio ==
  \/ StartBlock \/ TimeOutLeave \/ TimeOutClear \/ TimeOutMine
  \/ Find \/ Look \/ Claim \/ Put \/ Mix

Parameters ==
  \/ SetActive \/ Flush \/ SetClientId \/ Clear \/ SetMyId
  \/ \E found \in BOOLEAN : LookUp(found)
  \/ \E half \in {"port", "host"} : SetAddress(half)

Next ==
  \/ Audio
  \/ TimeOut
  \/ \E id \in Player \cup Me, from \in Room : Receive(id, from)
  \/ Parameters
  \/ \E room \in Room, id \in Me : Connect(room, id)
  \/ Disconnect
  \/ Tick

Spec == Init /\ [][Next]_vars

(* The sound card asks for block after block, and time passes.             *)
FairSpec == Spec /\ WF_vars(Audio) /\ WF_vars(Tick)

-----------------------------------------------------------------------------
(* The one type invariant: every slot index is a slot of the map, in       *)
(* particular the one getChannel gives to putIn.                           *)
TypeOK ==
  /\ clientId \in Me
  /\ channels \in [Slots -> Player \cup Me \cup {Empty}]
  /\ age \in [Slots -> 0..MaxAge]
  /\ active \in BOOLEAN
  /\ server \in [host : Host \cup {Nowhere}, port : Port \cup {Nowhere}]
  /\ audio \in {"idle", "late", "clear", "mine", "ready", "reading", "find", "look", "claim", "put", "mix"}
  /\ \/ packet = NoPacket
     \/ packet \in [id : Player \cup Me, from : Room]
  /\ audio \in {"find", "look", "claim", "put"} <=> packet # NoPacket
  /\ slot \in Slots
  /\ calls \in 0..MaxCalls /\ strays \in 0..2
  /\ residue \in BOOLEAN

(* No other player is given two slots, though the parameter thread clears  *)
(* the map between the audio thread's search for the player and its claim  *)
(* of a free slot: two channels of one player would split his samples      *)
(* between two jitter buffers.                                             *)
OthersOnce ==
  \A i, j \in Slots :
    channels[i] = channels[j] /\ channels[i] \in Player => i = j

(* A player heard within the expiration time keeps his slot, and so his    *)
(* volume and his samples: only a call that clears the whole map, or the   *)
(* disconnect after ninety minutes, takes it.  Slot 0 is the client's own. *)
StablePlaces ==
  [][\A i \in Slots \ {0} :
       /\ channels[i] # Empty /\ age[i] <= Expiration
       /\ channels'[i] # channels[i]
       => /\ Step("clear") \/ audio = "clear"
          /\ channels' = [j \in Slots |-> Empty]]_vars

(* A player who falls silent leaves his slot, so that another can come.    *)
SilentFreed ==
  \A i \in Slots \ {0} : \A p \in Player :
    channels[i] = p ~> (channels[i] # p \/ age[i] = 0)

(* Once the client is deactivated, or a half of the address of a new room  *)
(* is written, at most the packet the audio thread holds is still put that *)
(* is not of the address as it is now.  What connect lets in before, while *)
(* the address is still the old one, is NoResidue's matter.                *)
OneStray == strays <= 1

(* "flush all the jitterBuffers" (JamEngine.cpp) and "ignore residual      *)
(* packets from previous room" (JamNetStuff.cpp): when connect is done,    *)
(* nothing of another room was let in since the flush.                     *)
NoResidue == todo = <<>> /\ active => ~residue

(* "slot 0 cause that's the local dude" (ChannelMap.cpp): between calls    *)
(* slot 0 is the client's own.                                             *)
SlotZeroIsMine == todo = <<>> => channels[0] = clientId
=============================================================================
