----------------------------- MODULE RoomServer -----------------------------
(***************************************************************************)
(* One room of the broadcast server: JamSocket::sendDataToRoomMembers and  *)
(* the PlayerList it drives.  A single packet thread runs the handler in a *)
(* loop, so one action is one run of the handler.  UDP may lose, repeat    *)
(* and reorder packets; the server keeps no sequence state, so every such  *)
(* history is some order of Receive steps with any client, address, echo.  *)
(*                                                                         *)
(* The code compares the clock only with earlier readings of it.  Each     *)
(* such difference is a timer here, in ticks: the age of a KeepAlive, of   *)
(* lastPingTime, of an echoed ServerTime, and the time spent in recvfrom.  *)
(***************************************************************************)
EXTENDS Integers, Sequences, FiniteSets

CONSTANTS
  Clients,      \* client ids
  Addrs,        \* source addresses a client may send from
  RoomSize,     \* m_roomSize (MAX_JAMMERS)
  Expiration,   \* SERVER_EXPIRATION_IN_MICROSECONDS
  RecvTimeout,  \* SO_RCVTIMEO of the server socket
  PingWindow,   \* 10000 us
  PingPeriod,   \* 100000 us
  PingValid     \* 200000 us: an older echo is "garbage data"

ASSUME RoomAssumption ==
  /\ RoomSize \in Nat
  /\ Expiration \in Nat
  /\ RecvTimeout \in Nat \ {0}
  /\ PingWindow \in Nat
  /\ PingPeriod \in Nat
  /\ PingWindow < PingPeriod
  /\ PingValid \in Nat \ {0}

VARIABLES
  players,      \* m_players: [client, addr, age, pinging], in vector order
  roomPinging,  \* m_pinging
  pingAge,      \* now - lastPingTime, saturated above PingPeriod
  waited,       \* time the thread has been blocked in recvfrom
  out,          \* what the last run of the handler did
  heardAge,     \* history: time since the client was last received
  edgeAge,      \* history: time since the last rising edge of a ping window
  samples       \* history: latency samples since the player's last startPing

serverVars == <<players, roomPinging, pingAge, waited, out>>
history == <<heardAge, edgeAge, samples>>
vars == <<serverVars, history>>

NoStamp == -1                        \* ServerTime = 0
Echoes == {NoStamp} \cup 0..PingValid \* PingValid: this old, or unreadable
HeardCap == Expiration + RecvTimeout + 1
PingCap == PingPeriod + 1
Lesser(a, b) == IF a < b THEN a ELSE b

Player == [client : Clients, addr : Addrs,
           age : 0..HeardCap, pinging : BOOLEAN]
Send == [to : Clients, addr : Addrs, what : {"header", "audio", "playback"}]
Output == [from : SUBSET Clients,  \* whose packet was handled
           channel : Int,          \* serverChannel
           stamped : BOOLEAN,      \* the packet carries a ServerTime
           sends : Seq(Send)]      \* sendData calls, in order
Silent == [from |-> {}, channel |-> -1, stamped |-> FALSE, sends |-> <<>>]

Members == {players[i].client : i \in DOMAIN players}

-----------------------------------------------------------------------------
(* Bugs this code could have; each replaces the definition named beside it *)
(* in a mutation run.                                                      *)
Erased(keep, before(_, _)) ==
  {[i \in DOMAIN f |-> players[f[i]]] :
     f \in {g \in [1..Cardinality(keep) -> keep] :
              \A i, j \in DOMAIN g : i < j => before(g[i], g[j])}}
PrunedLate ==       \* Pruned: one tick too late
  Erased({i \in DOMAIN players : players[i].age <= Expiration + 1},
         LAMBDA p, q : p < q)
PrunedEarly ==      \* Pruned: >= for >
  Erased({i \in DOMAIN players : players[i].age < Expiration},
         LAMBDA p, q : p < q)
PrunedUnordered ==  \* Pruned: the hole is filled from anywhere
  Erased({i \in DOMAIN players : players[i].age <= Expiration},
         LAMBDA p, q : p # q)
RefreshKeepsPing(t, i, echo) == [t EXCEPT ![i].age = 0]  \* Refresh
RefreshFromPing(t, i, echo) == [t EXCEPT ![i].age = echo]  \* Refresh
KnowsAllButLast(t, c) ==                                 \* Knows
  \E i \in 1..(Len(t) - 1) : t[i].client = c
SendLoopToAll(t, c, playback) ==                         \* SendLoop
  [k \in DOMAIN t |-> [to |-> t[k].client, addr |-> t[k].addr,
                       what |-> "audio"]]
HasSpaceBefore(t) == Len(players) <= RoomSize            \* HasSpace: unpruned
NextPingAgeEarly ==                                      \* NextPingAge
  IF pingAge > PingWindow THEN 0 ELSE pingAge
ReceiveTimeoutNoPrune ==     \* ReceiveTimeout: return before Prune
  /\ waited = RecvTimeout
  /\ waited' = 0
  /\ out' = Silent
  /\ UNCHANGED <<players, roomPinging, pingAge, history>>

-----------------------------------------------------------------------------
(* Prune erases the players that have not been heard of for Expiration;    *)
(* those behind an erased player move up.  f lists the positions that stay *)
(* in increasing order, so the set has one element.                        *)
Pruned ==
  LET keep == {i \in DOMAIN players : players[i].age <= Expiration}
  IN  {[i \in DOMAIN f |-> players[f[i]]] :
         f \in {g \in [1..Cardinality(keep) -> keep] :
                  \A i, j \in DOMAIN g : i < j => g[i] < g[j]}}

(* updateChannel, the client being at position i of table t: an echo ends  *)
(* the player's ping, and is a latency sample unless it is garbage.        *)
Refresh(t, i, echo) ==
  [t EXCEPT ![i].age = 0, ![i].pinging = @ /\ echo = NoStamp]
IsSample(t, i, echo) == t[i].pinging /\ echo \in 0..(PingValid - 1)

(* updateChannel, the client not being in table t *)
NewPlayer(c, a) == [client |-> c, addr |-> a, age |-> 0, pinging |-> FALSE]
HasSpace(t) == Len(t) <= RoomSize
Knows(t, c) == \E i \in DOMAIN t : t[i].client = c
Position(t, c, i) ==
  t[i].client = c /\ \A j \in 1..(i - 1) : t[j].client # c

StartPing(t) == [i \in DOMAIN t |-> [t[i] EXCEPT !.pinging = TRUE]]

(* The send loop: the sender is sent the bare header, everybody else the   *)
(* audio, and everybody the playback packet when there is one.             *)
Packet(p, what) == [to |-> p.client, addr |-> p.addr, what |-> what]
SendLoop(t, c, playback) ==
  LET n == IF playback THEN 2 ELSE 1
  IN  [k \in 1..(n * Len(t)) |->
         LET p == t[((k - 1) \div n) + 1]
         IN  Packet(p, IF (k - 1) % n = 1 THEN "playback"
                       ELSE IF p.client = c THEN "header" ELSE "audio")]

RisingEdge == pingAge < PingWindow /\ ~roomPinging
NextPinging ==
  IF pingAge < PingWindow THEN TRUE
  ELSE IF pingAge > PingWindow THEN FALSE ELSE roomPinging
NextPingAge == IF pingAge > PingPeriod THEN 0 ELSE pingAge

-----------------------------------------------------------------------------
Heard(c) ==
  /\ waited' = 0
  /\ heardAge' = [heardAge EXCEPT ![c] = 0]

(* A packet of a client the room does not know: it joins if there is space *)
(* but updateChannel answers -1 either way, and the packet goes no further *)
Newcomer(c, a) ==
  \E t \in Pruned :
    /\ ~Knows(t, c)
    /\ players' = IF HasSpace(t) THEN Append(t, NewPlayer(c, a)) ELSE t
    /\ out' = [Silent EXCEPT !.from = {c}]
    /\ samples' = [samples EXCEPT ![c] = 0]
    /\ Heard(c)
    /\ UNCHANGED <<roomPinging, pingAge, edgeAge>>

(* A packet of a player: refresh it, move the ping window, and send.  The  *)
(* packets that get this far (channel >= 0) are also the ones handed to    *)
(* the room's mixer and to its recorder.                                   *)
Forward(c, a, echo, playback) ==
  \E t \in Pruned : \E i \in DOMAIN t :
    /\ Position(t, c, i)
    /\ LET fresh == Refresh(t, i, echo)
           n == IF IsSample(t, i, echo) THEN Lesser(samples[c] + 1, 2)
                ELSE samples[c]
       IN  /\ players' = IF RisingEdge THEN StartPing(fresh) ELSE fresh
           /\ samples' = IF RisingEdge THEN [d \in Clients |-> 0]
                         ELSE [samples EXCEPT ![c] = n]
           /\ out' = [from |-> {c}, channel |-> i - 1, stamped |-> NextPinging,
                      sends |-> SendLoop(fresh, c, playback)]
    /\ edgeAge' = IF RisingEdge THEN 0 ELSE edgeAge
    /\ roomPinging' = NextPinging
    /\ pingAge' = NextPingAge
    /\ Heard(c)

(* recvfrom gives up after SO_RCVTIMEO: prune, and go back to recvfrom     *)
ReceiveTimeout ==
  /\ waited = RecvTimeout
  /\ players' \in Pruned
  /\ waited' = 0
  /\ out' = Silent
  /\ UNCHANGED <<roomPinging, pingAge, history>>

(* Time passes while the thread is in recvfrom, never beyond its timeout   *)
Tick ==
  /\ waited < RecvTimeout
  /\ waited' = waited + 1
  /\ players' = [i \in DOMAIN players |->
                   [players[i] EXCEPT !.age = Lesser(@ + 1, HeardCap)]]
  /\ pingAge' = Lesser(pingAge + 1, PingCap)
  /\ heardAge' = [c \in Clients |-> Lesser(heardAge[c] + 1, HeardCap)]
  /\ edgeAge' = Lesser(edgeAge + 1, PingCap)
  /\ out' = Silent
  /\ UNCHANGED <<roomPinging, samples>>

Init ==
  /\ players = <<>>
  /\ roomPinging = TRUE
  /\ pingAge = 0
  /\ waited = 0
  /\ out = Silent
  /\ heardAge = [c \in Clients |-> HeardCap]
  /\ edgeAge = PingCap
  /\ samples = [c \in Clients |-> 0]

Next ==
  \/ \E c \in Clients, a \in Addrs : Newcomer(c, a)
  \/ \E c \in Clients, a \in Addrs, echo \in Echoes, playback \in BOOLEAN :
       Forward(c, a, echo, playback)
  \/ ReceiveTimeout
  \/ Tick

Spec == Init /\ [][Next]_vars

(* The clock runs, and recvfrom does return at its timeout.                *)
FairSpec == Spec /\ WF_vars(Tick) /\ WF_vars(ReceiveTimeout)

-----------------------------------------------------------------------------
(* Every variable keeps its type.                                          *)
TypeOK ==
  /\ players \in Seq(Player)
  /\ roomPinging \in BOOLEAN
  /\ pingAge \in 0..PingCap
  /\ waited \in 0..RecvTimeout
  /\ out \in Output
  /\ heardAge \in [Clients -> 0..HeardCap]
  /\ edgeAge \in 0..PingCap
  /\ samples \in [Clients -> 0..2]

(* No client is listed twice, whatever addresses it sends from and however *)
(* its packets are repeated around its own expiry.                         *)
UniqueIds ==
  \A i, j \in DOMAIN players : players[i].client = players[j].client => i = j

(* Audio goes only to clients heard of within Expiration.                  *)
FreshRecipients ==
  \A k \in DOMAIN out.sends : heardAge[out.sends[k].to] <= Expiration

(* Who was heard of within Expiration                                      *)
Lately == {c \in Clients : heardAge[c] <= Expiration}

(* A newcomer is turned away only while RoomSize members were heard of     *)
(* within Expiration, and so within the second after which a silent        *)
(* client's channel is documented to be "made available": the one who      *)
(* wants the channel prunes before asking for it.                          *)
MadeAvailable ==
  [][\A c \in out'.from :
       c \notin Members' => Cardinality(Members \cap Lately) >= RoomSize]_vars

(* At most one latency sample per player and ping, however often the       *)
(* client's packets are repeated.                                          *)
OneSamplePerPing == \A c \in Clients : samples[c] <= 1

(* The room as its clients see it (Room): who is a member, in the order of *)
(* the table, and as mail what a handler run has sent to each.             *)
Ahead ==
  {q \in Clients \X Clients :
     \E i, j \in DOMAIN players :
       i < j /\ players[i].client = q[1] /\ players[j].client = q[2]}
Sent(c, what) ==
  Cardinality({k \in DOMAIN out.sends :
                 out.sends[k].to = c /\ out.sends[k].what = what})
Mail == [c \in Clients |->
           [header |-> Sent(c, "header"), audio |-> Sent(c, "audio"),
            playback |-> Sent(c, "playback")]]

Abstract == INSTANCE Room WITH
  Seats <- RoomSize + 1, members <- Members, ahead <- Ahead,
  lately <- Lately, mail <- Mail

(* The server keeps that promise: a player that keeps sending is never     *)
(* dropped, those that stay keep their order (a channel only moves down),  *)
(* a newcomer gets in exactly when there is a seat (one more than          *)
(* m_roomSize: see FitsTheRoom), and each packet of a                      *)
(* player reaches every other member once, itself as a bare header, while  *)
(* packets are lost, repeated and late and clients expire.                 *)
ImplementsRoom == Abstract!RoomSpec

(* Pings are sent "in 10 msec windows every 100msec": two windows never    *)
(* open as close together as the period less a window.                     *)
PingEdgesApart ==
  [][edgeAge' = 0 /\ edgeAge # 0 => edgeAge > PingPeriod - PingWindow]_vars

(* A client that stops sending loses its place.                            *)
SilentLeave ==
  \A c \in Clients : c \in Members ~> (c \notin Members \/ heardAge[c] = 0)

-----------------------------------------------------------------------------
(* What the comments and the documents promise and the code does not keep. *)

(* "Do we have space to add him?", "Check for full room": a room never     *)
(* holds more players than it has places for.                              *)
FitsTheRoom == Len(players) <= RoomSize
=============================================================================
