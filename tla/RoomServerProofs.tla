-------------------------- MODULE RoomServerProofs --------------------------
(***************************************************************************)
(* What holds of RoomServer for every set of clients, room size and timer. *)
(* IInv is the inductive invariant: the type invariant, no client twice,   *)
(* each KeepAlive in step with the history and bounded by the time since   *)
(* the last pruning, a pending ping not yet sampled, and where the ping    *)
(* window stands since its last rising edge.  From it also follows, run by *)
(* run of the handler, that the server implements Room.                    *)
(***************************************************************************)
EXTENDS RoomServer, FiniteSetTheorems, TLAPS

(* A player's KeepAlive is the moment its client was last heard, and it    *)
(* had not expired when the thread last entered recvfrom.                  *)
AgesTrue ==
  \A i \in DOMAIN players :
    /\ players[i].age = heardAge[players[i].client]
    /\ players[i].age <= Expiration + waited

(* A player whose ping is pending has not been sampled for it.             *)
PingPending ==
  \A i \in DOMAIN players :
    players[i].pinging => samples[players[i].client] = 0

(* Either the last rising edge is long past, or the same window is still   *)
(* open or over without a new one having begun.                            *)
EdgePast ==
  \/ edgeAge > PingPeriod - PingWindow
  \/ /\ roomPinging \/ pingAge >= PingWindow
     /\ pingAge < edgeAge + PingWindow

IInv ==
  /\ TypeOK
  /\ UniqueIds
  /\ AgesTrue
  /\ OneSamplePerPing
  /\ PingPending
  /\ FreshRecipients
  /\ EdgePast

-----------------------------------------------------------------------------
(* Pruning keeps the unexpired players and no others, each once and in     *)
(* their order.                                                            *)
LEMMA PrunedFacts ==
  ASSUME NEW T, players \in Seq(T), NEW t \in Pruned
  PROVE  /\ t \in Seq(T) /\ Len(t) <= Len(players) /\ Len(t) \in Nat
         /\ \E f \in [DOMAIN t -> DOMAIN players] :
              /\ \A i \in DOMAIN t :
                   t[i] = players[f[i]] /\ t[i].age <= Expiration
              /\ \A i, j \in DOMAIN t : f[i] = f[j] => i = j
              /\ \A i, j \in DOMAIN t : i < j => f[i] < f[j]
              /\ \A j \in DOMAIN players :
                   players[j].age <= Expiration => \E i \in DOMAIN t : f[i] = j
<1> DEFINE keep == {i \in DOMAIN players : players[i].age <= Expiration}
<1>1. PICK f \in [1..Cardinality(keep) -> keep] :
        /\ \A i, j \in DOMAIN f : i < j => f[i] < f[j]
        /\ t = [i \in DOMAIN f |-> players[f[i]]]
  BY DEF Pruned
<1>2. IsFiniteSet(keep) /\ Cardinality(keep) <= Len(players)
      /\ Cardinality(keep) \in Nat
  <2>1. Len(players) \in Nat /\ DOMAIN players = 1..Len(players)
    OBVIOUS
  <2>2. IsFiniteSet(1..Len(players))
        /\ Cardinality(1..Len(players)) = Len(players)
    <3>1. Cardinality(1..Len(players))
            = IF 1 > Len(players) THEN 0 ELSE Len(players) - 1 + 1
      BY <2>1, FS_Interval
    <3>2. IsFiniteSet(1..Len(players))
      BY <2>1, FS_Interval
    <3> QED
      BY <2>1, <3>1, <3>2
  <2>3. keep \subseteq 1..Len(players)
    BY <2>1
  <2> QED
    BY <2>2, <2>3, FS_Subset, FS_CardinalityType
<1> HIDE DEF keep
<1>3. DOMAIN f = 1..Cardinality(keep) /\ DOMAIN t = DOMAIN f
  BY <1>1
<1>4. \A i \in DOMAIN f : f[i] \in keep
  BY <1>1
<1>5. \A i \in keep : i \in DOMAIN players /\ players[i].age <= Expiration
  BY DEF keep
<1>6. t \in Seq(T) /\ Len(t) = Cardinality(keep)
  <2>1. \A i \in 1..Cardinality(keep) : players[f[i]] \in T
    BY <1>3, <1>4, <1>5
  <2>2. t = [i \in 1..Cardinality(keep) |-> players[f[i]]]
    BY <1>1, <1>3
  <2> QED
    BY <1>2, <2>1, <2>2
<1>7. \A i, j \in DOMAIN t : f[i] = f[j] => i = j
  <2> SUFFICES ASSUME NEW i \in DOMAIN t, NEW j \in DOMAIN t, f[i] = f[j]
               PROVE  i = j
    OBVIOUS
  <2>1. i \in Nat /\ j \in Nat /\ f[i] \in Int /\ f[j] \in Int
    BY <1>2, <1>3, <1>4, <1>5
  <2> QED
    BY <1>1, <1>3, <2>1
<1>8. f \in [DOMAIN t -> DOMAIN players]
  BY <1>1, <1>3, <1>4, <1>5
<1>9. \A i, j \in DOMAIN t : i < j => f[i] < f[j]
  BY <1>1, <1>3
<1>10. \A j \in keep : \E i \in DOMAIN t : f[i] = j
  <2>1. f \in Injection(1..Cardinality(keep), keep)
    BY <1>1, <1>3, <1>7 DEF Injection, IsInjective
  <2>2. Cardinality(1..Cardinality(keep)) = Cardinality(keep)
    <3>1. PICK n \in Nat : n = Cardinality(keep)
      BY <1>2
    <3>2. Cardinality(1..n) = IF 1 > n THEN 0 ELSE n - 1 + 1
      BY FS_Interval
    <3> QED
      BY <3>1, <3>2
  <2>3. f \in Surjection(1..Cardinality(keep), keep)
    BY <1>2, <2>1, <2>2, FS_Injection
  <2> QED
    BY <1>3, <2>3 DEF Surjection
<1>11. \A j \in DOMAIN players :
         players[j].age <= Expiration => \E i \in DOMAIN t : f[i] = j
  BY <1>10 DEF keep
<1> QED
  BY <1>1, <1>2, <1>3, <1>4, <1>5, <1>6, <1>7, <1>8, <1>9, <1>11

-----------------------------------------------------------------------------
USE RoomAssumption

(* A saturating timer counts up to its cap and stays there.                *)
LEMMA Saturates ==
  ASSUME NEW cap \in Nat, NEW a \in 0..cap
  PROVE  /\ Lesser(a + 1, cap) \in 0..cap
         /\ Lesser(a + 1, cap) = a + 1 \/ (a = cap /\ Lesser(a + 1, cap) = cap)
BY DEF Lesser

LEMMA Caps == HeardCap \in Nat /\ PingCap \in Nat /\ RoomSize + 1 \in Nat
BY DEF HeardCap, PingCap

(* One tick in the life of a table entry.                                  *)
LEMMA OlderPlayer ==
  ASSUME NEW p \in Player,
         NEW q, q = [p EXCEPT !.age = Lesser(@ + 1, HeardCap)]
  PROVE  /\ q \in Player
         /\ q.age = Lesser(p.age + 1, HeardCap)
         /\ q.client = p.client /\ q.addr = p.addr /\ q.pinging = p.pinging
<1>1. p.age \in 0..HeardCap
  BY DEF Player
<1>2. Lesser(p.age + 1, HeardCap) \in 0..HeardCap
  BY <1>1, Saturates, Caps
<1> QED
  BY <1>2 DEF Player

(* The sends of one run go to the table's players, at their addresses.     *)
LEMMA SendLoopFacts ==
  ASSUME NEW t \in Seq(Player), NEW c, NEW playback \in BOOLEAN
  PROVE  /\ SendLoop(t, c, playback) \in Seq(Send)
         /\ \A k \in DOMAIN SendLoop(t, c, playback) :
              \E i \in DOMAIN t : SendLoop(t, c, playback)[k].to = t[i].client
<1> DEFINE n == IF playback THEN 2 ELSE 1
           at(k) == ((k - 1) \div n) + 1
           what(k) == IF (k - 1) % n = 1 THEN "playback"
                      ELSE IF t[at(k)].client = c THEN "header" ELSE "audio"
           loop == [k \in 1..(n * Len(t)) |-> Packet(t[at(k)], what(k))]
<1>1. SendLoop(t, c, playback) = loop
  BY DEF SendLoop
<1>2. Len(t) \in Nat /\ DOMAIN t = 1..Len(t)
  OBVIOUS
<1>3. \A k \in 1..(n * Len(t)) : at(k) \in DOMAIN t
  <2>1. CASE playback
    BY <1>2, <2>1
  <2>2. CASE ~playback
    BY <1>2, <2>2
  <2> QED
    BY <2>1, <2>2
<1>4. n * Len(t) \in Nat
  BY <1>2
<1> HIDE DEF n
<1>5. \A k \in 1..(n * Len(t)) : what(k) \in {"header", "audio", "playback"}
  OBVIOUS
<1> HIDE DEF at, what
<1>6. \A k \in 1..(n * Len(t)) : Packet(t[at(k)], what(k)) \in Send
  <2> SUFFICES ASSUME NEW k \in 1..(n * Len(t))
               PROVE  Packet(t[at(k)], what(k)) \in Send
    OBVIOUS
  <2>1. t[at(k)] \in Player
    BY <1>3
  <2>2. t[at(k)].client \in Clients /\ t[at(k)].addr \in Addrs
    BY <2>1 DEF Player
  <2> QED
    BY <1>5, <2>2 DEF Packet, Send
<1>7. loop \in Seq(Send)
  BY <1>4, <1>6
<1>8. \A k \in DOMAIN loop : loop[k].to = t[at(k)].client
  BY DEF Packet
<1> QED
  BY <1>1, <1>3, <1>7, <1>8

LEMMA InitInv == Init => IInv
<1> SUFFICES ASSUME Init PROVE IInv
  OBVIOUS
<1>1. players = <<>> /\ DOMAIN players = {} /\ Len(players) = 0
  BY DEF Init
<1>2. TypeOK
  BY <1>1, Caps DEF Init, TypeOK, Silent, Output
<1>3. UniqueIds /\ AgesTrue /\ PingPending
  BY <1>1 DEF UniqueIds, AgesTrue, PingPending
<1>4. OneSamplePerPing
  BY DEF Init, OneSamplePerPing
<1>5. FreshRecipients
  BY DEF Init, FreshRecipients, Silent
<1>6. EdgePast
  BY DEF Init, EdgePast, PingCap
<1> QED
  BY <1>2, <1>3, <1>4, <1>5, <1>6 DEF IInv

LEMMA TickInv == IInv /\ Tick => IInv'
<1> SUFFICES ASSUME IInv, Tick PROVE IInv'
  OBVIOUS
<1> USE DEF IInv
<1>1. /\ players \in Seq(Player) /\ Len(players) \in Nat
      /\ DOMAIN players = 1..Len(players)
  BY DEF TypeOK
<1>2. players' \in Seq(Player) /\ Len(players') = Len(players)
  <2>1. \A i \in DOMAIN players :
          [players[i] EXCEPT !.age = Lesser(@ + 1, HeardCap)] \in Player
    BY <1>1, OlderPlayer
  <2> QED
    BY <1>1, <2>1 DEF Tick
<1>3. \A i \in DOMAIN players' :
        /\ i \in DOMAIN players
        /\ players'[i].client = players[i].client
        /\ players'[i].age = Lesser(players[i].age + 1, HeardCap)
        /\ players'[i].pinging = players[i].pinging
        /\ players[i] \in Player
  BY <1>1, <1>2, OlderPlayer DEF Tick
<1>4. TypeOK'
  <2>1. (out \in Output)'
    BY DEF Tick, Silent, Output
  <2>2. (heardAge \in [Clients -> 0..HeardCap])'
    BY Saturates, Caps DEF Tick, TypeOK
  <2>3. (pingAge \in 0..PingCap /\ edgeAge \in 0..PingCap)'
    BY Saturates, Caps DEF Tick, TypeOK
  <2>4. /\ waited' \in 0..RecvTimeout /\ roomPinging' = roomPinging
        /\ samples' = samples
    BY DEF Tick, TypeOK
  <2> QED
    BY <1>1, <1>2, <2>1, <2>2, <2>3, <2>4 DEF TypeOK
<1>5. UniqueIds'
  BY <1>3 DEF UniqueIds
<1>6. AgesTrue'
  <2>1. \A i \in DOMAIN players :
          /\ players[i].client \in Clients
          /\ players[i].age \in 0..HeardCap
    <3> SUFFICES ASSUME NEW i \in DOMAIN players
                 PROVE  players[i].client \in Clients
                        /\ players[i].age \in 0..HeardCap
      OBVIOUS
    <3>1. players[i] \in Player
      BY <1>1
    <3> QED
      BY <3>1 DEF Player
  <2>2. \A i \in DOMAIN players :
          Lesser(players[i].age + 1, HeardCap) <= players[i].age + 1
    BY <2>1, Saturates, Caps
  <2>3. /\ \A c \in Clients :
             heardAge'[c] = Lesser(heardAge[c] + 1, HeardCap)
        /\ waited' = waited + 1 /\ waited \in Nat
    BY DEF Tick, TypeOK
  <2> SUFFICES ASSUME NEW i \in DOMAIN players'
               PROVE  /\ players'[i].age = heardAge'[players'[i].client]
                      /\ players'[i].age <= Expiration + waited'
    BY DEF AgesTrue
  <2>4. /\ players[i].age = heardAge[players[i].client]
        /\ players[i].age <= Expiration + waited
    BY <1>3 DEF AgesTrue
  <2>5. players'[i].age = heardAge'[players'[i].client]
    BY <1>3, <2>1, <2>3, <2>4
  <2>6. players'[i].age <= players[i].age + 1 /\ players[i].age \in Int
        /\ players'[i].age \in Int
    BY <1>3, <2>1, <2>2, Saturates, Caps
  <2> QED
    BY <2>3, <2>4, <2>5, <2>6
<1>7. OneSamplePerPing' /\ PingPending'
  BY <1>3 DEF Tick, OneSamplePerPing, PingPending
<1>8. FreshRecipients'
  BY DEF FreshRecipients, Tick, Silent
<1>9. EdgePast'
  <2>1. /\ edgeAge' = edgeAge + 1 \/ edgeAge' = PingCap
        /\ pingAge' = pingAge + 1
           \/ (pingAge = PingCap /\ pingAge' = PingCap)
        /\ edgeAge' \in 0..PingCap /\ roomPinging' = roomPinging
    BY Saturates, Caps DEF Tick, TypeOK
  <2> QED
    BY <2>1 DEF EdgePast, TypeOK, PingCap
<1> QED
  BY <1>4, <1>5, <1>6, <1>7, <1>8, <1>9

LEMMA TimeoutInv == IInv /\ ReceiveTimeout => IInv'
<1> SUFFICES ASSUME IInv, ReceiveTimeout PROVE IInv'
  OBVIOUS
<1> USE DEF IInv
<1>1. players' \in Pruned /\ players \in Seq(Player)
  BY DEF ReceiveTimeout, TypeOK
<1>2. PICK f \in [DOMAIN players' -> DOMAIN players] :
        /\ \A i \in DOMAIN players' :
             players'[i] = players[f[i]] /\ players'[i].age <= Expiration
        /\ \A i, j \in DOMAIN players' : f[i] = f[j] => i = j
  BY <1>1, PrunedFacts
<1>3. /\ players' \in Seq(Player) /\ Len(players') \in Nat
      /\ Len(players') <= Len(players)
  BY <1>1, PrunedFacts
<1>4. TypeOK'
  BY <1>1, <1>3 DEF ReceiveTimeout, TypeOK, Silent, Output, history
<1>5. UniqueIds'
  BY <1>2 DEF UniqueIds
<1>6. AgesTrue'
  BY <1>2, <1>3 DEF AgesTrue, ReceiveTimeout, history
<1>7. OneSamplePerPing' /\ PingPending'
  BY <1>2 DEF OneSamplePerPing, PingPending, ReceiveTimeout, history
<1>8. FreshRecipients'
  BY DEF FreshRecipients, ReceiveTimeout, Silent
<1>9. EdgePast'
  BY DEF EdgePast, ReceiveTimeout, history
<1> QED
  BY <1>4, <1>5, <1>6, <1>7, <1>8, <1>9

(* A newcomer goes behind the pruned table, if it goes in at all.          *)
LEMMA NewcomerInv ==
  ASSUME IInv, NEW c \in Clients, NEW a \in Addrs, Newcomer(c, a)
  PROVE  IInv'
<1> USE DEF IInv
<1>1. PICK t \in Pruned :
        /\ ~Knows(t, c)
        /\ players' = IF HasSpace(t) THEN Append(t, NewPlayer(c, a)) ELSE t
  BY DEF Newcomer
<1>2. /\ out' = [from |-> {c}, channel |-> -1, stamped |-> FALSE,
                 sends |-> <<>>]
      /\ samples' = [samples EXCEPT ![c] = 0]
      /\ waited' = 0
      /\ heardAge' = [heardAge EXCEPT ![c] = 0]
      /\ UNCHANGED <<roomPinging, pingAge, edgeAge>>
  BY DEF Newcomer, Heard, Silent
<1>3. players \in Seq(Player)
  BY DEF TypeOK
<1>4. t \in Seq(Player) /\ Len(t) <= Len(players) /\ Len(t) \in Nat
  BY <1>3, PrunedFacts
<1>5. PICK f \in [DOMAIN t -> DOMAIN players] :
        /\ \A i \in DOMAIN t :
             t[i] = players[f[i]] /\ t[i].age <= Expiration
        /\ \A i, j \in DOMAIN t : f[i] = f[j] => i = j
  BY <1>3, PrunedFacts
<1>6. NewPlayer(c, a) \in Player
  BY Caps DEF NewPlayer, Player
<1>7. players' \in Seq(Player) /\ Len(players') \in Nat
  BY <1>1, <1>3, <1>4, <1>6
<1>8. \A i \in DOMAIN players' :
        \/ i \in DOMAIN t /\ players'[i] = t[i] /\ t[i].client # c
        \/ i = Len(t) + 1 /\ players'[i] = NewPlayer(c, a)
  BY <1>1, <1>4 DEF Knows
<1>9. \A i \in DOMAIN t : players[f[i]] \in Player /\ t[i] \in Player
  BY <1>3, <1>4, <1>5
<1>10. \A i \in DOMAIN t : t[i].client \in Clients
  BY <1>9 DEF Player
<1>11. /\ NewPlayer(c, a).client = c /\ NewPlayer(c, a).age = 0
       /\ NewPlayer(c, a).pinging = FALSE
  BY DEF NewPlayer
<1>12. TypeOK'
  BY <1>2, <1>7, Caps DEF TypeOK, Output
<1>13. UniqueIds'
  <2> SUFFICES ASSUME NEW i \in DOMAIN players', NEW j \in DOMAIN players',
                      players'[i].client = players'[j].client
               PROVE  i = j
    BY DEF UniqueIds
  <2>1. CASE i \in DOMAIN t /\ j \in DOMAIN t
    <3>1. /\ i # Len(t) + 1 /\ j # Len(t) + 1
          /\ players'[i] = players[f[i]] /\ players'[j] = players[f[j]]
      BY <1>4, <1>5, <1>8, <2>1
    <3> QED
      BY <1>5, <2>1, <3>1 DEF UniqueIds
  <2>2. CASE ~(i \in DOMAIN t /\ j \in DOMAIN t)
    BY <1>8, <1>11, <2>2
  <2> QED
    BY <2>1, <2>2
<1>14. AgesTrue'
  <2> SUFFICES ASSUME NEW i \in DOMAIN players'
               PROVE  /\ players'[i].age = heardAge'[players'[i].client]
                      /\ players'[i].age <= Expiration + waited'
    BY DEF AgesTrue
  <2>1. \A d \in Clients :
          heardAge'[d] = IF d = c THEN 0 ELSE heardAge[d]
    BY <1>2 DEF TypeOK
  <2>2. CASE i \in DOMAIN t /\ players'[i] = t[i] /\ t[i].client # c
    BY <1>2, <1>5, <1>10, <2>1, <2>2 DEF AgesTrue
  <2>3. CASE players'[i] = NewPlayer(c, a)
    BY <1>2, <1>11, <2>1, <2>3
  <2> QED
    BY <1>8, <2>2, <2>3
<1>15. OneSamplePerPing' /\ PingPending'
  <2>1. \A d \in Clients : samples'[d] = IF d = c THEN 0 ELSE samples[d]
    BY <1>2 DEF TypeOK
  <2>2. OneSamplePerPing'
    BY <2>1 DEF OneSamplePerPing
  <2>3. ASSUME NEW i \in DOMAIN players', players'[i].pinging
        PROVE  samples'[players'[i].client] = 0
    BY <1>5, <1>8, <1>10, <1>11, <2>1, <2>3 DEF PingPending
  <2> QED
    BY <2>2, <2>3 DEF PingPending
<1>16. FreshRecipients'
  BY <1>2 DEF FreshRecipients
<1>17. EdgePast'
  BY <1>2 DEF EdgePast
<1> QED
  BY <1>12, <1>13, <1>14, <1>15, <1>16, <1>17

(* updateChannel touches one entry, and only its KeepAlive and its ping.   *)
LEMMA RefreshFacts ==
  ASSUME NEW t \in Seq(Player), NEW i \in DOMAIN t, NEW echo \in Echoes
  PROVE  /\ Refresh(t, i, echo) \in Seq(Player)
         /\ Len(Refresh(t, i, echo)) = Len(t)
         /\ DOMAIN Refresh(t, i, echo) = DOMAIN t
         /\ \A j \in DOMAIN t :
              /\ Refresh(t, i, echo)[j].client = t[j].client
              /\ Refresh(t, i, echo)[j].age = IF j = i THEN 0 ELSE t[j].age
              /\ Refresh(t, i, echo)[j].pinging
                 <=> (t[j].pinging /\ (j = i => echo = NoStamp))
<1> DEFINE b == t[i].pinging /\ echo = NoStamp
           p == [t[i] EXCEPT !.age = 0, !.pinging = b]
<1>1. Refresh(t, i, echo) = [t EXCEPT ![i] = p]
  BY DEF Refresh
<1>2. t[i] \in Player
  OBVIOUS
<1>3. b \in BOOLEAN /\ (b <=> (t[i].pinging /\ echo = NoStamp))
  OBVIOUS
<1> HIDE DEF b
<1>4. 0 \in 0..HeardCap
  BY Caps
<1>5. /\ p \in Player /\ p.client = t[i].client /\ p.age = 0
      /\ p.pinging = b
  BY <1>2, <1>3, <1>4 DEF Player
<1> HIDE DEF p
<1>6. /\ Refresh(t, i, echo) \in Seq(Player)
      /\ Len(Refresh(t, i, echo)) = Len(t)
      /\ DOMAIN Refresh(t, i, echo) = DOMAIN t
      /\ \A j \in DOMAIN t :
           Refresh(t, i, echo)[j] = IF j = i THEN p ELSE t[j]
  BY <1>1, <1>5
<1>7. \A j \in DOMAIN t :
        /\ Refresh(t, i, echo)[j].client = t[j].client
        /\ Refresh(t, i, echo)[j].age = IF j = i THEN 0 ELSE t[j].age
        /\ Refresh(t, i, echo)[j].pinging
           <=> (t[j].pinging /\ (j = i => echo = NoStamp))
  <2> SUFFICES ASSUME NEW j \in DOMAIN t, NEW q,
                      q = Refresh(t, i, echo)[j]
               PROVE  /\ q.client = t[j].client
                      /\ q.age = IF j = i THEN 0 ELSE t[j].age
                      /\ q.pinging
                         <=> (t[j].pinging /\ (j = i => echo = NoStamp))
    OBVIOUS
  <2>1. CASE j = i
    <3>1. q = p
      BY <1>6, <2>1
    <3> QED
      BY <1>3, <1>5, <2>1, <3>1
  <2>2. CASE j # i
    <3>1. q = t[j]
      BY <1>6, <2>2
    <3> QED
      BY <2>2, <3>1
  <2> QED
    BY <2>1, <2>2
<1> QED
  BY <1>6, <1>7

LEMMA StartPingFacts ==
  ASSUME NEW t \in Seq(Player)
  PROVE  /\ StartPing(t) \in Seq(Player)
         /\ Len(StartPing(t)) = Len(t)
         /\ DOMAIN StartPing(t) = DOMAIN t
         /\ \A j \in DOMAIN t :
              /\ StartPing(t)[j].client = t[j].client
              /\ StartPing(t)[j].age = t[j].age
<1>1. ASSUME NEW j \in DOMAIN t
      PROVE  /\ [t[j] EXCEPT !.pinging = TRUE] \in Player
             /\ [t[j] EXCEPT !.pinging = TRUE].client = t[j].client
             /\ [t[j] EXCEPT !.pinging = TRUE].age = t[j].age
  <2>1. t[j] \in Player
    OBVIOUS
  <2> QED
    BY <2>1 DEF Player
<1> DEFINE up(j) == [t[j] EXCEPT !.pinging = TRUE]
<1>2. StartPing(t) = [j \in DOMAIN t |-> up(j)]
  BY DEF StartPing
<1> HIDE DEF up
<1>3. DOMAIN t = 1..Len(t) /\ Len(t) \in Nat
  OBVIOUS
<1>4. \A j \in DOMAIN t : up(j) \in Player
  BY <1>1 DEF up
<1>5. /\ StartPing(t) \in Seq(Player)
      /\ DOMAIN StartPing(t) = DOMAIN t
      /\ \A j \in DOMAIN t : StartPing(t)[j] = up(j)
  BY <1>2, <1>3, <1>4
<1>6. \A j \in DOMAIN t : /\ up(j).client = t[j].client
                          /\ up(j).age = t[j].age
  BY <1>1 DEF up
<1> QED
  BY <1>3, <1>5, <1>6

(* A player's packet refreshes its entry, may sample and end its ping, and *)
(* on a rising edge starts everybody's ping.                               *)
LEMMA ForwardInv ==
  ASSUME IInv, NEW c \in Clients, NEW a \in Addrs, NEW echo \in Echoes,
         NEW playback \in BOOLEAN, Forward(c, a, echo, playback)
  PROVE  IInv'
<1> USE DEF IInv
<1>0. PICK t \in Pruned : \E i \in DOMAIN t :
        /\ Position(t, c, i)
        /\ LET fresh == Refresh(t, i, echo)
               n == IF IsSample(t, i, echo) THEN Lesser(samples[c] + 1, 2)
                    ELSE samples[c]
           IN  /\ players' = IF RisingEdge THEN StartPing(fresh) ELSE fresh
               /\ samples' = IF RisingEdge THEN [d \in Clients |-> 0]
                             ELSE [samples EXCEPT ![c] = n]
               /\ out' = [from |-> {c}, channel |-> i - 1,
                          stamped |-> NextPinging,
                          sends |-> SendLoop(fresh, c, playback)]
  BY DEF Forward
<1>1. PICK i \in DOMAIN t :
        /\ Position(t, c, i)
        /\ players' = IF RisingEdge THEN StartPing(Refresh(t, i, echo))
                      ELSE Refresh(t, i, echo)
        /\ samples' = IF RisingEdge THEN [d \in Clients |-> 0]
                      ELSE [samples EXCEPT ![c] =
                              IF IsSample(t, i, echo)
                              THEN Lesser(samples[c] + 1, 2) ELSE samples[c]]
        /\ out' = [from |-> {c}, channel |-> i - 1, stamped |-> NextPinging,
                   sends |-> SendLoop(Refresh(t, i, echo), c, playback)]
  BY <1>0
<1>2. /\ edgeAge' = IF RisingEdge THEN 0 ELSE edgeAge
      /\ roomPinging' = NextPinging
      /\ pingAge' = NextPingAge
      /\ waited' = 0
      /\ heardAge' = [heardAge EXCEPT ![c] = 0]
  BY DEF Forward, Heard
<1>3. players \in Seq(Player)
  BY DEF TypeOK
<1>4. /\ t \in Seq(Player) /\ Len(t) <= Len(players) /\ Len(t) \in Nat
      /\ DOMAIN t = 1..Len(t)
  BY <1>3, PrunedFacts
<1>5. PICK f \in [DOMAIN t -> DOMAIN players] :
        /\ \A j \in DOMAIN t :
             t[j] = players[f[j]] /\ t[j].age <= Expiration
        /\ \A j, k \in DOMAIN t : f[j] = f[k] => j = k
  BY <1>3, PrunedFacts
<1>6. PICK fresh \in Seq(Player) :
        /\ fresh = Refresh(t, i, echo)
        /\ Len(fresh) = Len(t) /\ DOMAIN fresh = DOMAIN t
        /\ \A j \in DOMAIN t :
             /\ fresh[j].client = t[j].client
             /\ fresh[j].age = IF j = i THEN 0 ELSE t[j].age
             /\ fresh[j].pinging
                <=> (t[j].pinging /\ (j = i => echo = NoStamp))
  <2>1. t \in Seq(Player) /\ i \in DOMAIN t /\ echo \in Echoes
    BY <1>4
  <2> QED
    BY ONLY <2>1, RefreshFacts
<1>7. t[i].client = c
  BY <1>1 DEF Position
<1>8. /\ players' \in Seq(Player) /\ Len(players') = Len(t)
      /\ DOMAIN players' = DOMAIN t
      /\ \A j \in DOMAIN t : /\ players'[j].client = t[j].client
                             /\ players'[j].age = fresh[j].age
      /\ ~RisingEdge => players' = fresh
  <2>1. players' = IF RisingEdge THEN StartPing(fresh) ELSE fresh
    BY <1>1, <1>6
  <2> QED
    BY <1>6, <2>1, StartPingFacts
<1>9. \A j \in DOMAIN t : t[j].client \in Clients /\ t[j].age \in 0..HeardCap
  <2> SUFFICES ASSUME NEW j \in DOMAIN t
               PROVE  t[j].client \in Clients /\ t[j].age \in 0..HeardCap
    OBVIOUS
  <2>1. t[j] \in Player
    BY <1>4
  <2> QED
    BY <2>1 DEF Player
<1>10. \A j, k \in DOMAIN t : t[j].client = t[k].client => j = k
  BY <1>5 DEF UniqueIds
<1>11. \A d \in Clients : heardAge'[d] = IF d = c THEN 0 ELSE heardAge[d]
  BY <1>2 DEF TypeOK
<1>12. \A j \in DOMAIN t : t[j].age = heardAge[t[j].client]
  BY <1>5 DEF AgesTrue
<1>13. \A j \in DOMAIN t :
         /\ players'[j].age = heardAge'[t[j].client]
         /\ players'[j].age <= Expiration
  <2> SUFFICES ASSUME NEW j \in DOMAIN t
               PROVE  /\ players'[j].age = heardAge'[t[j].client]
                      /\ players'[j].age <= Expiration
    OBVIOUS
  <2>1. players'[j].age = IF j = i THEN 0 ELSE t[j].age
    BY <1>6, <1>8
  <2>2. j = i <=> t[j].client = c
    BY <1>7, <1>10
  <2>3. heardAge'[t[j].client] = IF t[j].client = c THEN 0
                                 ELSE heardAge[t[j].client]
    BY <1>9, <1>11
  <2>4. t[j].age = heardAge[t[j].client] /\ t[j].age <= Expiration
    BY <1>5, <1>12
  <2> QED
    BY <2>1, <2>2, <2>3, <2>4
<1>14. /\ out'.sends \in Seq(Send)
       /\ \A k \in DOMAIN out'.sends :
            \E j \in DOMAIN t : out'.sends[k].to = t[j].client
       /\ out' \in Output
  <2>1. out' = [from |-> {c}, channel |-> i - 1, stamped |-> NextPinging,
                sends |-> SendLoop(fresh, c, playback)]
    BY <1>1, <1>6
  <2>2. SendLoop(fresh, c, playback) \in Seq(Send)
    BY <1>6, SendLoopFacts
  <2>3. \A k \in DOMAIN SendLoop(fresh, c, playback) :
          \E j \in DOMAIN t :
            SendLoop(fresh, c, playback)[k].to = t[j].client
    <3>1. \A k \in DOMAIN SendLoop(fresh, c, playback) :
            \E j \in DOMAIN fresh :
              SendLoop(fresh, c, playback)[k].to = fresh[j].client
      <4>1. fresh \in Seq(Player) /\ playback \in BOOLEAN
        BY <1>6
      <4> QED
        BY ONLY <4>1, SendLoopFacts
    <3> QED
      BY <1>6, <3>1
  <2>4. i - 1 \in Int
    BY <1>4
  <2>5. NextPinging \in BOOLEAN
    BY DEF NextPinging, TypeOK
  <2> QED
    BY <2>1, <2>2, <2>3, <2>4, <2>5 DEF Output
<1>15. samples' \in [Clients -> 0..2]
       /\ \A d \in Clients :
            samples'[d] = IF RisingEdge THEN 0
                          ELSE IF d = c /\ IsSample(t, i, echo)
                          THEN Lesser(samples[c] + 1, 2) ELSE samples[d]
  <2>1. Lesser(samples[c] + 1, 2) \in 0..2
    BY Saturates DEF TypeOK
  <2>2. samples \in [Clients -> 0..2]
    BY DEF TypeOK
  <2>3. CASE RisingEdge
    BY <1>1, <2>3
  <2>4. CASE ~RisingEdge
    BY <1>1, <2>1, <2>2, <2>4
  <2> QED
    BY <2>3, <2>4
<1>16. TypeOK'
  <2>1. pingAge' \in 0..PingCap /\ edgeAge' \in 0..PingCap
        /\ roomPinging' \in BOOLEAN /\ waited' \in 0..RecvTimeout
    <3>1. pingAge' = pingAge \/ pingAge' = 0
      BY <1>2 DEF NextPingAge
    <3>2. edgeAge' = edgeAge \/ edgeAge' = 0
      BY <1>2
    <3>3. roomPinging' \in BOOLEAN
      BY <1>2 DEF NextPinging, TypeOK
    <3> QED
      BY <1>2, <3>1, <3>2, <3>3, Caps DEF TypeOK
  <2>2. heardAge' \in [Clients -> 0..HeardCap]
    BY <1>2, Caps DEF TypeOK
  <2> QED
    BY <1>8, <1>14, <1>15, <2>1, <2>2 DEF TypeOK
<1>17. UniqueIds'
  BY <1>8, <1>10 DEF UniqueIds
<1>18. AgesTrue'
  BY <1>2, <1>8, <1>13 DEF AgesTrue
<1>19. FreshRecipients'
  BY <1>13, <1>14 DEF FreshRecipients
<1>20. IsSample(t, i, echo) => samples[c] = 0 /\ echo # NoStamp
  BY <1>5, <1>7 DEF IsSample, PingPending, NoStamp
<1>21. OneSamplePerPing' /\ PingPending'
  <2>1. CASE RisingEdge
    BY <1>8, <1>9, <1>15, <2>1 DEF OneSamplePerPing, PingPending
  <2>2. CASE ~RisingEdge
    <3>1. OneSamplePerPing'
      <4>1. Lesser(0 + 1, 2) = 1
        BY DEF Lesser
      <4> QED
        BY <1>15, <1>20, <2>2, <4>1 DEF OneSamplePerPing
    <3>2. ASSUME NEW j \in DOMAIN players', players'[j].pinging
          PROVE  samples'[players'[j].client] = 0
      <4>1. t[j].pinging /\ (j = i => echo = NoStamp)
        BY <1>6, <1>8, <2>2, <3>2
      <4>2. samples[t[j].client] = 0
        BY <1>5, <1>8, <4>1 DEF PingPending
      <4>3. ~(t[j].client = c /\ IsSample(t, i, echo))
        BY <1>7, <1>8, <1>10, <1>20, <4>1
      <4> QED
        BY <1>8, <1>9, <1>15, <2>2, <4>2, <4>3
    <3> QED
      BY <3>1, <3>2 DEF PingPending
  <2> QED
    BY <2>1, <2>2
<1>22. EdgePast'
  BY <1>2 DEF EdgePast, RisingEdge, NextPinging, NextPingAge, TypeOK, PingCap
<1> QED
  BY <1>16, <1>17, <1>18, <1>19, <1>21, <1>22

-----------------------------------------------------------------------------
(* IInv is inductive.                                                      *)
THEOREM Invariance == Spec => []IInv
<1>1. Init => IInv
  BY InitInv
<1>2. IInv /\ [Next]_vars => IInv'
  <2> SUFFICES ASSUME IInv, [Next]_vars PROVE IInv'
    OBVIOUS
  <2>1. ASSUME NEW c \in Clients, NEW a \in Addrs, Newcomer(c, a)
        PROVE  IInv'
    BY <2>1, NewcomerInv
  <2>2. ASSUME NEW c \in Clients, NEW a \in Addrs, NEW echo \in Echoes,
               NEW playback \in BOOLEAN, Forward(c, a, echo, playback)
        PROVE  IInv'
    BY <2>2, ForwardInv
  <2>3. CASE ReceiveTimeout
    BY <2>3, TimeoutInv
  <2>4. CASE Tick
    BY <2>4, TickInv
  <2>5. CASE UNCHANGED vars
    BY <2>5 DEF vars, serverVars, history, IInv, TypeOK, UniqueIds, AgesTrue,
                OneSamplePerPing, PingPending, FreshRecipients, EdgePast
  <2> QED
    BY <2>1, <2>2, <2>3, <2>4, <2>5 DEF Next
<1> QED
  BY <1>1, <1>2, PTL DEF Spec

(* Every variable keeps its type, however many players the room takes.     *)
THEOREM TypeCorrect == Spec => []TypeOK
<1>1. IInv => TypeOK
  BY DEF IInv
<1> QED
  BY <1>1, Invariance, PTL

(* No client ever occupies two places of the table.                        *)
THEOREM IdsUnique == Spec => []UniqueIds
<1>1. IInv => UniqueIds
  BY DEF IInv
<1> QED
  BY <1>1, Invariance, PTL

(* The server sends to nobody whose last packet has expired.               *)
THEOREM SentToFreshOnly == Spec => []FreshRecipients
<1>1. IInv => FreshRecipients
  BY DEF IInv
<1> QED
  BY <1>1, Invariance, PTL

(* No player's latency is sampled twice for one ping.                      *)
THEOREM SampledOnce == Spec => []OneSamplePerPing
<1>1. IInv => OneSamplePerPing
  BY DEF IInv
<1> QED
  BY <1>1, Invariance, PTL

(* Ping windows never open as close as the period less a window.           *)
THEOREM PingsApart == Spec => PingEdgesApart
<1>1. IInv /\ [Next]_vars
      => [edgeAge' = 0 /\ edgeAge # 0 => edgeAge > PingPeriod - PingWindow]_vars
  <2> SUFFICES ASSUME IInv, Next, edgeAge' = 0, edgeAge # 0
               PROVE  edgeAge > PingPeriod - PingWindow
    BY DEF vars
  <2>1. ASSUME NEW c \in Clients, NEW a \in Addrs, Newcomer(c, a)
        PROVE  FALSE
    BY <2>1 DEF Newcomer
  <2>2. ASSUME NEW c \in Clients, NEW a \in Addrs, NEW echo \in Echoes,
               NEW playback \in BOOLEAN, Forward(c, a, echo, playback)
        PROVE  RisingEdge
    BY <2>2 DEF Forward
  <2>3. ReceiveTimeout => FALSE
    BY DEF ReceiveTimeout, history
  <2>4. Tick => FALSE
    <3> SUFFICES ASSUME Tick PROVE FALSE
      OBVIOUS
    <3>1. edgeAge' = Lesser(edgeAge + 1, PingCap) /\ edgeAge \in 0..PingCap
      BY DEF Tick, IInv, TypeOK
    <3>2. PingCap \in Nat \ {0}
      BY DEF PingCap
    <3> QED
      BY <3>1, <3>2, Saturates
  <2>5. RisingEdge
    BY <2>1, <2>2, <2>3, <2>4 DEF Next
  <2> QED
    BY <2>5 DEF RisingEdge, IInv, EdgePast, TypeOK
<1> QED
  BY <1>1, Invariance, PTL DEF Spec, PingEdgesApart

-----------------------------------------------------------------------------
(* The refinement of Room.  What the abstract room sees of a table (who is *)
(* in it, and in which order) and of what a run sends.                     *)
MembersOf(t) == {t[i].client : i \in DOMAIN t}
AheadOf(t) ==
  {q \in Clients \X Clients :
     \E i, j \in DOMAIN t :
       i < j /\ t[i].client = q[1] /\ t[j].client = q[2]}
Stay == Members \cap Lately
SentIn(sends, c, what) ==
  Cardinality({k \in DOMAIN sends :
                 sends[k].to = c /\ sends[k].what = what})
MailOf(sends) ==
  [c \in Clients |->
     [header |-> SentIn(sends, c, "header"),
      audio |-> SentIn(sends, c, "audio"),
      playback |-> SentIn(sends, c, "playback")]]

LEMMA PlayerFields ==
  ASSUME NEW t \in Seq(Player), NEW i \in DOMAIN t
  PROVE  t[i].client \in Clients /\ t[i].age \in 0..HeardCap
<1>1. t[i] \in Player
  OBVIOUS
<1> QED
  BY <1>1 DEF Player

(* The pruned table is the room of those who stay, in the order it was in. *)
LEMMA PrunedIsStaying ==
  ASSUME IInv, NEW t \in Pruned
  PROVE  /\ t \in Seq(Player) /\ Len(t) \in Nat
         /\ \A i, j \in DOMAIN t : t[i].client = t[j].client => i = j
         /\ MembersOf(t) = Stay
         /\ AheadOf(t) = Ahead \cap (Stay \X Stay)
<1>1. players \in Seq(Player)
  BY DEF IInv, TypeOK
<1>2. t \in Seq(Player) /\ Len(t) \in Nat
  BY <1>1, PrunedFacts
<1>3. PICK f \in [DOMAIN t -> DOMAIN players] :
        /\ \A i \in DOMAIN t : t[i] = players[f[i]] /\ t[i].age <= Expiration
        /\ \A i, j \in DOMAIN t : f[i] = f[j] => i = j
        /\ \A i, j \in DOMAIN t : i < j => f[i] < f[j]
        /\ \A j \in DOMAIN players :
             players[j].age <= Expiration => \E i \in DOMAIN t : f[i] = j
  BY <1>1, PrunedFacts
<1>4. \A i, j \in DOMAIN players :
        players[i].client = players[j].client => i = j
  BY DEF IInv, UniqueIds
<1>5. \A i \in DOMAIN players :
        /\ players[i].client \in Clients
        /\ players[i].age = heardAge[players[i].client]
  BY <1>1, PlayerFields DEF IInv, AgesTrue
<1>6. \A i \in DOMAIN players :
        players[i].client \in Lately <=> players[i].age <= Expiration
  BY <1>5 DEF Lately
<1>7. MembersOf(t) = Stay
  <2>1. ASSUME NEW i \in DOMAIN t PROVE t[i].client \in Stay
    BY <1>3, <1>6 DEF Stay, Members
  <2>2. ASSUME NEW j \in DOMAIN players, players[j].client \in Lately
        PROVE  players[j].client \in MembersOf(t)
    BY <1>3, <1>6, <2>2 DEF MembersOf
  <2> QED
    BY <2>1, <2>2 DEF MembersOf, Stay, Members
<1>8. \A i, j \in DOMAIN t : t[i].client = t[j].client => i = j
  BY <1>3, <1>4
<1>9. AheadOf(t) = Ahead \cap (Stay \X Stay)
  <2>1. ASSUME NEW q \in AheadOf(t)
        PROVE  q \in Ahead /\ q \in Stay \X Stay
    <3>1. PICK i, j \in DOMAIN t :
            i < j /\ t[i].client = q[1] /\ t[j].client = q[2]
      BY DEF AheadOf
    <3>2. q \in Clients \X Clients
      BY DEF AheadOf
    <3>3. q[1] \in Stay /\ q[2] \in Stay
      BY <1>7, <3>1 DEF MembersOf
    <3>4. /\ f[i] \in DOMAIN players /\ f[j] \in DOMAIN players
          /\ f[i] < f[j]
          /\ players[f[i]].client = q[1] /\ players[f[j]].client = q[2]
      BY <1>3, <3>1
    <3> QED
      BY <3>2, <3>3, <3>4 DEF Ahead
  <2>2. ASSUME NEW q \in Ahead, q \in Stay \X Stay
        PROVE  q \in AheadOf(t)
    <3>1. PICK i, j \in DOMAIN players :
            i < j /\ players[i].client = q[1] /\ players[j].client = q[2]
      BY DEF Ahead
    <3>2. q \in Clients \X Clients
      BY DEF Ahead
    <3>3. q[1] \in Lately /\ q[2] \in Lately
      BY <2>2 DEF Stay
    <3>4. PICK k \in DOMAIN t : f[k] = i
      BY <1>3, <1>6, <3>1, <3>3
    <3>5. PICK l \in DOMAIN t : f[l] = j
      BY <1>3, <1>6, <3>1, <3>3
    <3>6. k \in Nat /\ l \in Nat /\ i \in Nat /\ j \in Nat
      BY <1>1, <1>2
    <3>7. k < l
      BY <1>3, <3>1, <3>4, <3>5, <3>6
    <3> QED
      BY <1>3, <3>1, <3>2, <3>4, <3>5, <3>7 DEF AheadOf
  <2> QED
    BY <2>1, <2>2
<1> QED
  BY <1>2, <1>7, <1>8, <1>9

(* A table in which no client is twice has as many players as members.     *)
LEMMA CountMembers ==
  ASSUME NEW t \in Seq(Player),
         \A i, j \in DOMAIN t : t[i].client = t[j].client => i = j
  PROVE  Cardinality(MembersOf(t)) = Len(t)
<1> DEFINE g == [i \in 1..Len(t) |-> t[i].client]
<1>1. Len(t) \in Nat /\ DOMAIN t = 1..Len(t)
  OBVIOUS
<1>2. g \in Bijection(1..Len(t), MembersOf(t))
  <2>1. g \in [1..Len(t) -> MembersOf(t)]
    BY <1>1 DEF MembersOf
  <2>2. \A i, j \in 1..Len(t) : g[i] = g[j] => i = j
    BY <1>1
  <2>3. \A c \in MembersOf(t) : \E i \in 1..Len(t) : g[i] = c
    BY <1>1 DEF MembersOf
  <2> QED
    BY <2>1, <2>2, <2>3 DEF Bijection, Injection, Surjection, IsInjective
<1>3. ExistsBijection(1..Len(t), MembersOf(t))
  BY <1>2 DEF ExistsBijection
<1> QED
  BY <1>1, <1>3, FS_CountingElements

(* A run that sends nothing.                                               *)
LEMMA SendsNothing == MailOf(<<>>) = Abstract!Nobody
<1>1. \A c, what : SentIn(<<>>, c, what) = 0
  BY FS_EmptySet DEF SentIn
<1> QED
  BY <1>1 DEF MailOf, Abstract!Nobody

(* The send loop serves every player of the table once, and once more when *)
(* there is a playback packet; the sender gets the header.                 *)
LEMMA SendLoopCounts ==
  ASSUME NEW t \in Seq(Player), NEW c, NEW playback \in BOOLEAN, NEW sends,
         \A i, j \in DOMAIN t : t[i].client = t[j].client => i = j,
         sends = SendLoop(t, c, playback)
  PROVE  \A d \in Clients :
           /\ SentIn(sends, d, "header") = IF d = c /\ d \in MembersOf(t) THEN 1 ELSE 0
           /\ SentIn(sends, d, "audio") = IF d # c /\ d \in MembersOf(t) THEN 1 ELSE 0
           /\ SentIn(sends, d, "playback")
                = IF playback /\ d \in MembersOf(t) THEN 1 ELSE 0
<1> DEFINE At(d, what) == {k \in DOMAIN sends :
                             sends[k].to = d /\ sends[k].what = what}
<1>1. Len(t) \in Nat /\ DOMAIN t = 1..Len(t)
  OBVIOUS
<1>2. \A d, what : SentIn(sends, d, what) = Cardinality(At(d, what))
  BY DEF SentIn
<1>3. ASSUME NEW d, NEW what, At(d, what) = {}
      PROVE  SentIn(sends, d, what) = 0
  BY <1>2, <1>3, FS_EmptySet
<1>4. ASSUME NEW d, NEW what, NEW k, At(d, what) = {k}
      PROVE  SentIn(sends, d, what) = 1
  <2>1. Cardinality({k}) = 1
    BY FS_Singleton
  <2> HIDE DEF At
  <2> QED
    BY <1>2, <1>4, <2>1
<1>5. CASE ~playback
  <2>1. /\ DOMAIN sends = DOMAIN t
        /\ \A k \in DOMAIN t :
             /\ sends[k].to = t[k].client
             /\ sends[k].what = IF t[k].client = c THEN "header" ELSE "audio"
    <3>1. sends = [k \in 1..(1 * Len(t)) |->
             LET p == t[((k - 1) \div 1) + 1]
             IN  Packet(p, IF (k - 1) % 1 = 1 THEN "playback"
                           ELSE IF p.client = c THEN "header" ELSE "audio")]
      BY <1>5 DEF SendLoop
    <3>2. \A k \in 1..Len(t) : ((k - 1) \div 1) + 1 = k /\ (k - 1) % 1 = 0
      BY <1>1
    <3>3. 1 * Len(t) = Len(t)
      <4>1. \A n \in Nat : 1 * n = n
        OBVIOUS
      <4> QED
        BY <1>1, <4>1
    <3>4. sends = [k \in 1..Len(t) |->
             Packet(t[k], IF t[k].client = c THEN "header" ELSE "audio")]
      BY <3>1, <3>2, <3>3
    <3> QED
      BY <1>1, <3>4 DEF Packet
  <2>2. ASSUME NEW d \in Clients, NEW i \in DOMAIN t, t[i].client = d
        PROVE  /\ At(d, IF d = c THEN "header" ELSE "audio") = {i}
               /\ At(d, IF d = c THEN "audio" ELSE "header") = {}
               /\ At(d, "playback") = {}
    BY <2>1, <2>2
  <2>3. ASSUME NEW d \in Clients, NEW what, d \notin MembersOf(t)
        PROVE  At(d, what) = {}
    BY <2>1, <2>3 DEF MembersOf
  <2> HIDE DEF At
  <2> SUFFICES ASSUME NEW d \in Clients
               PROVE
           /\ SentIn(sends, d, "header") = IF d = c /\ d \in MembersOf(t) THEN 1 ELSE 0
           /\ SentIn(sends, d, "audio") = IF d # c /\ d \in MembersOf(t) THEN 1 ELSE 0
           /\ SentIn(sends, d, "playback") = 0
    BY <1>5
  <2>4. CASE d \in MembersOf(t)
    <3>1. PICK i \in DOMAIN t : t[i].client = d
      BY <2>4 DEF MembersOf
    <3> QED
      BY <1>3, <1>4, <2>2, <2>4, <3>1
  <2> QED
    BY <1>3, <2>3, <2>4
<1>6. CASE playback
  <2>1. /\ DOMAIN sends = 1..(2 * Len(t))
        /\ \A i \in DOMAIN t :
             /\ sends[2 * i - 1].to = t[i].client
             /\ sends[2 * i - 1].what
                  = IF t[i].client = c THEN "header" ELSE "audio"
             /\ sends[2 * i].to = t[i].client
             /\ sends[2 * i].what = "playback"
    <3> DEFINE at(k) == ((k - 1) \div 2) + 1
               odd(k) == (k - 1) % 2 = 1
    <3>1. sends = [k \in 1..(2 * Len(t)) |->
             Packet(t[at(k)], IF odd(k) THEN "playback"
                              ELSE IF t[at(k)].client = c THEN "header"
                              ELSE "audio")]
      BY <1>6 DEF SendLoop
    <3>2. \A n \in Nat : \A i \in 1..n :
            /\ 2 * i - 1 \in 1..(2 * n) /\ 2 * i \in 1..(2 * n)
            /\ at(2 * i - 1) = i /\ ~odd(2 * i - 1)
            /\ at(2 * i) = i /\ odd(2 * i)
      OBVIOUS
    <3> HIDE DEF at, odd
    <3>3. \A i \in DOMAIN t :
            /\ sends[2 * i - 1]
                 = Packet(t[i], IF t[i].client = c THEN "header" ELSE "audio")
            /\ sends[2 * i] = Packet(t[i], "playback")
      BY <1>1, <3>1, <3>2
    <3>4. \A p, what : Packet(p, what).to = p.client
                        /\ Packet(p, what).what = what
      BY DEF Packet
    <3>5. DOMAIN sends = 1..(2 * Len(t))
      BY <3>1
    <3>6. \A i \in DOMAIN t :
            /\ sends[2 * i - 1].to = t[i].client
            /\ sends[2 * i - 1].what
                 = IF t[i].client = c THEN "header" ELSE "audio"
            /\ sends[2 * i].to = t[i].client
            /\ sends[2 * i].what = "playback"
      BY <3>3, <3>4
    <3> QED
      BY <3>5, <3>6
  <2>5. DOMAIN sends = 1..(2 * Len(t))
    BY <2>1
  <2>2. \A k \in DOMAIN sends :
          \E i \in DOMAIN t : k = 2 * i - 1 \/ k = 2 * i
    <3> SUFFICES ASSUME NEW k \in 1..(2 * Len(t))
                 PROVE  \E i \in 1..Len(t) : k = 2 * i - 1 \/ k = 2 * i
      BY <1>1, <2>5
    <3>1. ((k + 1) \div 2) \in 1..Len(t)
      BY <1>1
    <3>2. k = 2 * ((k + 1) \div 2) - 1 \/ k = 2 * ((k + 1) \div 2)
      OBVIOUS
    <3> QED
      BY <3>1, <3>2
  <2>3. ASSUME NEW d \in Clients, NEW i \in DOMAIN t, t[i].client = d
        PROVE  /\ At(d, IF d = c THEN "header" ELSE "audio") = {2 * i - 1}
               /\ At(d, IF d = c THEN "audio" ELSE "header") = {}
               /\ At(d, "playback") = {2 * i}
    <3>1. 2 * i - 1 \in DOMAIN sends /\ 2 * i \in DOMAIN sends
      BY <1>1, <2>5
    <3>2. ASSUME NEW k \in DOMAIN sends, sends[k].to = d
          PROVE  k = 2 * i - 1 \/ k = 2 * i
      <4>1. PICK j \in DOMAIN t : k = 2 * j - 1 \/ k = 2 * j
        BY <2>2
      <4>2. sends[k].to = t[j].client
        BY <2>1, <4>1
      <4> QED
        BY <2>3, <3>2, <4>1, <4>2
    <3>3. /\ sends[2 * i - 1].to = d /\ sends[2 * i].to = d
          /\ sends[2 * i - 1].what = IF d = c THEN "header" ELSE "audio"
          /\ sends[2 * i].what = "playback"
          /\ 2 * i - 1 # 2 * i
      BY <1>1, <2>1, <2>3
    <3> QED
      BY <3>1, <3>2, <3>3
  <2>4. ASSUME NEW d \in Clients, NEW what, d \notin MembersOf(t)
        PROVE  At(d, what) = {}
    <3>1. ASSUME NEW k \in DOMAIN sends
          PROVE  sends[k].to \in MembersOf(t)
      <4>1. PICK i \in DOMAIN t : k = 2 * i - 1 \/ k = 2 * i
        BY <2>2
      <4>2. sends[k].to = t[i].client
        BY <2>1, <4>1
      <4> QED
        BY <4>2 DEF MembersOf
    <3> QED
      BY <2>4, <3>1
  <2> HIDE DEF At
  <2> SUFFICES ASSUME NEW d \in Clients
               PROVE
           /\ SentIn(sends, d, "header") = IF d = c /\ d \in MembersOf(t) THEN 1 ELSE 0
           /\ SentIn(sends, d, "audio") = IF d # c /\ d \in MembersOf(t) THEN 1 ELSE 0
           /\ SentIn(sends, d, "playback") = IF d \in MembersOf(t) THEN 1 ELSE 0
    BY <1>6
  <2>6. CASE d \in MembersOf(t)
    <3>1. PICK i \in DOMAIN t : t[i].client = d
      BY <2>6 DEF MembersOf
    <3> QED
      BY <1>3, <1>4, <2>3, <2>6, <3>1
  <2> QED
    BY <1>3, <2>4, <2>6
<1> QED
  BY <1>5, <1>6

(* The mapping, before and after a step.                                   *)
LEMMA Mapping ==
  /\ Members = MembersOf(players) /\ Members' = MembersOf(players')
  /\ Ahead = AheadOf(players) /\ Ahead' = AheadOf(players')
  /\ Mail = MailOf(out.sends) /\ Mail' = MailOf(out'.sends)
BY DEF Members, MembersOf, Ahead, AheadOf, Mail, MailOf, Sent, SentIn

(* Two tables with the same clients at the same places.                    *)
LEMMA SameClients ==
  ASSUME NEW t, NEW u, DOMAIN u = DOMAIN t,
         \A i \in DOMAIN t : u[i].client = t[i].client
  PROVE  MembersOf(u) = MembersOf(t) /\ AheadOf(u) = AheadOf(t)
BY DEF MembersOf, AheadOf

(* The server starts with an empty room.                                   *)
LEMMA InitIsEmptyRoom == Init => Abstract!RoomInit
<1> SUFFICES ASSUME Init PROVE Abstract!RoomInit
  OBVIOUS
<1>1. Members = {} /\ Ahead = {}
  BY DEF Init, Members, Ahead
<1>2. Lately = {}
  <2>1. ~(HeardCap <= Expiration)
    BY DEF HeardCap
  <2> QED
    BY <2>1 DEF Init, Lately
<1>3. Mail = Abstract!Nobody
  BY Mapping, SendsNothing DEF Init, Silent
<1> QED
  BY <1>1, <1>2, <1>3 DEF Abstract!RoomInit

(* The instance of Room brings its own Cardinality: it is the same.        *)
LEMMA SameCardinality ==
  \A S : Abstract!Cardinality(S) = Cardinality(S)
BY DEF Cardinality, Abstract!Cardinality

(* Who stays, in the abstract room's words.                                *)
LEMMA StayIsStaying ==
  Abstract!Staying = Stay /\ Abstract!Line(Stay) = Ahead \cap (Stay \X Stay)
BY DEF Abstract!Staying, Abstract!Line, Stay

(* A newcomer takes a free seat, behind those who stay.                    *)
LEMMA NewcomerEnters ==
  ASSUME IInv, NEW c \in Clients, NEW a \in Addrs, Newcomer(c, a)
  PROVE  Abstract!Enter(c)
<1>1. PICK t \in Pruned :
        /\ ~Knows(t, c)
        /\ players' = IF HasSpace(t) THEN Append(t, NewPlayer(c, a)) ELSE t
  BY DEF Newcomer
<1>2. /\ t \in Seq(Player) /\ Len(t) \in Nat
      /\ \A i, j \in DOMAIN t : t[i].client = t[j].client => i = j
      /\ MembersOf(t) = Stay
      /\ AheadOf(t) = Ahead \cap (Stay \X Stay)
  BY PrunedIsStaying
<1>3. c \notin Stay
  BY <1>1, <1>2 DEF Knows, MembersOf
<1>4. Cardinality(Stay) = Len(t)
  BY <1>2, CountMembers
<1>5. HasSpace(t) <=> Cardinality(Stay) < RoomSize + 1
  BY <1>2, <1>4 DEF HasSpace
<1>6. ASSUME HasSpace(t)
      PROVE  /\ Members' = Stay \cup {c}
             /\ Ahead' = (Ahead \cap (Stay \X Stay)) \cup (Stay \X {c})
  <2>1. players' = Append(t, NewPlayer(c, a))
    BY <1>1, <1>6
  <2>2. DOMAIN t = 1..Len(t) /\ NewPlayer(c, a).client = c
    BY <1>2 DEF NewPlayer
  <2>3. /\ DOMAIN players' = 1..(Len(t) + 1)
        /\ \A i \in 1..Len(t) : players'[i] = t[i]
        /\ players'[Len(t) + 1].client = c
    BY <1>2, <2>1, <2>2
  <2>4. MembersOf(players') = Stay \cup {c}
    <3>1. MembersOf(players') = MembersOf(t) \cup {c}
      BY <1>2, <2>2, <2>3 DEF MembersOf
    <3> QED
      BY <1>2, <3>1
  <2>5. \A i \in 1..Len(t) : t[i].client \in Clients /\ t[i].client # c
    BY <1>1, <1>2, <2>2, PlayerFields DEF Knows
  <2>6. AheadOf(players') = AheadOf(t) \cup (Stay \X {c})
    <3>1. ASSUME NEW q \in AheadOf(players')
          PROVE  q \in AheadOf(t) \cup (Stay \X {c})
      <4>1. q \in Clients \X Clients
        BY DEF AheadOf
      <4>2. PICK i, j \in 1..(Len(t) + 1) :
              /\ i < j /\ players'[i].client = q[1] /\ players'[j].client = q[2]
        BY <2>3 DEF AheadOf
      <4>3. i \in 1..Len(t) /\ t[i].client = q[1]
        BY <1>2, <2>3, <4>2
      <4>4. CASE j \in 1..Len(t)
        <5>1. t[j].client = q[2]
          BY <2>3, <4>2, <4>4
        <5> QED
          BY <2>2, <4>1, <4>2, <4>3, <4>4, <5>1 DEF AheadOf
      <4>5. CASE j = Len(t) + 1
        <5>1. q[2] = c
          BY <2>3, <4>2, <4>5
        <5>2. q[1] \in Stay
          BY <1>2, <2>2, <4>3 DEF MembersOf
        <5> QED
          BY <4>1, <5>1, <5>2
      <4> QED
        BY <1>2, <4>4, <4>5
    <3>2. ASSUME NEW q \in AheadOf(t)
          PROVE  q \in AheadOf(players')
      BY <1>2, <2>2, <2>3 DEF AheadOf
    <3>3. ASSUME NEW q \in Stay \X {c}
          PROVE  q \in AheadOf(players')
      <4>1. PICK i \in 1..Len(t) : t[i].client = q[1]
        BY <1>2, <2>2 DEF MembersOf
      <4>2. q \in Clients \X Clients /\ q[2] = c
        BY <2>5, <4>1
      <4>3. i \in 1..(Len(t) + 1) /\ Len(t) + 1 \in 1..(Len(t) + 1)
            /\ i < Len(t) + 1
        BY <1>2
      <4> QED
        BY <2>3, <4>1, <4>2, <4>3 DEF AheadOf
    <3> QED
      BY <3>1, <3>2, <3>3
  <2> QED
    BY <1>2, <2>4, <2>6, Mapping
<1>7. ASSUME ~HasSpace(t)
      PROVE  Members' = Stay /\ Ahead' = Ahead \cap (Stay \X Stay)
  BY <1>1, <1>2, <1>7, Mapping
<1>8. Lately' = Lately \cup {c}
  <2>1. heardAge' = [heardAge EXCEPT ![c] = 0] /\ DOMAIN heardAge = Clients
    BY DEF Newcomer, Heard, IInv, TypeOK
  <2>2. \A d \in Clients : heardAge'[d] = IF d = c THEN 0 ELSE heardAge[d]
    BY <2>1
  <2> QED
    BY <2>2 DEF Lately
<1>9. Mail' = Abstract!Nobody
  BY Mapping, SendsNothing DEF Newcomer, Silent
<1>10. /\ c \notin Abstract!Staying
       /\ Lately' = Lately \cup {c}
       /\ Mail' = Abstract!Nobody
  BY <1>3, <1>8, <1>9, StayIsStaying
<1>11. ASSUME Abstract!Cardinality(Abstract!Staying) < RoomSize + 1
       PROVE  /\ Members' = Abstract!Staying \cup {c}
              /\ Ahead' = Abstract!Line(Abstract!Staying)
                           \cup (Abstract!Staying \X {c})
  BY <1>5, <1>6, <1>11, StayIsStaying, SameCardinality
<1>12. ASSUME ~(Abstract!Cardinality(Abstract!Staying) < RoomSize + 1)
       PROVE  /\ Members' = Abstract!Staying
              /\ Ahead' = Abstract!Line(Abstract!Staying)
  BY <1>5, <1>7, <1>12, StayIsStaying, SameCardinality
<1> QED
  BY <1>10, <1>11, <1>12 DEF Abstract!Enter

(* A player's packet is the member speaking to the room.                   *)
LEMMA ForwardSpeaks ==
  ASSUME IInv, NEW c \in Clients, NEW a \in Addrs, NEW echo \in Echoes,
         NEW playback \in BOOLEAN, Forward(c, a, echo, playback)
  PROVE  Abstract!Speak(c, playback)
<1>1. PICK t \in Pruned : \E i \in DOMAIN t :
        /\ Position(t, c, i)
        /\ players' = IF RisingEdge THEN StartPing(Refresh(t, i, echo))
                      ELSE Refresh(t, i, echo)
        /\ out'.sends = SendLoop(Refresh(t, i, echo), c, playback)
  BY DEF Forward
<1>2. PICK i \in DOMAIN t :
        /\ Position(t, c, i)
        /\ players' = IF RisingEdge THEN StartPing(Refresh(t, i, echo))
                      ELSE Refresh(t, i, echo)
        /\ out'.sends = SendLoop(Refresh(t, i, echo), c, playback)
  BY <1>1
<1> DEFINE fresh == Refresh(t, i, echo)
<1>3. /\ t \in Seq(Player) /\ Len(t) \in Nat
      /\ \A j, k \in DOMAIN t : t[j].client = t[k].client => j = k
      /\ MembersOf(t) = Stay
      /\ AheadOf(t) = Ahead \cap (Stay \X Stay)
  BY PrunedIsStaying
<1>4. /\ fresh \in Seq(Player) /\ DOMAIN fresh = DOMAIN t
      /\ \A j \in DOMAIN t : fresh[j].client = t[j].client
  BY <1>3, RefreshFacts
<1>5. /\ DOMAIN players' = DOMAIN t
      /\ \A j \in DOMAIN t : players'[j].client = t[j].client
  BY <1>2, <1>4, StartPingFacts
<1> HIDE DEF fresh
<1>6. MembersOf(fresh) = Stay
  BY <1>3, <1>4, SameClients
<1>7. Members' = Stay /\ Ahead' = Ahead \cap (Stay \X Stay)
  <2>1. MembersOf(players') = MembersOf(t) /\ AheadOf(players') = AheadOf(t)
    BY <1>5, SameClients
  <2> QED
    BY <1>3, <2>1, Mapping
<1>8. c \in Stay
  BY <1>2, <1>3 DEF Position, MembersOf
<1>9. Lately' = Lately
  <2>1. heardAge' = [heardAge EXCEPT ![c] = 0] /\ DOMAIN heardAge = Clients
    BY DEF Forward, Heard, IInv, TypeOK
  <2>2. \A d \in Clients : heardAge'[d] = IF d = c THEN 0 ELSE heardAge[d]
    BY <2>1
  <2>3. heardAge[c] <= Expiration
    BY <1>8 DEF Stay, Lately
  <2> QED
    BY <2>2, <2>3 DEF Lately
<1>10. Mail' = [d \in Clients |->
                 [header |-> Abstract!One(d = c),
                  audio |-> Abstract!One(d \in Stay \ {c}),
                  playback |-> Abstract!One(d \in Stay /\ playback)]]
  <2>1. \A d \in Clients :
          /\ SentIn(out'.sends, d, "header")
               = IF d = c /\ d \in Stay THEN 1 ELSE 0
          /\ SentIn(out'.sends, d, "audio")
               = IF d # c /\ d \in Stay THEN 1 ELSE 0
          /\ SentIn(out'.sends, d, "playback")
               = IF playback /\ d \in Stay THEN 1 ELSE 0
    <3>1. out'.sends = SendLoop(fresh, c, playback)
      BY <1>2 DEF fresh
    <3>2. \A j, k \in DOMAIN fresh : fresh[j].client = fresh[k].client => j = k
      BY <1>3, <1>4
    <3> QED
      BY <1>4, <1>6, <3>1, <3>2, SendLoopCounts
  <2>2. \A d \in Clients :
          /\ SentIn(out'.sends, d, "header") = Abstract!One(d = c)
          /\ SentIn(out'.sends, d, "audio") = Abstract!One(d \in Stay \ {c})
          /\ SentIn(out'.sends, d, "playback")
               = Abstract!One(d \in Stay /\ playback)
    BY <1>8, <2>1 DEF Abstract!One
  <2> QED
    BY <2>2, Mapping DEF MailOf
<1> QED
  BY <1>7, <1>8, <1>9, <1>10, StayIsStaying DEF Abstract!Speak

(* A receive that times out lets those go who have to.                     *)
LEMMA TimeoutWaits ==
  ASSUME IInv, ReceiveTimeout
  PROVE  Abstract!Wait
<1>1. players' \in Pruned /\ heardAge' = heardAge /\ out'.sends = <<>>
  BY DEF ReceiveTimeout, history, Silent
<1>2. Members' = Stay /\ Ahead' = Ahead \cap (Stay \X Stay)
  BY <1>1, PrunedIsStaying, Mapping
<1>3. Lately' = Lately
  BY <1>1 DEF Lately
<1>4. Mail' = Abstract!Nobody
  BY <1>1, Mapping, SendsNothing
<1> QED
  BY <1>2, <1>3, <1>4, StayIsStaying DEF Abstract!Wait

(* Time passes: nobody goes yet, but more may have to.                     *)
LEMMA TickWaits ==
  ASSUME IInv, Tick
  PROVE  Abstract!Wait
<1>1. Members' = Members /\ Ahead' = Ahead
  <2>1. players \in Seq(Player) /\ DOMAIN players' = DOMAIN players
    BY DEF IInv, TypeOK, Tick
  <2>2. ASSUME NEW i \in DOMAIN players
        PROVE  players'[i].client = players[i].client
    <3>1. players'[i] = [players[i] EXCEPT !.age = Lesser(@ + 1, HeardCap)]
      BY DEF Tick
    <3>2. players[i] \in Player
      BY <2>1
    <3> QED
      BY <3>1, <3>2, OlderPlayer
  <2> QED
    BY <2>1, <2>2, SameClients, Mapping
<1>2. Lately' \subseteq Lately
  <2> SUFFICES ASSUME NEW c \in Clients, heardAge'[c] <= Expiration
               PROVE  heardAge[c] <= Expiration
    BY DEF Lately
  <2>1. heardAge'[c] = Lesser(heardAge[c] + 1, HeardCap)
    BY DEF Tick
  <2>2. heardAge[c] \in 0..HeardCap
    BY DEF IInv, TypeOK
  <2> QED
    BY <2>1, <2>2 DEF Lesser, HeardCap
<1>3. Mail' = Abstract!Nobody
  BY Mapping, SendsNothing DEF Tick, Silent
<1> QED
  BY <1>1, <1>2, <1>3 DEF Abstract!Wait

(* The server implements the room: who is a member, in which order, and    *)
(* who is sent what follow Room's promise for every set of clients, room   *)
(* size and expiration.                                                    *)
THEOREM ServerIsRoom == Spec => ImplementsRoom
<1>1. Init => Abstract!RoomInit
  BY InitIsEmptyRoom
<1>2. IInv /\ [Next]_vars => [Abstract!RoomNext]_(Abstract!roomVars)
  <2> SUFFICES ASSUME IInv, [Next]_vars
               PROVE  [Abstract!RoomNext]_(Abstract!roomVars)
    OBVIOUS
  <2>1. ASSUME NEW c \in Clients, NEW a \in Addrs, Newcomer(c, a)
        PROVE  Abstract!RoomNext
    BY <2>1, NewcomerEnters DEF Abstract!RoomNext
  <2>2. ASSUME NEW c \in Clients, NEW a \in Addrs, NEW echo \in Echoes,
               NEW playback \in BOOLEAN, Forward(c, a, echo, playback)
        PROVE  Abstract!RoomNext
    BY <2>2, ForwardSpeaks DEF Abstract!RoomNext
  <2>3. CASE ReceiveTimeout
    BY <2>3, TimeoutWaits DEF Abstract!RoomNext
  <2>4. CASE Tick
    BY <2>4, TickWaits DEF Abstract!RoomNext
  <2>5. CASE UNCHANGED vars
    <3>1. players' = players /\ out' = out /\ heardAge' = heardAge
      BY <2>5 DEF vars, serverVars, history
    <3> QED
      BY <3>1, Mapping DEF Lately, Abstract!roomVars
  <2> QED
    BY <2>1, <2>2, <2>3, <2>4, <2>5 DEF Next
<1>3. Spec => []IInv
  BY Invariance
<1> QED
  BY <1>1, <1>2, <1>3, PTL DEF Spec, ImplementsRoom, Abstract!RoomSpec

(* A newcomer finds the channels of the silent available: it is turned     *)
(* away only while RoomSize members were heard of within Expiration.       *)
THEOREM ChannelsComeFree == Spec => MadeAvailable
<1> DEFINE Turned == \A c \in out'.from :
             c \notin Members' => Cardinality(Members \cap Lately) >= RoomSize
<1>1. IInv /\ [Next]_vars => [Turned]_vars
  <2> SUFFICES ASSUME IInv, Next PROVE Turned
    OBVIOUS
  <2>1. ASSUME NEW c \in Clients, NEW a \in Addrs, Newcomer(c, a)
        PROVE  Turned
    <3>1. out'.from = {c}
      BY <2>1 DEF Newcomer, Silent
    <3>2. PICK t \in Pruned :
            /\ ~Knows(t, c)
            /\ players' = IF HasSpace(t) THEN Append(t, NewPlayer(c, a)) ELSE t
      BY <2>1 DEF Newcomer
    <3>3. CASE HasSpace(t)
      <4>1. Abstract!Enter(c)
        BY <2>1, NewcomerEnters
      <4>2. t \in Seq(Player) /\ Len(t) \in Nat /\ Cardinality(Stay) = Len(t)
        BY PrunedIsStaying, CountMembers
      <4>3. Len(t) < RoomSize + 1
        BY <3>3, <4>2 DEF HasSpace
      <4>4. c \in Members'
        BY <4>1, <4>2, <4>3, StayIsStaying, SameCardinality DEF Abstract!Enter
      <4> QED
        BY <3>1, <4>4
    <3>4. CASE ~HasSpace(t)
      <4>1. t \in Seq(Player) /\ Len(t) \in Nat /\ Cardinality(Stay) = Len(t)
        BY PrunedIsStaying, CountMembers
      <4>2. Cardinality(Stay) >= RoomSize
        BY <3>4, <4>1 DEF HasSpace
      <4> QED
        BY <4>2 DEF Stay
    <3> QED
      BY <3>3, <3>4
  <2>2. ASSUME NEW c \in Clients, NEW a \in Addrs, NEW echo \in Echoes,
               NEW playback \in BOOLEAN, Forward(c, a, echo, playback)
        PROVE  Turned
    <3>1. Abstract!Speak(c, playback)
      BY <2>2, ForwardSpeaks
    <3>2. c \in Members'
      BY <3>1 DEF Abstract!Speak
    <3>3. out'.from = {c}
      BY <2>2 DEF Forward
    <3> QED
      BY <3>2, <3>3
  <2>3. CASE ReceiveTimeout \/ Tick
    BY <2>3 DEF ReceiveTimeout, Tick, Silent
  <2> QED
    BY <2>1, <2>2, <2>3 DEF Next
<1> QED
  BY <1>1, Invariance, PTL DEF Spec, MadeAvailable
=============================================================================
