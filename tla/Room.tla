-------------------------------- MODULE Room --------------------------------
(***************************************************************************)
(* What a room promises its clients, without tables, ages, addresses and   *)
(* pings: who is a member, in which order, and who is sent what when one   *)
(* of them speaks.  RoomServer implements it.                              *)
(***************************************************************************)
EXTENDS Naturals, FiniteSets

CONSTANTS
  Clients,
  Seats      \* how many members the room takes

VARIABLES
  members,   \* clients in the room
  ahead,     \* <<c, d>>: c came before d
  lately,    \* clients that were heard of not long ago
  mail       \* what the last step sent: for each client, how many of what

roomVars == <<members, ahead, lately, mail>>

Nobody == [c \in Clients |-> [header |-> 0, audio |-> 0, playback |-> 0]]
One(condition) == IF condition THEN 1 ELSE 0

RoomInit == members = {} /\ ahead = {} /\ mail = Nobody /\ lately = {}

(* Who has not been heard of lately has to go before anything is sent; the *)
(* others keep their order.                                                *)
Staying == members \cap lately
Line(stay) == ahead \cap (stay \X stay)

(* A member speaks: it is sent a bare header, every other member the audio *)
(* once, and every member the music that is played to the room, if any is. *)
Speak(c, music) ==
  /\ c \in Staying
  /\ members' = Staying /\ ahead' = Line(Staying)
  /\ UNCHANGED lately
  /\ mail' = [d \in Clients |->
                [header |-> One(d = c),
                 audio |-> One(d \in Staying \ {c}),
                 playback |-> One(d \in Staying /\ music)]]

(* A newcomer takes the last seat, if there is a free one; its packet is   *)
(* for nobody.                                                             *)
Enter(c) ==
  /\ c \notin Staying
  /\ IF Cardinality(Staying) < Seats
     THEN /\ members' = Staying \cup {c}
          /\ ahead' = Line(Staying) \cup (Staying \X {c})
     ELSE members' = Staying /\ ahead' = Line(Staying)
  /\ lately' = lately \cup {c}
  /\ mail' = Nobody

(* Nobody speaks: those who have to go may go, and more may have to.       *)
Wait ==
  /\ \/ members' = Staying /\ ahead' = Line(Staying)
     \/ UNCHANGED <<members, ahead>>
  /\ lately' \subseteq lately
  /\ mail' = Nobody

RoomNext ==
  \/ \E c \in Clients, music \in BOOLEAN : Speak(c, music)
  \/ \E c \in Clients : Enter(c)
  \/ Wait

RoomSpec == RoomInit /\ [][RoomNext]_roomVars
=============================================================================
