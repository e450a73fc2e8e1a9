----------------------------- MODULE ChatRobot ------------------------------
(***************************************************************************)
(* The robot that keeps a box in its chat room at the nation server: a     *)
(* thread that connects a web socket, asks for the room to be created and, *)
(* when that is answered, to be let in.                                    *)
(*                                                                         *)
(* readMessages hands *this to WebSocket::dispatch, which takes it by      *)
(* value: the messages of one dispatch are handled by a copy of the robot, *)
(* and what they do to m_state, m_msgId and m_responseId goes away with it *)
(* while what they send stays sent.                                        *)
(***************************************************************************)
EXTENDS Integers, Sequences

CONSTANTS
  NoToken,   \* the empty token
  MaxId,     \* bound: reports of a connection are numbered up to this
  MaxQueue   \* bound: messages on their way on a connection

VARIABLES
  thread,    \* where it is: sleep, init, handshake, poll, dispatch, report
  conn,      \* the web socket: none, opening, open, closed; or lost, opening
             \* with a peer that is gone and has not said so
  m_token,   \* the room of this connection
  robot,     \* [state, msgId, responseId]: m_state, m_msgId, m_responseId
  copy,      \* {r}: the robot that handles the messages of this dispatch
  rxbuf,     \* received and not handled yet
  toNation,  \* on the way to the nation: [event, id]
  toRobot,   \* arrived at the robot's socket: [context, id]
  joined,    \* the nation has this connection in the room
  joins      \* history: joins the nation was asked for on this connection

socketVars == <<conn, m_token, toNation, toRobot, joined, joins>>
robotVars == <<thread, robot, copy, rxbuf>>
chatRobotVars == <<socketVars, robotVars>>

Unborn == [state |-> "init", msgId |-> 0, responseId |-> 0]
Request(e, i) == [event |-> e, id |-> i]
Response(i) == [context |-> "response", id |-> i]
User == [context |-> "user", id |-> 0]
NewSocket ==
  toRobot' = <<>> /\ rxbuf' = <<>> /\ joined' = FALSE /\ joins' = 0
RoomForOne == Len(toNation) + Len(toRobot) + Len(rxbuf) < MaxQueue

-----------------------------------------------------------------------------
(* Bugs this code could have; each replaces the definition named beside it *)
CreateRoomUncounted ==                                     \* CreateRoom
  [state |-> "creating", msgId |-> 1, responseId |-> 1]
AwaitedNext(r, m) ==                                       \* Awaited
  m.context = "response" /\ m.id = r.msgId

-----------------------------------------------------------------------------
(* init and createRoom on a new connection, whose ids start at 1           *)
CreateRoom == [state |-> "creating", msgId |-> 2, responseId |-> 1]

JoinRoom(r) ==
  [state |-> "joining", msgId |-> r.msgId + 1, responseId |-> r.msgId]

Awaited(r, m) == m.context = "response" /\ m.id = r.responseId

(* ws->send on a socket that is closed does nothing.                       *)
SendMessages(ms) ==
  toNation' = IF conn = "open" THEN toNation \o ms ELSE toNation

-----------------------------------------------------------------------------
(* websocketThread: there is a token.  It is read again for init.          *)
WakeUp(token) ==
  /\ thread = "sleep" /\ token # NoToken
  /\ thread' = "init"
  /\ UNCHANGED <<socketVars, robot, copy, rxbuf>>

(* The room is that of the token there is now.  ws is deleted, and from_url *)
(* asks the nation, if it is reached, for a web socket.                    *)
Connect(token, reachable) ==
  /\ thread = "init"
  /\ m_token' = token
  /\ NewSocket /\ toNation' = <<>>
  /\ IF reachable THEN conn' = "opening" /\ thread' = "handshake"
                  ELSE conn' = "none" /\ thread' = "sleep"
  /\ UNCHANGED <<robot, copy>>

(* The nation's answer is read to its end, and the new socket used.  recv  *)
(* waits for it without a limit: no step leaves a handshake that is lost.  *)
HandshakeDone(reachable) ==
  /\ thread = "handshake" /\ conn = "opening" /\ reachable
  /\ conn' = "open" /\ thread' = "poll"
  /\ robot' = CreateRoom
  /\ NewSocket /\ toNation' = <<Request("create", CreateRoom.responseId)>>
  /\ UNCHANGED <<m_token, copy>>

(* recv has found the connection closed.                                   *)
HandshakeFails ==
  /\ thread = "handshake" /\ conn = "closed"
  /\ conn' = "none" /\ thread' = "sleep"
  /\ UNCHANGED <<m_token, toNation, toRobot, joined, joins, robot, copy, rxbuf>>

(* readMessages: poll takes in what has arrived, and dispatch begins.      *)
Poll ==
  /\ thread = "poll" /\ conn = "open"
  /\ rxbuf' = toRobot /\ toRobot' = <<>>
  /\ copy' = {robot}
  /\ thread' = "dispatch"
  /\ UNCHANGED <<conn, m_token, toNation, joined, joins, robot>>

(* The copy handles a message: the response it waits for, another one, or  *)
(* something said in the room, to which it may have something to say.      *)
Handle ==
  /\ thread = "dispatch" /\ rxbuf # <<>>
  /\ rxbuf' = Tail(rxbuf)
  /\ \E r \in copy :
       LET m == Head(rxbuf)
       IN  \/ /\ Awaited(r, m) /\ r.state = "creating"
              /\ copy' = {JoinRoom(r)}
              /\ SendMessages(<<Request("join", r.msgId)>>)
           \/ /\ Awaited(r, m) /\ r.state = "joining"
              /\ copy' = {[r EXCEPT !.state = "processing"]}
              /\ UNCHANGED toNation
           \/ /\ m.context = "user" /\ conn = "open"
              /\ copy' = {[r EXCEPT !.msgId = @ + 1]}
              /\ SendMessages(<<Request("say", r.msgId)>>)
           \/ /\ ~(Awaited(r, m) /\ r.state \in {"creating", "joining"})
              /\ UNCHANGED <<copy, toNation>>
  /\ UNCHANGED <<conn, m_token, toRobot, joined, joins, thread, robot>>

(* dispatch returns, and the copy is gone.                                 *)
Dispatched ==
  /\ thread = "dispatch" /\ rxbuf = <<>>
  /\ copy' = {}
  /\ thread' = "report"
  /\ UNCHANGED <<socketVars, robot, rxbuf>>

(* doInterPollStuff: from time to time the robot itself says something.    *)
Report ==
  /\ thread = "report"
  /\ thread' = "poll"
  /\ \/ UNCHANGED <<toNation, robot>>
     \/ /\ conn = "open" /\ RoomForOne /\ robot.msgId < MaxId
        /\ SendMessages(<<Request("say", robot.msgId)>>)
        /\ robot' = [robot EXCEPT !.msgId = @ + 1]
  /\ UNCHANGED <<conn, m_token, toRobot, joined, joins, copy, rxbuf>>

(* "Room lost": the socket is closed, and the thread sleeps.               *)
RoomLost ==
  /\ thread = "poll" /\ conn # "open"
  /\ thread' = "sleep"
  /\ UNCHANGED <<socketVars, robot, copy, rxbuf>>

-----------------------------------------------------------------------------
(* The nation: it answers every request with the request's id, and passes  *)
(* on what others say in the room.                                         *)
NationAnswers ==
  /\ toNation # <<>>
  /\ LET m == Head(toNation)
     IN  /\ toRobot' = Append(toRobot, Response(m.id))
         /\ joined' = (joined \/ m.event = "join")
         /\ joins' = IF m.event = "join" /\ joins < 2 THEN joins + 1 ELSE joins
  /\ toNation' = Tail(toNation)
  /\ UNCHANGED <<conn, m_token, robotVars>>

NationSays ==
  /\ joined /\ RoomForOne
  /\ toRobot' = Append(toRobot, User)
  /\ UNCHANGED <<conn, m_token, toNation, joined, joins, robotVars>>

(* The connection breaks, and what was on its way is lost.  An open one is *)
(* found closed, since the robot goes on reporting; one that opens only if *)
(* the peer says so, or has not acknowledged the request.                  *)
Drop ==
  /\ \/ conn \in {"opening", "open"} /\ conn' = "closed"
     \/ conn = "opening" /\ conn' = "lost"
  /\ toNation' = <<>> /\ toRobot' = <<>> /\ joined' = FALSE
  /\ UNCHANGED <<m_token, joins, robotVars>>

RobotInit ==
  /\ thread = "sleep" /\ conn = "none" /\ m_token = NoToken
  /\ robot = Unborn /\ copy = {} /\ rxbuf = <<>>
  /\ toNation = <<>> /\ toRobot = <<>>
  /\ joined = FALSE /\ joins = 0

(* The process dies, and is started again.                                 *)
RobotStarts ==
  /\ thread' = "sleep" /\ conn' = "none" /\ m_token' = NoToken
  /\ robot' = Unborn /\ copy' = {} /\ rxbuf' = <<>>
  /\ toNation' = <<>> /\ toRobot' = <<>>
  /\ joined' = FALSE /\ joins' = 0

RobotStep(token, reachable) ==
  \/ WakeUp(token) \/ Connect(token, reachable)
  \/ HandshakeDone(reachable) \/ HandshakeFails
  \/ Poll \/ Handle \/ Dispatched \/ Report \/ RoomLost

-----------------------------------------------------------------------------
(* The robot asks to be let in at most once on a connection, although      *)
(* every dispatch starts with a robot that still waits for the room to be  *)
(* created, and message ids are given out more than once.                  *)
JoinsOnce == joins <= 1
=============================================================================
