------------------------------ MODULE BoxUnit -------------------------------
(***************************************************************************)
(* A box at the nation server: the loop that registers it (Registration)   *)
(* and the thread with its chat robot (ChatRobot), which share the token.  *)
(* When the nation stops its connections break; when the link is not up    *)
(* they may.  The box may die at any moment and is started again.          *)
(***************************************************************************)
EXTENDS Registration, ChatRobot

VARIABLE voided  \* history: the token has changed since the robot woke up

boxVars == <<registrationVars, chatRobotVars, voided>>

BoxInit == RegistrationInit /\ RobotInit /\ voided = FALSE

Loop(A) ==
  /\ A
  /\ voided' = (voided \/ token' # token)
  /\ UNCHANGED chatRobotVars

Chat(A) ==
  /\ A
  /\ voided' = (voided /\ thread # "sleep")
  /\ UNCHANGED registrationVars

NationGone ==
  /\ NationStops
  /\ IF conn \in {"opening", "open"} THEN Drop ELSE UNCHANGED chatRobotVars
  /\ UNCHANGED voided

(* It dies for any reason; one is a registration that is answered with 200 *)
(* and without a token when m_resultBody holds none either.                *)
Dies ==
  /\ voided' = FALSE
  /\ Starts /\ RobotStarts

BoxNext ==
  \/ Loop(NoLink) \/ Loop(Skip) \/ Loop(Ask)
  \/ Loop(Registered) \/ Loop(RegisteredAnew) \/ Loop(NotRegistered)
  \/ Loop(Pinged) \/ Loop(NotPinged)
  \/ Loop(LinkChanges) \/ Loop(NationStarts)
  \/ Loop(StatusStarts)
  \/ NationGone \/ Dies
  \/ Chat(WakeUp(token)) \/ Chat(Connect(token, Reachable))
  \/ Chat(HandshakeDone(Reachable)) \/ Chat(HandshakeFails)
  \/ Chat(Poll) \/ Chat(Handle) \/ Chat(Dispatched) \/ Chat(Report)
  \/ Chat(RoomLost)
  \/ Reachable /\ Chat(NationAnswers)
  \/ Reachable /\ Chat(NationSays)
  \/ link # "up" /\ Chat(Drop)

BoxSpec == BoxInit /\ [][BoxNext]_boxVars

(* Both threads run, a nation that can be reached answers, and a box that  *)
(* goes on registering with it gets a token in the end.                    *)
FairBoxSpec ==
  /\ BoxSpec
  /\ WF_boxVars(Loop(LoopStep))
  /\ WF_boxVars(Chat(RobotStep(token, Reachable)))
  /\ WF_boxVars(Reachable /\ Chat(NationAnswers))
  /\ SF_boxVars(Loop(Registered))

-----------------------------------------------------------------------------
(* Link and nation stay up from some time on, and the box is not started   *)
(* again any more.                                                         *)
Settles == <>[]Reachable /\ <>[][~Dies]_boxVars

(* Once link and nation stay up the box gets into a chat room and stays in *)
(* it, whatever was broken before: tokens void, connections lost between   *)
(* any two messages, the token gone while the robot connects.  It is the   *)
(* room of the box's token, unless that has changed while the robot was    *)
(* awake; and only a nation that has vanished in the middle of a handshake *)
(* keeps the robot out.                                                    *)
RoomReached ==
  Settles =>
    <>[](\/ joined /\ (m_token = token \/ voided)
         \/ conn = "lost")

(* websocketThread is the "Thread to keep the unit room websocket alive":  *)
(* once link and nation stay up, it has one in the end.                    *)
WebsocketKeptAlive == Settles => <>[](conn = "open")
=============================================================================
