-------------------------- MODULE BoxProofs ---------------------------------
(***************************************************************************)
(* The three parts of the process rtjam-box.                               *)
(*                                                                         *)
(* Parameter channel: the flush loses no parameter that is not followed by *)
(* a newer one, and rtjam-sound receives them in order, for any number of  *)
(* browsers and any size of the queue.  The invariant behind both: the     *)
(* queue is sorted, and all in it is newer than what rtjam-sound received. *)
(*                                                                         *)
(* Registration: the status light tells the truth whenever the loop        *)
(* sleeps.  The invariant says what the light is while an answer is        *)
(* awaited, and that a link seen down has the nation asked next.           *)
(*                                                                         *)
(* Chat robot: it asks once on a connection to be let in.  The invariant   *)
(* counts what may still become a join: there is only one such message.    *)
(***************************************************************************)
EXTENDS ParamChannel, BoxUnit, TLAPS

Sorted ==
  /\ \A i \in DOMAIN queue : queue[i] > taken
  /\ \A i, j \in DOMAIN queue : i < j => queue[i] < queue[j]

IInv == ParamTypeOK /\ Sorted /\ NewestSafe

USE ChannelAssumption

-----------------------------------------------------------------------------
(* What a queue loses at its head                                          *)
LEMMA TailOf ==
  ASSUME IInv, queue # <<>>
  PROVE  /\ Head(queue) = queue[1] /\ 1 \in DOMAIN queue
         /\ Tail(queue) \in Seq(1..newest)
         /\ Len(Tail(queue)) = Len(queue) - 1
         /\ DOMAIN queue = 1..Len(queue)
         /\ DOMAIN Tail(queue) = 1..(Len(queue) - 1)
         /\ \A i \in DOMAIN Tail(queue) :
              i + 1 \in DOMAIN queue /\ Tail(queue)[i] = queue[i + 1]
<1>1. queue \in Seq(1..newest) /\ Len(queue) \in Nat /\ Len(queue) > 0
  BY DEF IInv, ParamTypeOK
<1> QED
  BY <1>1

(* The queue starts empty.                                                 *)
LEMMA InitStep == ParamInit => IInv
<1> SUFFICES ASSUME ParamInit PROVE IInv
  OBVIOUS
<1>1. queue \in Seq(1..newest) /\ DOMAIN queue = {} /\ Len(queue) = 0
  BY DEF ParamInit
<1> QED
  BY <1>1 DEF ParamInit, IInv, ParamTypeOK, Sorted, NewestSafe

(* A flush is under way, so nothing need be kept.                          *)
LEMMA FlushOneStep ==
  ASSUME IInv, NEW b \in Browser, FlushOne(b)
  PROVE  IInv'
<1>1. /\ queue # <<>> /\ queue' = Tail(queue) /\ doing[b] = "flushing"
      /\ UNCHANGED <<newest, doing, getter, taken, crashes>>
  BY DEF FlushOne, box, sounder
<1>2. ParamTypeOK'
  BY <1>1, TailOf DEF IInv, ParamTypeOK
<1>3. Sorted'
  <2>1. \A i \in DOMAIN queue' : i + 1 \in DOMAIN queue /\ queue'[i] = queue[i + 1]
    BY <1>1, TailOf
  <2>2. \A i \in DOMAIN queue' : i \in Int
    BY <1>1, TailOf
  <2> QED
    BY <1>1, <2>1, <2>2 DEF IInv, Sorted
<1>4. NewestSafe'
  BY <1>1 DEF NewestSafe
<1> QED
  BY <1>2, <1>3, <1>4 DEF IInv

(* What is sent is newer than all in the queue.                            *)
LEMMA SendStep ==
  ASSUME IInv, NEW s \in Sender, Send(s)
  PROVE  IInv'
<1>1. /\ newest \in Nat /\ newest' = newest + 1 /\ taken' = taken
      /\ queue \in Seq(1..newest) /\ Len(queue) < QueueSize
      /\ queue' = Append(queue, newest')
      /\ doing' = [doing EXCEPT ![s] = "idle"]
      /\ UNCHANGED <<getter, taken, crashes>>
  BY DEF IInv, ParamTypeOK, Send, Put, sounder
<1>2. queue \in Seq(1..newest')
  BY <1>1
<1>3. /\ queue' \in Seq(1..newest') /\ Len(queue') = Len(queue) + 1
      /\ DOMAIN queue = 1..Len(queue)
      /\ DOMAIN queue' = 1..(Len(queue) + 1) /\ Len(queue) \in Nat
      /\ queue'[Len(queue) + 1] = newest'
      /\ \A i \in DOMAIN queue : queue'[i] = queue[i] /\ queue[i] \in 1..newest
  BY <1>1, <1>2
<1>4. ParamTypeOK'
  BY <1>1, <1>3 DEF IInv, ParamTypeOK
<1>5. Sorted'
  <2>1. ASSUME NEW i \in DOMAIN queue' PROVE queue'[i] > taken'
    BY <1>1, <1>3 DEF IInv, ParamTypeOK, Sorted
  <2>2. ASSUME NEW i \in DOMAIN queue', NEW j \in DOMAIN queue', i < j
        PROVE  queue'[i] < queue'[j]
    <3>1. i \in DOMAIN queue
      BY <1>3, <2>2
    <3>2. CASE j = Len(queue) + 1
      BY <1>1, <1>3, <3>1, <3>2
    <3>3. CASE j \in DOMAIN queue
      BY <1>3, <2>2, <3>1, <3>3 DEF IInv, Sorted
    <3> QED
      BY <1>3, <3>2, <3>3
  <2> QED
    BY <2>1, <2>2 DEF Sorted
<1>6. NewestSafe'
  BY <1>3 DEF NewestSafe
<1> QED
  BY <1>4, <1>5, <1>6 DEF IInv

(* If the last one sent was received already, nothing newer is queued.     *)
LEMMA ReceiveStep ==
  ASSUME IInv, Receive
  PROVE  IInv' /\ taken' > taken
<1>1. /\ queue # <<>> /\ queue' = Tail(queue) /\ taken' = Head(queue)
      /\ getter' = "applying"
      /\ UNCHANGED <<newest, doing, crashes>>
  BY DEF Receive, box
<1>2. /\ taken' = queue[1] /\ 1 \in DOMAIN queue
      /\ DOMAIN queue = 1..Len(queue) /\ Len(queue) \in Nat
      /\ DOMAIN queue' = 1..(Len(queue) - 1)
      /\ \A i \in DOMAIN queue' :
           i \in Nat /\ i + 1 \in DOMAIN queue /\ queue'[i] = queue[i + 1]
  BY <1>1, TailOf DEF IInv, ParamTypeOK
<1>3. /\ newest \in Nat /\ taken \in Nat
      /\ \A i \in DOMAIN queue : queue[i] \in 1..newest
  BY DEF IInv, ParamTypeOK
<1>4. taken' > taken
  BY <1>2, <1>3 DEF IInv, Sorted
<1>5. ParamTypeOK'
  BY <1>1, <1>2, <1>3, TailOf DEF IInv, ParamTypeOK
<1>6. Sorted'
  <2>1. ASSUME NEW i \in DOMAIN queue' PROVE queue'[i] > taken'
    BY <1>2, <1>3 DEF IInv, Sorted
  <2>2. ASSUME NEW i \in DOMAIN queue', NEW j \in DOMAIN queue', i < j
        PROVE  queue'[i] < queue'[j]
    BY <1>2, <1>3, <2>2 DEF IInv, Sorted
  <2> QED
    BY <2>1, <2>2 DEF Sorted
<1>7. NewestSafe'
  <2> SUFFICES ASSUME \A b \in Browser : doing'[b] = "idle"
               PROVE  \/ newest = taken'
                      \/ \E i \in DOMAIN queue' : queue'[i] = newest
    BY <1>1 DEF NewestSafe
  <2>1. newest # taken
    BY <1>2, <1>3 DEF IInv, Sorted
  <2>2. PICK i \in DOMAIN queue : queue[i] = newest
    BY <1>1, <2>1 DEF IInv, NewestSafe
  <2>3. CASE i = 1
    BY <1>2, <2>2, <2>3
  <2>4. CASE i # 1
    <3>1. i - 1 \in DOMAIN queue' /\ queue'[i - 1] = queue[i]
      BY <1>2, <2>4
    <3> QED
      BY <2>2, <3>1
  <2> QED
    BY <2>3, <2>4
<1> QED
  BY <1>4, <1>5, <1>6, <1>7 DEF IInv

(* Every step keeps the invariant, and receives only what is newer.       *)
LEMMA NextStep ==
  ASSUME IInv, [ParamNext]_paramVars
  PROVE  IInv' /\ (taken' # taken => taken' > taken)
<1>1. ASSUME NEW s \in Sender, NEW what \in {"flushing", "sending"},
             BeginPost(s, what)
      PROVE  IInv' /\ taken' = taken
  <2>1. /\ UNCHANGED <<queue, newest, getter, taken, crashes>>
        /\ doing[s] = "idle" /\ doing' = [doing EXCEPT ![s] = what]
    BY <1>1 DEF BeginPost, sounder
  <2>2. (\A b \in Browser : doing'[b] = "idle")
          => \A b \in Browser : doing[b] = "idle"
    BY <2>1 DEF IInv, ParamTypeOK
  <2> QED
    BY <2>1, <2>2 DEF IInv, ParamTypeOK, Sorted, NewestSafe
<1>2. CASE Message
  BY <1>1, <1>2 DEF Message, Sender
<1>3. ASSUME NEW b \in Browser, Post(b)
      PROVE  IInv' /\ taken' = taken
  BY <1>1, <1>3 DEF Post, Sender
<1>4. ASSUME NEW b \in Browser, FlushOne(b)
      PROVE  IInv' /\ taken' = taken
  BY <1>4, FlushOneStep DEF FlushOne, sounder
<1>5. ASSUME NEW b \in Browser, FlushEnds(b)
      PROVE  IInv' /\ taken' = taken
  <2>1. /\ UNCHANGED <<queue, newest, getter, taken, crashes>>
        /\ doing' = [doing EXCEPT ![b] = "sending"]
    BY <1>5 DEF FlushEnds, sounder
  <2>2. doing'[b] = "sending"
    BY <2>1 DEF IInv, ParamTypeOK, Sender
  <2> QED
    BY <2>1, <2>2 DEF IInv, ParamTypeOK, Sorted, NewestSafe
<1>6. ASSUME NEW s \in Sender, Send(s)
      PROVE  IInv' /\ taken' = taken
  BY <1>6, SendStep DEF Send, sounder
<1>7. CASE Receive
  BY <1>7, ReceiveStep
<1>8. CASE Apply \/ SoundCrashes \/ SoundRestarts
  <2>1. /\ UNCHANGED <<queue, newest, doing, taken>>
        /\ getter' \in {"receiving", "down"}
        /\ crashes' \in 0..MaxCrashes
    BY <1>8 DEF Apply, SoundCrashes, SoundRestarts, box, IInv, ParamTypeOK
  <2> QED
    BY <2>1 DEF IInv, ParamTypeOK, Sorted, NewestSafe
<1>9. CASE UNCHANGED paramVars
  BY <1>9 DEF paramVars, box, sounder, IInv, ParamTypeOK, Sorted, NewestSafe
<1> QED
  BY <1>2, <1>3, <1>4, <1>5, <1>6, <1>7, <1>8, <1>9 DEF ParamNext, Flush

-----------------------------------------------------------------------------
(* The inductive invariant of the queue holds throughout.                  *)
THEOREM Invariance == ParamSpec => []IInv
<1>1. IInv /\ [ParamNext]_paramVars => IInv'
  BY NextStep
<1> QED
  BY InitStep, <1>1, PTL DEF ParamSpec

(* Type correctness of the parameter channel.                              *)
THEOREM TypeCorrect == ParamSpec => []ParamTypeOK
<1>1. IInv => ParamTypeOK
  BY DEF IInv
<1> QED
  BY Invariance, <1>1, PTL

(* The flush of setParam never loses what was sent last.                   *)
THEOREM NeverLosesNewest == ParamSpec => []NewestSafe
<1>1. IInv => NewestSafe
  BY DEF IInv
<1> QED
  BY Invariance, <1>1, PTL

(* getParams of rtjam-sound receives parameters in the order they came.    *)
THEOREM ReceivedInOrder == ParamSpec => InOrder
<1>1. IInv /\ [ParamNext]_paramVars => [taken' # taken => taken' > taken]_paramVars
  BY NextStep
<1> QED
  BY Invariance, <1>1, PTL DEF ParamSpec, InOrder

-----------------------------------------------------------------------------
(* The light of the box.  Where the loop is tells what it last set, unless *)
(* rtjam-status has set the light since; and a link that was last seen     *)
(* down is asked about the nation as soon as it is back.                   *)
LoopOK ==
  /\ ~linkSeen => step = "sleep" /\ loop = 0
  /\ step = "register" => token = Nothing /\ (stray \/ light = "orange")
  /\ step = "ping" => token # Nothing /\ (stray \/ light = "green")

LightInv == LoopOK /\ LightHonest

(* The loop keeps the light in step with what it knows.                    *)
LEMMA LoopKeepsLight ==
  ASSUME LightInv, LoopStep
  PROVE  LightInv'
<1> USE DEF LightInv, LoopOK, LightHonest, SetLight, LightStays, NextCount
<1>1. CASE NoLink
  BY <1>1 DEF NoLink, RestartCount
<1>2. CASE Skip
  BY <1>2 DEF Skip
<1>3. CASE Ask
  BY <1>3 DEF Ask
<1>4. CASE Registered
  BY <1>4, RegistrationAssumption DEF Registered
<1>5. CASE NotRegistered
  BY <1>5 DEF NotRegistered
<1>6. CASE Pinged
  BY <1>6 DEF Pinged
<1>7. CASE NotPinged
  BY <1>7 DEF NotPinged
<1>8. CASE RegisteredAnew
  BY <1>8 DEF RegisteredAnew
<1> QED
  BY <1>1, <1>2, <1>3, <1>4, <1>5, <1>6, <1>7, <1>8 DEF LoopStep

(* What is done to the loop by a step of the box or around it              *)
LEMMA LoopActs ==
  ASSUME [BoxNext]_boxVars
  PROVE  \/ UNCHANGED loopVars
         \/ LoopStep \/ StatusStarts \/ Starts
<1>1. CASE UNCHANGED boxVars
  BY <1>1 DEF boxVars, registrationVars
<1>2. CASE BoxNext
  BY <1>2 DEF BoxNext, Loop, Chat, LoopStep, NationGone, Dies, LinkChanges,
              NationStarts, NationStops, registrationVars
<1> QED
  BY <1>1, <1>2

(* Whatever link, nation, rtjam-status and the box itself go through, a    *)
(* sleeping loop has left a light that tells the truth.                    *)
THEOREM LightTellsTruth == BoxSpec => []LightHonest
<1>1. BoxInit => LightInv
  BY DEF BoxInit, RegistrationInit, LightInv, LoopOK, LightHonest
<1>2. LightInv /\ [BoxNext]_boxVars => LightInv'
  <2> SUFFICES ASSUME LightInv, [BoxNext]_boxVars PROVE LightInv'
    OBVIOUS
  <2>1. CASE UNCHANGED loopVars
    BY <2>1 DEF loopVars, LightInv, LoopOK, LightHonest
  <2>2. CASE StatusStarts
    BY <2>2 DEF StatusStarts, LightInv, LoopOK, LightHonest
  <2>3. CASE Starts
    BY <2>3 DEF Starts, SetLight, LightInv, LoopOK, LightHonest
  <2> QED
    BY <2>1, <2>2, <2>3, LoopActs, LoopKeepsLight
<1>3. LightInv => LightHonest
  BY DEF LightInv
<1> QED
  BY <1>1, <1>2, <1>3, PTL DEF BoxSpec

-----------------------------------------------------------------------------
(* The robot's permission to ask to be let in.  The request with the id 1  *)
(* is the one that creates the room, and it goes out once on a connection; *)
(* it turns into its answer, that into a request to join, and that into a  *)
(* join: there is only one of these at a time (OnePermission), because a   *)
(* robot that waits for the room waits for the answer 1 (RobotTypes).      *)
Requests ==
  {m \in [event : {"create", "join", "say"}, id : Nat] :
     m.id = 1 => m.event = "create"}
Messages == [context : {"response", "user"}, id : Nat]
Asking == {m \in Requests : m.event # "say"}
Answers == {m \in Messages : m.context = "response" /\ m.id = 1}
Robots ==
  {r \in [state : {"creating", "joining", "processing"},
          msgId : Nat \ {0, 1}, responseId : Nat] :
     r.state = "creating" => r.responseId = 1}

RobotTypes ==
  /\ toNation \in Seq(Requests)
  /\ toRobot \in Seq(Messages) /\ rxbuf \in Seq(Messages)
  /\ copy \subseteq Robots
  /\ conn = "open" => robot \in Robots /\ robot.state = "creating"
  /\ joins \in Nat

Never(s, C) == \A i \in DOMAIN s : s[i] \notin C
Once(s, C) == \A i, j \in DOMAIN s : s[i] \in C /\ s[j] \in C => i = j

OnePermission ==
  /\ Once(toNation, Asking) /\ Once(toRobot, Answers) /\ Once(rxbuf, Answers)
  /\ \/ Never(toNation, Asking)
     \/ Never(toRobot, Answers) /\ Never(rxbuf, Answers) /\ joins = 0
  /\ Never(toRobot, Answers) \/ (Never(rxbuf, Answers) /\ joins = 0)
  /\ Never(rxbuf, Answers) \/ joins = 0
  /\ joins <= 1

RobotInv == RobotTypes /\ OnePermission

(* What a sequence of messages loses at its head                           *)
LEMMA Popped ==
  ASSUME NEW T, NEW C, NEW s \in Seq(T), s # <<>>, Once(s, C)
  PROVE  /\ Head(s) \in T /\ Tail(s) \in Seq(T) /\ Once(Tail(s), C)
         /\ Never(s, C) => Head(s) \notin C /\ Never(Tail(s), C)
         /\ Head(s) \in C => Never(Tail(s), C)
<1>1. /\ Len(s) \in Nat /\ Len(s) >= 1 /\ DOMAIN s = 1..Len(s)
      /\ Head(s) = s[1] /\ s[1] \in T
      /\ Tail(s) \in Seq(T) /\ DOMAIN Tail(s) = 1..(Len(s) - 1)
      /\ \A k \in 1..(Len(s) - 1) : Tail(s)[k] = s[k + 1]
  OBVIOUS
<1>2. 1 \in DOMAIN s
      /\ \A k \in DOMAIN Tail(s) :
           k \in Int /\ k + 1 \in DOMAIN s /\ k + 1 # 1 /\ Tail(s)[k] = s[k + 1]
  BY <1>1
<1>3. Once(Tail(s), C)
  BY <1>2 DEF Once
<1>4. Never(s, C) => Head(s) \notin C /\ Never(Tail(s), C)
  BY <1>1, <1>2 DEF Never
<1>5. Head(s) \in C => Never(Tail(s), C)
  BY <1>1, <1>2 DEF Never, Once
<1> QED
  BY <1>1, <1>3, <1>4, <1>5

(* What it gains at its end                                                *)
LEMMA Appended ==
  ASSUME NEW T, NEW C, NEW s \in Seq(T), NEW m \in T
  PROVE  /\ Append(s, m) \in Seq(T) /\ s \o <<m>> = Append(s, m)
         /\ m \notin C /\ Once(s, C) => Once(Append(s, m), C)
         /\ m \notin C /\ Never(s, C) => Never(Append(s, m), C)
         /\ Never(s, C) => Once(Append(s, m), C)
<1> DEFINE u == Append(s, m)
<1>1. /\ Len(s) \in Nat /\ DOMAIN s = 1..Len(s)
      /\ u \in Seq(T) /\ DOMAIN u = 1..(Len(s) + 1)
      /\ \A k \in 1..Len(s) : u[k] = s[k]
      /\ u[Len(s) + 1] = m
  OBVIOUS
<1>2. s \o <<m>> = u
  OBVIOUS
<1> HIDE DEF u
<1>3. \A k \in DOMAIN u :
        \/ k \in DOMAIN s /\ u[k] = s[k]
        \/ k = Len(s) + 1 /\ u[k] = m
  BY <1>1
<1>4. m \notin C /\ Once(s, C) => Once(u, C)
  BY <1>3 DEF Once
<1>5. m \notin C /\ Never(s, C) => Never(u, C)
  BY <1>3 DEF Never
<1>6. Never(s, C) => Once(u, C)
  BY <1>3 DEF Never, Once
<1> QED
  BY <1>1, <1>2, <1>4, <1>5, <1>6 DEF u

(* Nothing on the way                                                      *)
LEMMA Silence == \A C : Never(<<>>, C) /\ Once(<<>>, C)
BY DEF Never, Once

(* Something that is no request to be let in is said, or nothing.          *)
LEMMA SaidMaybe ==
  ASSUME NEW s \in Seq(Requests), NEW u, NEW i \in Nat \ {0, 1},
         u = s \/ u = Append(s, Request("say", i))
  PROVE  /\ u \in Seq(Requests)
         /\ Once(s, Asking) => Once(u, Asking)
         /\ Never(s, Asking) => Never(u, Asking)
<1> DEFINE m == Request("say", i)
<1>1. m \in Requests /\ m \notin Asking
  BY DEF Request, Requests, Asking
<1> HIDE DEF m
<1>2. /\ Append(s, m) \in Seq(Requests)
      /\ Once(s, Asking) => Once(Append(s, m), Asking)
      /\ Never(s, Asking) => Never(Append(s, m), Asking)
  BY <1>1, Appended
<1>3. CASE u = s
  BY <1>3
<1>4. CASE u = Append(s, m)
  BY <1>2, <1>4
<1> QED
  BY <1>3, <1>4 DEF m

(* Before anything is sent the robot may do as it likes.                   *)
LEMMA FreshRobot ==
  ASSUME toNation' = <<>>, toRobot' = <<>>, rxbuf' = <<>>, joins' = 0,
         copy' \subseteq Robots, conn' # "open"
  PROVE  RobotInv'
<1>1. \A T : <<>> \in Seq(T)
  OBVIOUS
<1>2. RobotTypes'
  BY <1>1 DEF RobotTypes
<1>3. OnePermission'
  BY Silence DEF OnePermission
<1> QED
  BY <1>2, <1>3 DEF RobotInv

(* While it connects there is nothing under way.                           *)
LEMMA ConnectStep ==
  ASSUME RobotInv, NEW t, NEW reachable, Connect(t, reachable)
  PROVE  RobotInv'
<1>1. toRobot' = <<>> /\ rxbuf' = <<>> /\ joins' = 0 /\ copy' = copy
  BY DEF Connect, NewSocket
<1>2. toNation' = <<>> /\ conn' # "open"
  BY DEF Connect
<1> QED
  BY <1>1, <1>2, FreshRobot DEF RobotInv, RobotTypes

(* A new connection begins with the request for the room.                  *)
LEMMA HandshakeStep ==
  ASSUME RobotInv, NEW reachable, HandshakeDone(reachable)
  PROVE  RobotInv'
<1>1. toRobot' = <<>> /\ rxbuf' = <<>> /\ joins' = 0 /\ copy' = copy
  BY DEF HandshakeDone, NewSocket
<1>2. toNation' = <<Request("create", 1)>> /\ robot' = CreateRoom
  BY DEF HandshakeDone, CreateRoom
<1>3. Request("create", 1) \in Requests
  BY DEF Request, Requests
<1>4. CreateRoom \in Robots /\ CreateRoom.state = "creating"
  BY DEF CreateRoom, Robots
<1>5. <<Request("create", 1)>> \in Seq(Requests)
      /\ Once(<<Request("create", 1)>>, Asking)
  BY <1>3 DEF Once
<1>6. \A T : <<>> \in Seq(T)
  OBVIOUS
<1>7. RobotTypes'
  BY <1>1, <1>2, <1>4, <1>5, <1>6 DEF RobotInv, RobotTypes
<1>8. OnePermission'
  BY <1>1, <1>2, <1>5, Silence DEF OnePermission
<1> QED
  BY <1>7, <1>8 DEF RobotInv

(* What has arrived comes to be heard.                                     *)
LEMMA PollStep ==
  ASSUME RobotInv, Poll
  PROVE  RobotInv'
<1>1. /\ conn = "open" /\ rxbuf' = toRobot /\ toRobot' = <<>>
      /\ copy' = {robot} /\ UNCHANGED <<conn, toNation, joins, robot>>
  BY DEF Poll
<1>2. \A T : <<>> \in Seq(T)
  OBVIOUS
<1>3. RobotTypes'
  BY <1>1, <1>2 DEF RobotInv, RobotTypes
<1>4. OnePermission'
  BY <1>1, Silence DEF RobotInv, OnePermission
<1> QED
  BY <1>3, <1>4 DEF RobotInv

(* A message other than a request to be let in goes to the nation.         *)
LEMMA SaidStep ==
  ASSUME RobotInv, NEW r \in Robots,
         toNation' = toNation
           \/ toNation' = Append(toNation, Request("say", r.msgId)),
         UNCHANGED <<toRobot, rxbuf, joins, conn>>,
         copy' \subseteq Robots,
         conn = "open" => robot' \in Robots /\ robot'.state = "creating"
  PROVE  RobotInv'
<1>1. r.msgId \in Nat \ {0, 1}
  BY DEF Robots
<1>2. toNation \in Seq(Requests)
  BY DEF RobotInv, RobotTypes
<1>3. /\ toNation' \in Seq(Requests)
      /\ Once(toNation, Asking) => Once(toNation', Asking)
      /\ Never(toNation, Asking) => Never(toNation', Asking)
  BY <1>1, <1>2, SaidMaybe
<1>4. RobotTypes'
  BY <1>3 DEF RobotInv, RobotTypes
<1>5. OnePermission'
  BY <1>3 DEF RobotInv, OnePermission
<1> QED
  BY <1>4, <1>5 DEF RobotInv

(* The copy spends the answer for the request to be let in.                *)
LEMMA HandleStep ==
  ASSUME RobotInv, Handle
  PROVE  RobotInv'
<1> DEFINE m == Head(rxbuf)
<1>1. /\ rxbuf # <<>> /\ rxbuf' = Tail(rxbuf)
      /\ UNCHANGED <<conn, toRobot, joins, robot>>
  BY DEF Handle
<1>2. PICK r \in copy :
        \/ /\ Awaited(r, m) /\ r.state = "creating"
           /\ copy' = {JoinRoom(r)}
           /\ SendMessages(<<Request("join", r.msgId)>>)
        \/ /\ copy' = {[r EXCEPT !.state = "processing"]}
           /\ UNCHANGED toNation
        \/ /\ copy' = {[r EXCEPT !.msgId = @ + 1]}
           /\ SendMessages(<<Request("say", r.msgId)>>)
        \/ UNCHANGED <<copy, toNation>>
  BY DEF Handle
<1>3. /\ rxbuf \in Seq(Messages) /\ Once(rxbuf, Answers)
      /\ toNation \in Seq(Requests)
      /\ r \in Robots /\ copy \subseteq Robots
  BY DEF RobotInv, RobotTypes, OnePermission
<1>4. /\ m \in Messages /\ rxbuf' \in Seq(Messages) /\ Once(rxbuf', Answers)
      /\ Never(rxbuf, Answers) => m \notin Answers /\ Never(rxbuf', Answers)
      /\ m \in Answers => Never(rxbuf', Answers)
  BY <1>1, <1>3, Popped
<1> HIDE DEF m
<1>5. ASSUME copy' \subseteq Robots,
             toNation' = toNation
               \/ toNation' = Append(toNation, Request("say", r.msgId))
      PROVE  RobotInv'
  <2>1. r.msgId \in Nat \ {0, 1}
    BY <1>3 DEF Robots
  <2>2. /\ toNation' \in Seq(Requests)
        /\ Once(toNation, Asking) => Once(toNation', Asking)
        /\ Never(toNation, Asking) => Never(toNation', Asking)
    BY <1>3, <1>5, <2>1, SaidMaybe
  <2>3. RobotTypes'
    BY <1>1, <1>4, <1>5, <2>2 DEF RobotInv, RobotTypes
  <2>4. OnePermission'
    BY <1>1, <1>4, <2>2 DEF RobotInv, OnePermission
  <2> QED
    BY <2>3, <2>4 DEF RobotInv
<1>6. CASE /\ Awaited(r, m) /\ r.state = "creating"
           /\ copy' = {JoinRoom(r)}
           /\ SendMessages(<<Request("join", r.msgId)>>)
  <2>1. copy' \subseteq Robots
    BY <1>3, <1>6 DEF JoinRoom, Robots
  <2>2. m \in Answers
    BY <1>3, <1>4, <1>6 DEF Awaited, Answers, Robots
  <2>3. Request("join", r.msgId) \in Requests
    BY <1>3 DEF Request, Requests, Robots
  <2>4. Never(toNation, Asking) /\ Never(toRobot, Answers) /\ joins = 0
    BY <1>4, <2>2 DEF RobotInv, OnePermission
  <2>5. toNation' = toNation
        \/ toNation' = Append(toNation, Request("join", r.msgId))
    BY <1>3, <1>6, <2>3, Appended DEF SendMessages
  <2>6. toNation' \in Seq(Requests) /\ Once(toNation', Asking)
    <3>1. LET u == Append(toNation, Request("join", r.msgId))
          IN  u \in Seq(Requests) /\ Once(u, Asking)
      BY <1>3, <2>3, <2>4, Appended
    <3>2. Once(toNation, Asking)
      BY DEF RobotInv, OnePermission
    <3> QED
      BY <1>3, <2>5, <3>1, <3>2
  <2>7. RobotTypes'
    BY <1>1, <1>4, <2>1, <2>6 DEF RobotInv, RobotTypes
  <2>8. OnePermission'
    BY <1>1, <1>4, <2>2, <2>4, <2>6 DEF RobotInv, OnePermission
  <2> QED
    BY <2>7, <2>8 DEF RobotInv
<1>7. CASE /\ copy' = {[r EXCEPT !.state = "processing"]}
           /\ UNCHANGED toNation
  <2>1. copy' \subseteq Robots
    BY <1>3, <1>7 DEF Robots
  <2> QED
    BY <1>5, <1>7, <2>1
<1>8. CASE /\ copy' = {[r EXCEPT !.msgId = @ + 1]}
           /\ SendMessages(<<Request("say", r.msgId)>>)
  <2>1. copy' \subseteq Robots
    BY <1>3, <1>8 DEF Robots
  <2>2. Request("say", r.msgId) \in Requests
    BY <1>3 DEF Request, Requests, Robots
  <2>3. toNation' = toNation
        \/ toNation' = Append(toNation, Request("say", r.msgId))
    BY <1>3, <1>8, <2>2, Appended DEF SendMessages
  <2> QED
    BY <1>5, <2>1, <2>3
<1>9. CASE UNCHANGED <<copy, toNation>>
  BY <1>3, <1>5, <1>9
<1> QED
  BY <1>2, <1>6, <1>7, <1>8, <1>9

(* The robot says something, or not.                                       *)
LEMMA ReportStep ==
  ASSUME RobotInv, Report
  PROVE  RobotInv'
<1>1. UNCHANGED <<conn, toRobot, rxbuf, joins, copy>>
  BY DEF Report
<1>2. copy \subseteq Robots /\ toNation \in Seq(Requests)
      /\ (conn = "open" => robot \in Robots /\ robot.state = "creating")
  BY DEF RobotInv, RobotTypes
<1>3. CASE UNCHANGED <<toNation, robot>>
  BY <1>1, <1>3 DEF RobotInv, RobotTypes, OnePermission
<1>4. CASE /\ conn = "open"
           /\ SendMessages(<<Request("say", robot.msgId)>>)
           /\ robot' = [robot EXCEPT !.msgId = @ + 1]
  <2>1. robot \in Robots /\ robot' \in Robots /\ robot'.state = "creating"
    BY <1>2, <1>4 DEF Robots
  <2>2. Request("say", robot.msgId) \in Requests
    BY <2>1 DEF Request, Requests, Robots
  <2>3. toNation' = Append(toNation, Request("say", robot.msgId))
    BY <1>2, <1>4, <2>2, Appended DEF SendMessages
  <2> QED
    BY <1>1, <1>2, <2>1, <2>3, SaidStep
<1> QED
  BY <1>3, <1>4 DEF Report

(* The nation turns the request for the room into its answer, and the      *)
(* request to be let in into a join.                                       *)
LEMMA AnswerStep ==
  ASSUME RobotInv, NationAnswers
  PROVE  RobotInv'
<1> DEFINE m == Head(toNation)
<1>1. /\ toNation # <<>> /\ toNation' = Tail(toNation)
      /\ toRobot' = Append(toRobot, Response(m.id))
      /\ joins' = IF m.event = "join" /\ joins < 2 THEN joins + 1 ELSE joins
      /\ UNCHANGED <<conn, rxbuf, copy, robot>>
  BY DEF NationAnswers, robotVars
<1>2. toNation \in Seq(Requests) /\ toRobot \in Seq(Messages) /\ joins \in Nat
      /\ Once(toNation, Asking) /\ Once(toRobot, Answers)
  BY DEF RobotInv, RobotTypes, OnePermission
<1>3. /\ m \in Requests /\ toNation' \in Seq(Requests)
      /\ Once(toNation', Asking)
      /\ Never(toNation, Asking) => m \notin Asking /\ Never(toNation', Asking)
      /\ m \in Asking => Never(toNation', Asking)
  BY <1>1, <1>2, Popped
<1> HIDE DEF m
<1>4. Response(m.id) \in Messages
  BY <1>3 DEF Response, Messages, Requests
<1>5. /\ toRobot' \in Seq(Messages)
      /\ Never(toRobot, Answers) => Once(toRobot', Answers)
      /\ Response(m.id) \notin Answers =>
           /\ Once(toRobot', Answers)
           /\ Never(toRobot, Answers) => Never(toRobot', Answers)
  BY <1>1, <1>2, <1>4, Appended
<1>6. RobotTypes'
  BY <1>1, <1>2, <1>3, <1>5 DEF RobotInv, RobotTypes
<1>7. OnePermission'
  <2>1. CASE m.event = "create"
    <3>1. m \in Asking /\ joins' = joins
      BY <1>1, <1>3, <2>1 DEF Asking
    <3>2. Never(toRobot, Answers) /\ Never(rxbuf, Answers) /\ joins = 0
      BY <1>3, <3>1 DEF RobotInv, OnePermission
    <3> QED
      BY <1>1, <1>3, <1>5, <3>1, <3>2 DEF RobotInv, OnePermission
  <2>2. CASE m.event # "create"
    <3>1. Response(m.id) \notin Answers
      BY <1>3, <2>2 DEF Response, Answers, Requests
    <3>2. CASE m.event = "join"
      <4>1. m \in Asking
        BY <1>3, <3>2 DEF Asking
      <4>2. Never(toRobot, Answers) /\ Never(rxbuf, Answers) /\ joins = 0
        BY <1>3, <4>1 DEF RobotInv, OnePermission
      <4>3. joins' = 1
        BY <1>1, <3>2, <4>2
      <4> QED
        BY <1>1, <1>3, <1>5, <3>1, <4>1, <4>2, <4>3 DEF RobotInv, OnePermission
    <3>3. CASE m.event # "join"
      <4>1. joins' = joins
        BY <1>1, <3>3
      <4> QED
        BY <1>1, <1>3, <1>5, <3>1, <4>1 DEF RobotInv, OnePermission
    <3> QED
      BY <3>2, <3>3
  <2> QED
    BY <2>1, <2>2
<1> QED
  BY <1>6, <1>7 DEF RobotInv

(* What others say in the room is no answer.                               *)
LEMMA SaysStep ==
  ASSUME RobotInv, NationSays
  PROVE  RobotInv'
<1>1. toRobot' = Append(toRobot, User)
      /\ UNCHANGED <<conn, toNation, joins, rxbuf, copy, robot>>
  BY DEF NationSays, robotVars
<1>2. User \in Messages /\ User \notin Answers
  BY DEF User, Messages, Answers
<1>3. toRobot \in Seq(Messages)
  BY DEF RobotInv, RobotTypes
<1>4. /\ toRobot' \in Seq(Messages)
      /\ Once(toRobot, Answers) => Once(toRobot', Answers)
      /\ Never(toRobot, Answers) => Never(toRobot', Answers)
  BY <1>1, <1>2, <1>3, Appended
<1>5. RobotTypes'
  BY <1>1, <1>4 DEF RobotInv, RobotTypes
<1>6. OnePermission'
  BY <1>1, <1>4 DEF RobotInv, OnePermission
<1> QED
  BY <1>5, <1>6 DEF RobotInv

(* The connection breaks.                                                  *)
LEMMA DropStep ==
  ASSUME RobotInv, Drop
  PROVE  RobotInv'
<1>1. /\ conn' # "open" /\ toNation' = <<>> /\ toRobot' = <<>>
      /\ UNCHANGED <<joins, rxbuf, copy, robot>>
  BY DEF Drop, robotVars
<1>2. \A T : <<>> \in Seq(T)
  OBVIOUS
<1>3. RobotTypes'
  BY <1>1, <1>2 DEF RobotInv, RobotTypes
<1>4. OnePermission'
  BY <1>1, Silence DEF RobotInv, OnePermission
<1> QED
  BY <1>3, <1>4 DEF RobotInv

(* What is done to the robot by a step of the box or around it             *)
LEMMA RobotActs ==
  ASSUME [BoxNext]_boxVars
  PROVE  \/ UNCHANGED chatRobotVars
         \/ RobotStep(token, Reachable)
         \/ NationAnswers \/ NationSays \/ Drop \/ RobotStarts
<1>1. CASE UNCHANGED boxVars
  BY <1>1 DEF boxVars
<1>2. CASE BoxNext
  BY <1>2 DEF BoxNext, Loop, Chat, RobotStep, NationGone, Dies
<1> QED
  BY <1>1, <1>2

(* No step lets the robot ask twice.                                       *)
LEMMA RobotKeeps ==
  ASSUME RobotInv, [BoxNext]_boxVars
  PROVE  RobotInv'
<1>1. CASE UNCHANGED chatRobotVars
  BY <1>1 DEF chatRobotVars, socketVars, robotVars, RobotInv, RobotTypes,
              OnePermission
<1>2. CASE WakeUp(token) \/ RoomLost \/ HandshakeFails
  BY <1>2 DEF WakeUp, RoomLost, HandshakeFails, socketVars, RobotInv,
              RobotTypes, OnePermission
<1>3. CASE Dispatched
  BY <1>3 DEF Dispatched, socketVars, RobotInv, RobotTypes, OnePermission
<1>4. CASE RobotStarts
  BY <1>4, FreshRobot DEF RobotStarts
<1> QED
  BY <1>1, <1>2, <1>3, <1>4, RobotActs, ConnectStep, HandshakeStep, PollStep, HandleStep,
     ReportStep, AnswerStep, SaysStep, DropStep DEF RobotStep

(* On one connection the robot asks to be let in at most once, for any     *)
(* number of messages, of connections and of lives of the box.             *)
THEOREM AsksOnce == BoxSpec => []JoinsOnce
<1>1. BoxInit => RobotInv
  <2>1. \A T : <<>> \in Seq(T)
    OBVIOUS
  <2>2. BoxInit => RobotTypes
    BY <2>1 DEF BoxInit, RobotInit, RobotTypes
  <2>3. BoxInit => OnePermission
    BY Silence DEF BoxInit, RobotInit, OnePermission
  <2> QED
    BY <2>2, <2>3 DEF RobotInv
<1>2. RobotInv /\ [BoxNext]_boxVars => RobotInv'
  BY RobotKeeps
<1>3. RobotInv => JoinsOnce
  BY DEF RobotInv, OnePermission, JoinsOnce
<1> QED
  BY <1>1, <1>2, <1>3, PTL DEF BoxSpec
=============================================================================
