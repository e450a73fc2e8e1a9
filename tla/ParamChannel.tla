----------------------------- MODULE ParamChannel ---------------------------
(***************************************************************************)
(* ParamChannel: the POSIX message queue by which rtjam-box sends          *)
(* parameters to the parameter thread of rtjam-sound.  Every browser's     *)
(* request has a thread of the box's web API, and first flushes the queue, *)
(* message by message; the websocket robot sends without a flush.  A send  *)
(* to a full queue waits.  The queue outlives rtjam-sound, which may crash *)
(* and is started again by systemd.                                        *)
(***************************************************************************)
EXTENDS Integers, Sequences

CONSTANTS
  Browser,     \* threads of the web API that handle a POST
  Robot,       \* the websocket thread
  QueueSize,   \* mq_maxmsg
  MaxParams,   \* bound: parameters sent, but for those begun
  MaxCrashes   \* bound: crashes of rtjam-sound

ASSUME ChannelAssumption ==
  /\ Robot \notin Browser
  /\ QueueSize \in Nat \ {0}
  /\ MaxParams \in Nat /\ MaxCrashes \in Nat

Sender == Browser \cup {Robot}

VARIABLES
  queue,    \* the parameters queued, numbered as they came to be queued
  newest,   \* the last number given
  doing,    \* what every sender is at
  getter,   \* "receiving" and "applying" parameters, or "down"
  taken,    \* the last parameter rtjam-sound received
  crashes   \* how often it crashed

box == <<newest, doing>>
sounder == <<getter, taken, crashes>>
paramVars == <<queue, box, sounder>>

-----------------------------------------------------------------------------
(* Bugs this code could have; each replaces the definition named beside it *)
PutFirst(q, n) == <<n>> \o q      \* Put: with a higher priority
SendOrFail(s) ==                  \* Send: does not wait for room
  /\ doing[s] = "sending"
  /\ newest' = newest + 1
  /\ queue' = IF Len(queue) < QueueSize THEN Append(queue, newest') ELSE queue
  /\ doing' = [doing EXCEPT ![s] = "idle"]
  /\ UNCHANGED sounder
FlushWaits(b) == FALSE            \* FlushEnds: a receive without a deadline
RestartEmpty ==                   \* SoundRestarts: the queue is made anew
  /\ getter = "down"
  /\ getter' = "receiving" /\ queue' = <<>>
  /\ UNCHANGED <<box, taken, crashes>>

-----------------------------------------------------------------------------
(* rtjam-box                                                               *)

BeginPost(s, what) ==
  /\ doing[s] = "idle"
  /\ newest < MaxParams
  /\ doing' = [doing EXCEPT ![s] = what]
  /\ UNCHANGED <<queue, newest, sounder>>

(* setParam, for a parameter of the sound engine                           *)
Post(b) == BeginPost(b, "flushing")

(* doMessage of the robot                                                  *)
Message == BeginPost(Robot, "sending")

(* flush: one message is received and dropped.                             *)
FlushOne(b) ==
  /\ doing[b] = "flushing"
  /\ queue # <<>> /\ queue' = Tail(queue)
  /\ UNCHANGED <<box, sounder>>

(* The deadline has passed already: an empty queue ends the flush.         *)
FlushEnds(b) ==
  /\ doing[b] = "flushing"
  /\ queue = <<>>
  /\ doing' = [doing EXCEPT ![b] = "sending"]
  /\ UNCHANGED <<queue, newest, sounder>>

Put(q, n) == Append(q, n)

(* mq_send; the request is answered after it.                              *)
Send(s) ==
  /\ doing[s] = "sending"
  /\ Len(queue) < QueueSize
  /\ newest' = newest + 1
  /\ queue' = Put(queue, newest')
  /\ doing' = [doing EXCEPT ![s] = "idle"]
  /\ UNCHANGED sounder

-----------------------------------------------------------------------------
(* rtjam-sound: getParams receives a parameter, then carries it out.       *)

Receive ==
  /\ getter = "receiving"
  /\ queue # <<>> /\ queue' = Tail(queue)
  /\ taken' = Head(queue) /\ getter' = "applying"
  /\ UNCHANGED <<box, crashes>>

Apply ==
  /\ getter = "applying" /\ getter' = "receiving"
  /\ UNCHANGED <<queue, box, taken, crashes>>

SoundCrashes ==
  /\ getter # "down" /\ getter' = "down"
  /\ crashes < MaxCrashes /\ crashes' = crashes + 1
  /\ UNCHANGED <<queue, box, taken>>

SoundRestarts ==
  /\ getter = "down" /\ getter' = "receiving"
  /\ UNCHANGED <<queue, box, taken, crashes>>

-----------------------------------------------------------------------------
ParamInit ==
  /\ queue = <<>> /\ newest = 0
  /\ doing = [s \in Sender |-> "idle"]
  /\ getter = "receiving" /\ taken = 0 /\ crashes = 0

Flush(b) == FlushOne(b) \/ FlushEnds(b)

ParamNext ==
  \/ Message
  \/ \E b \in Browser : Post(b) \/ Flush(b)
  \/ \E s \in Sender : Send(s)
  \/ Receive \/ Apply \/ SoundCrashes \/ SoundRestarts

ParamSpec == ParamInit /\ [][ParamNext]_paramVars

(* Threads are scheduled, carrying out a parameter ends, and systemd has   *)
(* Restart=always for rtjam-sound.                                         *)
FairParamSpec ==
  /\ ParamSpec
  /\ \A b \in Browser : WF_paramVars(Flush(b))
  /\ \A s \in Sender : WF_paramVars(Send(s))
  /\ WF_paramVars(Receive) /\ WF_paramVars(Apply)
  /\ WF_paramVars(SoundRestarts)

-----------------------------------------------------------------------------
(* The types, as the proofs need them: the queue keeps to its size.        *)
ParamTypeOK ==
  /\ queue \in Seq(1..newest) /\ Len(queue) <= QueueSize
  /\ newest \in Nat /\ taken \in 0..newest
  /\ doing \in [Sender -> {"idle", "flushing", "sending"}]
  /\ getter \in {"receiving", "applying", "down"}
  /\ crashes \in 0..MaxCrashes

(* No flush loses the parameter sent last: when no POST is under way, it   *)
(* is in the queue or rtjam-sound has it, whoever sent it, and whatever    *)
(* was flushed or received while it was being sent.                        *)
NewestSafe ==
  (\A b \in Browser : doing[b] = "idle")
    => \/ newest = taken
       \/ \E i \in DOMAIN queue : queue[i] = newest

(* rtjam-sound never receives an older parameter after a newer one, not    *)
(* even across a crash; of those flushed it receives none.                 *)
InOrder == [][taken' # taken => taken' > taken]_paramVars

(* Every request is answered: no sender waits for ever at a full queue and *)
(* no flush goes on for ever, though rtjam-sound crashes and is restarted. *)
PostsReturn ==
  \A s \in Sender : doing[s] # "idle" ~> doing[s] = "idle"

(* Whatever was sent, rtjam-sound comes to receive it or what was sent     *)
(* after it, though it was down when it was sent.                          *)
NewestTaken ==
  \A n \in 1..MaxParams : newest >= n ~> taken >= n
=============================================================================
