------------------------------ MODULE Recorder ------------------------------
(***************************************************************************)
(* Recorder: how a room is recorded.  Three threads share one              *)
(* PacketStreamWriter: the chat thread opens and closes recordings, the    *)
(* packet thread writes the packets it forwards, and the writer's worker,  *)
(* when notified, moves what was queued to the file and closes the file.   *)
(* Only the queue is guarded by the mutex; the flag m_writing and the      *)
(* stream are not.  A step is what a thread does between two points at     *)
(* which another thread can change what it sees.                           *)
(***************************************************************************)
EXTENDS Integers, Sequences

CONSTANTS
  MaxRecordings,  \* bound on the calls of writeOpen that try to open a file
  MaxPackets,     \* bound on the packets written
  SizeLimit,      \* in fragments, for the 1500000000 bytes
  SpuriousWakes   \* bound on the condition variable's unnotified wakes

ASSUME RecorderAssumption ==
  /\ MaxRecordings \in Nat /\ MaxPackets \in Nat
  /\ SizeLimit \in Nat \ {0} /\ SpuriousWakes \in Nat

VARIABLES
  writing,    \* m_writing
  sizeCount,  \* m_sizeCount
  queue,      \* m_queue
  locked,     \* the worker holds m_mutex; a push holds it within one step
  fileOpen, fileBad,  \* the stream m_outfile: is_open, not good
  file,       \* what the open file holds
  saved,      \* the files closed so far
  swallowed,  \* history: a fragment was written to a stream that dropped it
  worker,     \* where the worker is
  todo,       \* what the chat and packet threads still have to do in a call
  tested,     \* a thread's write found m_writing set and has yet to push
  recordings, packets, spurious,  \* how many there were
  pushes      \* history: fragments queued so far

stream == <<fileOpen, fileBad, file, saved, swallowed>>
threads == <<worker, todo, tested>>
counters == <<recordings, packets, spurious, pushes>>
vars == <<writing, sizeCount, queue, locked, stream, threads, counters>>

Thread == {"chat", "packet"}
Header == <<"count", "metadata">>        \* the two writes of writeOpen
Packet == <<"time", "size", "body">>     \* the three writes of writePacket
Writes == {"count", "metadata", "time", "size", "body"}

(* The condition variable wakes a waiting worker, notified or not.         *)
Woken ==
  \/ worker = "notified" /\ UNCHANGED spurious
  \/ /\ worker = "waiting" /\ spurious < SpuriousWakes
     /\ spurious' = spurious + 1

-----------------------------------------------------------------------------
(* Bugs this code could have; each replaces the definition named beside it *)
DrainKeepsQueue ==               \* Drain: forgets the pop of the last one
  /\ worker = "draining" /\ queue # <<>>
  /\ file' = IF fileOpen THEN Append(file, Head(queue)) ELSE file
  /\ queue' = IF Len(queue) > 1 THEN Tail(queue) ELSE queue
  /\ worker' = IF Len(queue) > 1 THEN worker ELSE "drained"
  /\ UNCHANGED <<writing, sizeCount, locked, fileOpen, fileBad, saved,
                 swallowed, todo, tested, counters>>
DrainPopsFirst ==                \* Drain: takes the front after the pop
  /\ worker = "draining" /\ queue # <<>>
  /\ queue' = Tail(queue)
  /\ file' = IF fileOpen /\ Len(queue) > 1 THEN Append(file, queue[2]) ELSE file
  /\ UNCHANGED <<writing, sizeCount, locked, fileOpen, fileBad, saved,
                 swallowed, threads, counters>>
WakeWithoutLock ==               \* Wake: drains without the mutex
  /\ Woken
  /\ ~locked
  /\ worker' = "draining"
  /\ UNCHANGED <<writing, sizeCount, queue, locked, stream, todo, tested,
                 recordings, packets, pushes>>
CheckCloseKeepsLock ==           \* CheckClose: the mutex is not let go
  /\ worker = "drained"
  /\ worker' = "top"
  /\ UNCHANGED <<writing, sizeCount, queue, locked, stream, todo, tested,
                 counters>>
StreamCloseLeaves == UNCHANGED stream  \* StreamClose: does not close

-----------------------------------------------------------------------------
(* ofstream: a stream that is closed, or not good, swallows what is        *)
(* written; open fails on a stream still open (or on a file name that      *)
(* cannot be written) and leaves it not good; tellp is -1 when not good.   *)

StreamWrite(fragment) ==
  /\ IF fileOpen /\ ~fileBad
     THEN file' = Append(file, fragment) /\ UNCHANGED <<fileBad, swallowed>>
     ELSE fileBad' = TRUE /\ swallowed' = TRUE /\ UNCHANGED file
  /\ UNCHANGED <<fileOpen, saved>>

StreamClose ==
  /\ UNCHANGED swallowed
  /\ IF fileOpen
     THEN /\ fileOpen' = FALSE /\ file' = <<>>
          /\ saved' = Append(saved, file)
          /\ UNCHANGED fileBad
     ELSE fileBad' = TRUE /\ UNCHANGED <<fileOpen, file, saved>>

StreamOpen(ok) ==
  /\ fileOpen' = (fileOpen \/ ok)
  /\ fileBad' = ~ok
  /\ UNCHANGED <<file, saved, swallowed>>

StreamFull == fileOpen /\ ~fileBad /\ Len(file) > SizeLimit

-----------------------------------------------------------------------------
(* notify_one, for a worker that waits; for any other it is lost           *)
NotifyWorker == worker' = IF worker = "waiting" THEN "notified" ELSE worker

(* PacketStreamWriter::write tests m_writing ...                           *)
TestWriting(t) ==
  /\ todo[t] # <<>> /\ ~tested[t] /\ Head(todo[t]) \in Writes
  /\ IF writing
     THEN tested' = [tested EXCEPT ![t] = TRUE] /\ UNCHANGED todo
     ELSE todo' = [todo EXCEPT ![t] = Tail(@)] /\ UNCHANGED tested
  /\ UNCHANGED <<writing, sizeCount, queue, locked, stream, worker, counters>>

(* ... and pushes once it has the mutex.  A recording that got too long is *)
(* closed from in here.                                                    *)
Push(t) ==
  /\ tested[t] /\ ~locked
  /\ queue' = Append(queue, [part |-> Head(todo[t]),
                             of |-> IF t = "chat" THEN recordings ELSE packets,
                             no |-> pushes + 1])
  /\ pushes' = pushes + 1
  /\ sizeCount' = sizeCount + 1
  /\ IF sizeCount' > SizeLimit
     THEN writing' = FALSE /\ NotifyWorker
     ELSE UNCHANGED <<writing, worker>>
  /\ tested' = [tested EXCEPT ![t] = FALSE]
  /\ todo' = [todo EXCEPT ![t] = Tail(@)]
  /\ UNCHANGED <<locked, stream, recordings, packets, spurious>>

-----------------------------------------------------------------------------
(* The worker thread *)

(* Locks the mutex and waits, which lets go of it again                    *)
StartWait ==
  /\ worker = "top" /\ ~locked
  /\ worker' = "waiting"
  /\ UNCHANGED <<writing, sizeCount, queue, locked, stream, todo, tested,
                 counters>>

Wake ==
  /\ Woken
  /\ ~locked
  /\ worker' = "draining" /\ locked' = TRUE
  /\ UNCHANGED <<writing, sizeCount, queue, stream, todo, tested, recordings,
                 packets, pushes>>

Drain ==
  /\ worker = "draining" /\ queue # <<>>
  /\ StreamWrite(Head(queue))
  /\ queue' = Tail(queue)
  /\ UNCHANGED <<writing, sizeCount, locked, threads, counters>>

CheckFull ==
  /\ worker = "draining" /\ queue = <<>>
  /\ writing' = (writing /\ ~StreamFull)
  /\ worker' = "drained"
  /\ UNCHANGED <<sizeCount, queue, locked, stream, todo, tested, counters>>

CheckClose ==
  /\ worker = "drained"
  /\ IF writing THEN UNCHANGED stream ELSE StreamClose
  /\ worker' = "top" /\ locked' = FALSE
  /\ UNCHANGED <<writing, sizeCount, queue, todo, tested, counters>>

-----------------------------------------------------------------------------
(* The chat thread *)

(* recordRoom: writeOpen as far as opening the stream.  nameOk is whether  *)
(* the file can be created.                                                *)
Record(nameOk) ==
  /\ todo["chat"] = <<>> /\ ~writing /\ recordings < MaxRecordings
  /\ recordings' = recordings + 1
  /\ LET ok == nameOk /\ ~fileOpen
     IN  /\ StreamOpen(ok)
         /\ todo' = IF ok
                    THEN [todo EXCEPT !["chat"] = <<"start", "reset">> \o Header]
                    ELSE todo
  /\ UNCHANGED <<writing, sizeCount, queue, locked, worker, tested, packets,
                 spurious, pushes>>

StartWriting ==
  /\ todo["chat"] # <<>> /\ Head(todo["chat"]) = "start"
  /\ writing' = TRUE
  /\ todo' = [todo EXCEPT !["chat"] = Tail(@)]
  /\ UNCHANGED <<sizeCount, queue, locked, stream, worker, tested, counters>>

(* Until then the count is that of the recording before.  (open returns    *)
(* the flag once more; when it is clear the header's writes do nothing.)   *)
ResetCount ==
  /\ todo["chat"] # <<>> /\ Head(todo["chat"]) = "reset"
  /\ sizeCount' = 0
  /\ todo' = [todo EXCEPT !["chat"] = Tail(@)]
  /\ UNCHANGED <<writing, queue, locked, stream, worker, tested, counters>>

(* stopAudio, while is_open *)
Stop ==
  /\ todo["chat"] = <<>> /\ writing
  /\ todo' = [todo EXCEPT !["chat"] = <<"clear", "notify">>]
  /\ UNCHANGED <<writing, sizeCount, queue, locked, stream, worker, tested,
                 counters>>

ClearWriting ==
  /\ todo["chat"] # <<>> /\ Head(todo["chat"]) = "clear"
  /\ writing' = FALSE
  /\ todo' = [todo EXCEPT !["chat"] = Tail(@)]
  /\ UNCHANGED <<sizeCount, queue, locked, stream, worker, tested, counters>>

Notify ==
  /\ todo["chat"] # <<>> /\ Head(todo["chat"]) = "notify"
  /\ NotifyWorker
  /\ todo' = [todo EXCEPT !["chat"] = Tail(@)]
  /\ UNCHANGED <<writing, sizeCount, queue, locked, stream, tested, counters>>

(* The packet thread: writePacket, while is_open                           *)
WritePacket ==
  /\ todo["packet"] = <<>> /\ writing /\ packets < MaxPackets
  /\ packets' = packets + 1
  /\ todo' = [todo EXCEPT !["packet"] = Packet]
  /\ UNCHANGED <<writing, sizeCount, queue, locked, stream, worker, tested,
                 recordings, spurious, pushes>>

-----------------------------------------------------------------------------
Init ==
  /\ writing = FALSE /\ sizeCount = 0
  /\ queue = <<>> /\ locked = FALSE
  /\ fileOpen = FALSE /\ fileBad = FALSE /\ file = <<>> /\ saved = <<>>
  /\ swallowed = FALSE
  /\ worker = "top"
  /\ todo = [t \in Thread |-> <<>>] /\ tested = [t \in Thread |-> FALSE]
  /\ recordings = 0 /\ packets = 0 /\ spurious = 0 /\ pushes = 0

Worker == StartWait \/ Wake \/ Drain \/ CheckFull \/ CheckClose

Next ==
  \/ Worker
  \/ \E t \in Thread : TestWriting(t) \/ Push(t)
  \/ \E nameOk \in BOOLEAN : Record(nameOk)
  \/ StartWriting \/ ResetCount \/ Stop \/ ClearWriting \/ Notify
  \/ WritePacket

Spec == Init /\ [][Next]_vars

(* Threads that can go on do.  Nothing makes a packet come, the chat ask   *)
(* for something, or the condition variable wake by itself.                *)
Fairness ==
  /\ WF_vars(Worker /\ (worker # "waiting"))
  /\ \A t \in Thread : WF_vars(TestWriting(t)) /\ WF_vars(Push(t))
  /\ WF_vars(StartWriting) /\ WF_vars(ResetCount)
  /\ WF_vars(ClearWriting) /\ WF_vars(Notify)

FairSpec == Spec /\ Fairness

-----------------------------------------------------------------------------
(* What was written goes from the queue to the files in the order it came: *)
(* no fragment is in two places, and none overtakes another, whatever the  *)
(* worker, the stops and the starts do in between.                         *)
Places == saved \o <<file, queue>>
InPushOrder ==
  \A i, j \in DOMAIN Places :
    \A k \in DOMAIN Places[i], l \in DOMAIN Places[j] :
      (i < j \/ (i = j /\ k < l)) => Places[i][k].no < Places[j][l].no

(* As long as the stream drops nothing no fragment is lost between the     *)
(* writer that has pushed it and the files: not by a stop, nor by a file   *)
(* that got too long, nor by the next recording.                           *)
NothingLost ==
  ~swallowed =>
    \A n \in 1..pushes :
      \E i \in DOMAIN Places :
        \E k \in DOMAIN Places[i] : Places[i][k].no = n

(* The worker closes a file with the queue empty: no writer has slipped in *)
(* between its last look at the queue and the closing.                     *)
FlushedBeforeClose == [][saved' # saved => queue = <<>>]_vars

(* A stop whose notification reaches the worker gets the file closed.  (A  *)
(* late notification can also meet the file of the next recording, before  *)
(* that has begun to write.)                                               *)
NotifiedCloses ==
  worker = "notified" /\ ~writing /\ fileOpen ~> ~fileOpen \/ writing

(* The packet thread, which forwards the room's audio, gets the mutex in   *)
(* the end although the worker keeps it for a whole flush.                 *)
PacketProceeds == tested["packet"] ~> ~tested["packet"]

-----------------------------------------------------------------------------
(* "This close needs to be done by the worker thread when it's done        *)
(* flushing": after a stop the worker closes the file.                     *)
StopCloses == ~writing /\ fileOpen /\ todo["chat"] = <<>> ~> ~fileOpen
=============================================================================
