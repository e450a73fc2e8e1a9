--------------------------- MODULE RecorderProofs ---------------------------
(***************************************************************************)
(* What was written of a room goes to the files in its order, and no file  *)
(* is closed before the queue is empty, for any number of recordings, of   *)
(* packets and of spurious wakes and any size limit; and nothing is lost   *)
(* on the way that the stream has not dropped.                             *)
(*                                                                         *)
(* IInv is the inductive invariant: the types, what the mutex guards       *)
(* (MutexOK), that a writer's test is still about the fragment it is to    *)
(* push (TestedOK), and that the fragments in the saved files, the open    *)
(* file and the queue are numbered in this order (OrderOK).                *)
(***************************************************************************)
EXTENDS Recorder, SequenceTheorems, TLAPS

Chores == Writes \cup {"start", "reset", "clear", "notify"}
Fragment == [part : Chores, of : Nat, no : Nat]

TypeOK ==
  /\ writing \in BOOLEAN /\ locked \in BOOLEAN
  /\ sizeCount \in Nat /\ recordings \in Nat /\ packets \in Nat
  /\ pushes \in Nat
  /\ queue \in Seq(Fragment)
  /\ file \in Seq(Fragment) /\ saved \in Seq(Seq(Fragment))
  /\ worker \in {"top", "waiting", "notified", "draining", "drained"}
  /\ todo \in [Thread -> Seq(Chores)]
  /\ tested \in [Thread -> BOOLEAN]

(* The worker holds the mutex from its wake until it goes back to wait, and *)
(* nothing has come into the queue since it found it empty.                *)
MutexOK ==
  /\ locked <=> worker \in {"draining", "drained"}
  /\ worker = "drained" => queue = <<>>

TestedOK ==
  \A t \in Thread : tested[t] => todo[t] # <<>> /\ Head(todo[t]) \in Writes

(* Fragments in the order of their numbers, one sequence after another,    *)
(* and none newer than the last one pushed.                                *)
Ordered(s) == \A k, l \in DOMAIN s : k < l => s[k].no < s[l].no
Before(s, t) == \A k \in DOMAIN s, l \in DOMAIN t : s[k].no < t[l].no
UpTo(s, n) == \A k \in DOMAIN s : s[k].no <= n

Archive(files) ==
  /\ \A i \in DOMAIN files : Ordered(files[i])
  /\ \A i, j \in DOMAIN files : i < j => Before(files[i], files[j])
AllBefore(files, t) == \A i \in DOMAIN files : Before(files[i], t)
AllUpTo(files, n) == \A i \in DOMAIN files : UpTo(files[i], n)

OrderOK ==
  /\ Archive(saved) /\ AllBefore(saved, file) /\ AllBefore(saved, queue)
  /\ Ordered(file) /\ Before(file, queue) /\ Ordered(queue)
  /\ AllUpTo(saved, pushes) /\ UpTo(file, pushes) /\ UpTo(queue, pushes)

IInv == TypeOK /\ MutexOK /\ TestedOK /\ OrderOK

USE RecorderAssumption

-----------------------------------------------------------------------------
(* A fragment's number is a number.                                        *)
LEMMA Numbered == \A f \in Fragment : f.no \in Nat
BY DEF Fragment

(* A fragment behind all others.                                           *)
LEMMA AppendedLast ==
  ASSUME NEW s \in Seq(Fragment), NEW f \in Fragment, Ordered(s),
         \A k \in DOMAIN s : s[k].no < f.no
  PROVE  /\ Append(s, f) \in Seq(Fragment) /\ Ordered(Append(s, f))
         /\ \A n \in Nat : UpTo(s, n) /\ f.no <= n => UpTo(Append(s, f), n)
<1> DEFINE u == Append(s, f)
<1>1. /\ Len(s) \in Nat /\ DOMAIN s = 1..Len(s)
      /\ u \in Seq(Fragment) /\ DOMAIN u = 1..(Len(s) + 1)
      /\ \A k \in 1..Len(s) : u[k] = s[k]
      /\ u[Len(s) + 1] = f
  BY AppendProperties
<1> HIDE DEF u
<1>2. \A k \in DOMAIN u :
        \/ k \in DOMAIN s /\ u[k] = s[k]
        \/ k = Len(s) + 1 /\ u[k] = f
  BY <1>1
<1>3. Ordered(u)
  <2> SUFFICES ASSUME NEW k \in DOMAIN u, NEW l \in DOMAIN u, k < l
               PROVE  u[k].no < u[l].no
    BY DEF Ordered
  <2>1. k \in DOMAIN s /\ u[k] = s[k]
    BY <1>1
  <2>2. CASE l = Len(s) + 1
    BY <1>1, <2>1, <2>2
  <2>3. CASE l # Len(s) + 1
    BY <1>2, <2>1, <2>3 DEF Ordered
  <2> QED
    BY <2>2, <2>3
<1>4. \A n \in Nat : UpTo(s, n) /\ f.no <= n => UpTo(u, n)
  BY <1>2 DEF UpTo
<1> QED
  BY <1>1, <1>3, <1>4 DEF u

(* What is in a longer sequence was in the shorter one, or is the last.    *)
LEMMA InAppended ==
  ASSUME NEW T, NEW s \in Seq(T), NEW f \in T, NEW k \in DOMAIN Append(s, f)
  PROVE  (\E l \in DOMAIN s : Append(s, f)[k] = s[l]) \/ Append(s, f)[k] = f
<1>1. /\ Len(s) \in Nat /\ DOMAIN s = 1..Len(s)
      /\ Append(s, f) \in Seq(T) /\ Len(Append(s, f)) = Len(s) + 1
      /\ \A i \in 1..Len(s) : Append(s, f)[i] = s[i]
      /\ Append(s, f)[Len(s) + 1] = f
  BY AppendProperties
<1>2. k \in 1..(Len(s) + 1)
  BY <1>1
<1> QED
  BY <1>1, <1>2

(* The head of a queue is before the rest of it.                           *)
LEMMA HeadFirst ==
  ASSUME NEW s \in Seq(Fragment), s # <<>>, Ordered(s)
  PROVE  /\ Head(s) \in Fragment /\ Tail(s) \in Seq(Fragment)
         /\ Ordered(Tail(s)) /\ 1 \in DOMAIN s /\ Head(s) = s[1]
         /\ \A k \in DOMAIN Tail(s) :
              Head(s).no < Tail(s)[k].no
              /\ \E l \in DOMAIN s : Tail(s)[k] = s[l]
<1>1. /\ Len(s) \in Nat /\ Len(s) >= 1 /\ DOMAIN s = 1..Len(s)
      /\ Head(s) = s[1] /\ s[1] \in Fragment
      /\ Tail(s) \in Seq(Fragment) /\ DOMAIN Tail(s) = 1..(Len(s) - 1)
      /\ \A k \in 1..(Len(s) - 1) : Tail(s)[k] = s[k + 1]
  OBVIOUS
<1>2. \A k \in 1..(Len(s) - 1) : k + 1 \in 1..Len(s) /\ 1 < k + 1
  BY <1>1
<1>3. Ordered(Tail(s))
  BY <1>1, <1>2 DEF Ordered
<1> QED
  BY <1>1, <1>2, <1>3 DEF Ordered

(* A file closed behind all others.                                        *)
LEMMA SavedLast ==
  ASSUME NEW files \in Seq(Seq(Fragment)), NEW f \in Seq(Fragment),
         Archive(files), AllBefore(files, f), Ordered(f)
  PROVE  /\ Append(files, f) \in Seq(Seq(Fragment))
         /\ Archive(Append(files, f))
         /\ \A t : AllBefore(files, t) /\ Before(f, t)
                     => AllBefore(Append(files, f), t)
         /\ \A n : AllUpTo(files, n) /\ UpTo(f, n)
                     => AllUpTo(Append(files, f), n)
<1> DEFINE more == Append(files, f)
<1>1. /\ Len(files) \in Nat /\ DOMAIN files = 1..Len(files)
      /\ more \in Seq(Seq(Fragment)) /\ DOMAIN more = 1..(Len(files) + 1)
      /\ \A k \in 1..Len(files) : more[k] = files[k]
      /\ more[Len(files) + 1] = f
  BY AppendProperties
<1> HIDE DEF more
<1>2. \A k \in DOMAIN more :
        \/ k \in DOMAIN files /\ more[k] = files[k]
        \/ k = Len(files) + 1 /\ more[k] = f
  BY <1>1
<1>3. \A i \in DOMAIN more : Ordered(more[i])
  BY <1>2 DEF Archive
<1>4. ASSUME NEW i \in DOMAIN more, NEW j \in DOMAIN more, i < j
      PROVE  Before(more[i], more[j])
  <2>1. i \in DOMAIN files /\ more[i] = files[i]
    BY <1>1, <1>4
  <2> QED
    BY <1>2, <1>4, <2>1 DEF Archive, AllBefore
<1>5. Archive(more)
  BY <1>3, <1>4 DEF Archive
<1>6. \A t : AllBefore(files, t) /\ Before(f, t) => AllBefore(more, t)
  BY <1>2 DEF AllBefore
<1>7. \A n : AllUpTo(files, n) /\ UpTo(f, n) => AllUpTo(more, n)
  BY <1>2 DEF AllUpTo
<1> QED
  BY <1>1, <1>5, <1>6, <1>7 DEF more

-----------------------------------------------------------------------------
LEMMA InitStep == Init => IInv
<1> SUFFICES ASSUME Init PROVE IInv
  OBVIOUS
<1>1. TypeOK
  <2>1. \A T : <<>> \in Seq(T)
    OBVIOUS
  <2>2. /\ queue \in Seq(Fragment) /\ file \in Seq(Fragment)
        /\ saved \in Seq(Seq(Fragment))
    BY <2>1 DEF Init
  <2>3. todo \in [Thread -> Seq(Chores)] /\ tested \in [Thread -> BOOLEAN]
    BY <2>1 DEF Init
  <2> QED
    BY <2>2, <2>3 DEF Init, TypeOK
<1>2. MutexOK /\ TestedOK
  BY DEF Init, MutexOK, TestedOK
<1>3. OrderOK
  BY DEF Init, OrderOK, Archive, AllBefore, AllUpTo, Ordered, Before, UpTo
<1> QED
  BY <1>1, <1>2, <1>3 DEF IInv

(* What a thread has left when it is done with its next chore.             *)
LEMMA NextChore ==
  ASSUME IInv, NEW t \in Thread, todo[t] # <<>>
  PROVE  /\ Head(todo[t]) \in Chores /\ Tail(todo[t]) \in Seq(Chores)
         /\ [todo EXCEPT ![t] = Tail(@)] \in [Thread -> Seq(Chores)]
BY DEF IInv, TypeOK

(* A write takes its test, or leaves off.                                  *)
LEMMA TestStep ==
  ASSUME IInv, NEW t \in Thread, TestWriting(t)
  PROVE  IInv'
<1> USE DEF IInv
<1>1. UNCHANGED <<writing, sizeCount, queue, locked, fileOpen, fileBad, file,
                  saved, worker, recordings, packets, spurious, pushes>>
      /\ todo[t] # <<>> /\ ~tested[t] /\ Head(todo[t]) \in Writes
  BY DEF TestWriting, stream, counters
<1>2. \/ tested' = [tested EXCEPT ![t] = TRUE] /\ todo' = todo
      \/ todo' = [todo EXCEPT ![t] = Tail(@)] /\ tested' = tested
  BY DEF TestWriting
<1>3. TypeOK'
  BY <1>1, <1>2, NextChore DEF TypeOK
<1>4. TestedOK'
  BY <1>1, <1>2 DEF TestedOK, TypeOK
<1>5. MutexOK' /\ OrderOK'
  BY <1>1 DEF MutexOK, OrderOK
<1> QED
  BY <1>3, <1>4, <1>5

(* A push puts its fragment behind all others, and finds the mutex free.   *)
LEMMA PushStep ==
  ASSUME IInv, NEW t \in Thread, Push(t)
  PROVE  IInv'
<1> USE DEF IInv
<1> DEFINE f == [part |-> Head(todo[t]),
                 of |-> IF t = "chat" THEN recordings ELSE packets,
                 no |-> pushes + 1]
<1>1. /\ queue' = Append(queue, f) /\ pushes' = pushes + 1
      /\ sizeCount' = sizeCount + 1
      /\ tested' = [tested EXCEPT ![t] = FALSE]
      /\ todo' = [todo EXCEPT ![t] = Tail(@)]
      /\ UNCHANGED <<locked, file, saved, recordings, packets>>
      /\ ~locked /\ tested[t]
  BY DEF Push, stream
<1>2. writing' \in {writing, FALSE}
      /\ worker' \in {worker, IF worker = "waiting" THEN "notified" ELSE worker}
  BY DEF Push, NotifyWorker
<1>3. f \in Fragment /\ f.no = pushes + 1 /\ todo[t] # <<>>
  BY <1>1, NextChore DEF TestedOK, TypeOK, Fragment
<1> HIDE DEF f
<1>4. pushes \in Nat /\ queue \in Seq(Fragment) /\ file \in Seq(Fragment)
      /\ saved \in Seq(Seq(Fragment))
  BY DEF TypeOK
<1>5. \A k \in DOMAIN queue : queue[k] \in Fragment /\ queue[k].no < f.no
  <2>1. \A k \in DOMAIN queue : queue[k] \in Fragment
    BY <1>4
  <2>2. \A k \in DOMAIN queue : queue[k].no \in Nat /\ queue[k].no <= pushes
    BY <2>1, Numbered DEF OrderOK, UpTo
  <2> QED
    BY <1>3, <1>4, <2>1, <2>2
<1>6. /\ queue' \in Seq(Fragment) /\ Ordered(queue')
      /\ \A n \in Nat : UpTo(queue, n) /\ f.no <= n => UpTo(queue', n)
  BY <1>1, <1>3, <1>4, <1>5, AppendedLast DEF OrderOK
<1>7. TypeOK'
  <2>1. todo' \in [Thread -> Seq(Chores)]
    BY <1>1, <1>3, NextChore
  <2>2. tested' \in [Thread -> BOOLEAN]
    BY <1>1 DEF TypeOK
  <2>3. worker' \in {"top", "waiting", "notified", "draining", "drained"}
    BY <1>2 DEF TypeOK
  <2>4. writing' \in BOOLEAN /\ locked' \in BOOLEAN
    BY <1>1, <1>2 DEF TypeOK
  <2>5. /\ sizeCount' \in Nat /\ recordings' \in Nat /\ packets' \in Nat
        /\ pushes' \in Nat
    BY <1>1 DEF TypeOK
  <2>6. file' \in Seq(Fragment) /\ saved' \in Seq(Seq(Fragment))
    BY <1>1, <1>4
  <2> QED
    BY <1>6, <2>1, <2>2, <2>3, <2>4, <2>5, <2>6 DEF TypeOK
<1>8. MutexOK'
  BY <1>1, <1>2 DEF MutexOK
<1>9. TestedOK'
  BY <1>1 DEF TestedOK, TypeOK
<1>10. ASSUME NEW s \in Seq(Fragment), UpTo(s, pushes), Before(s, queue)
       PROVE  Before(s, queue') /\ UpTo(s, pushes')
  <2>1. \A k \in DOMAIN s : s[k].no \in Nat /\ s[k].no <= pushes
    <3>1. \A k \in DOMAIN s : s[k] \in Fragment
      OBVIOUS
    <3> QED
      BY <1>10, <3>1, Numbered DEF UpTo
  <2>2. UpTo(s, pushes')
    BY <1>1, <1>4, <2>1 DEF UpTo
  <2>3. \A l \in DOMAIN queue' : (\E m \in DOMAIN queue : queue'[l] = queue[m])
                                 \/ queue'[l] = f
    BY <1>1, <1>3, <1>4, InAppended
  <2>4. Before(s, queue')
    BY <1>3, <1>4, <1>10, <2>1, <2>3 DEF Before
  <2> QED
    BY <2>2, <2>4
<1>11. OrderOK'
  <2>1. Before(file, queue') /\ UpTo(file, pushes')
    BY <1>4, <1>10 DEF OrderOK
  <2>2. \A i \in DOMAIN saved : saved[i] \in Seq(Fragment)
    BY <1>4
  <2>3. AllBefore(saved, queue') /\ AllUpTo(saved, pushes')
    BY <1>10, <2>2 DEF OrderOK, AllBefore, AllUpTo
  <2>4. UpTo(queue', pushes')
    <3>1. UpTo(queue, pushes')
      <4>1. \A k \in DOMAIN queue : queue[k].no \in Nat
        BY <1>5, Numbered
      <4> QED
        BY <1>1, <1>4, <4>1 DEF OrderOK, UpTo
    <3> QED
      BY <1>1, <1>3, <1>4, <1>6, <3>1
  <2> QED
    BY <1>1, <1>6, <2>1, <2>3, <2>4 DEF OrderOK
<1> QED
  BY <1>7, <1>8, <1>9, <1>11

-----------------------------------------------------------------------------
(* The worker waits and wakes.                                             *)
LEMMA WaitStep ==
  ASSUME IInv, StartWait \/ Wake
  PROVE  IInv'
<1>1. UNCHANGED <<writing, sizeCount, queue, file, saved, todo, tested,
                  recordings, packets, pushes>> /\ ~locked
      /\ \/ worker' = "waiting" /\ locked' = locked
         \/ worker' = "draining" /\ locked' = TRUE
  BY DEF StartWait, Wake, stream, counters
<1>2. worker # "draining" /\ worker # "drained"
  BY DEF StartWait, Wake, Woken
<1>3. TypeOK'
  BY <1>1 DEF IInv, TypeOK
<1>4. MutexOK'
  BY <1>1, <1>2 DEF IInv, TypeOK, MutexOK
<1>5. TestedOK' /\ OrderOK'
  BY <1>1 DEF IInv, TestedOK, OrderOK
<1> QED
  BY <1>3, <1>4, <1>5 DEF IInv

(* It moves the oldest fragment to the file, or drops it.                  *)
LEMMA DrainStep ==
  ASSUME IInv, Drain
  PROVE  IInv'
<1> USE DEF IInv
<1>1. /\ queue # <<>> /\ worker = "draining" /\ queue' = Tail(queue)
      /\ file' \in {file, Append(file, Head(queue))}
      /\ UNCHANGED <<writing, sizeCount, locked, saved, worker, todo, tested,
                     recordings, packets, pushes>>
  BY DEF Drain, StreamWrite, threads, counters
<1>2. pushes \in Nat /\ queue \in Seq(Fragment) /\ file \in Seq(Fragment)
      /\ saved \in Seq(Seq(Fragment))
  BY DEF TypeOK
<1> DEFINE h == Head(queue)
<1>3. /\ h \in Fragment /\ Tail(queue) \in Seq(Fragment)
      /\ Ordered(Tail(queue)) /\ 1 \in DOMAIN queue /\ h = queue[1]
      /\ \A k \in DOMAIN Tail(queue) :
           h.no < Tail(queue)[k].no
           /\ \E l \in DOMAIN queue : Tail(queue)[k] = queue[l]
  BY <1>1, <1>2, HeadFirst DEF OrderOK
<1> HIDE DEF h
<1>4. \A k \in DOMAIN queue' :
        h.no < queue'[k].no /\ \E l \in DOMAIN queue : queue'[k] = queue[l]
  BY <1>1, <1>3
<1>5. Ordered(queue') /\ UpTo(queue', pushes') /\ queue' \in Seq(Fragment)
  BY <1>1, <1>3, <1>4 DEF OrderOK, UpTo
<1>6. \A s : Before(s, queue) => Before(s, queue')
  BY <1>4 DEF Before
<1>7. AllBefore(saved, queue')
  BY <1>6 DEF OrderOK, AllBefore
<1>8. CASE file' = file
  <2>1. OrderOK'
    BY <1>1, <1>5, <1>6, <1>7, <1>8 DEF OrderOK
  <2> QED
    BY <1>1, <1>5, <1>8, <2>1 DEF TypeOK, MutexOK, TestedOK
<1>9. CASE file' = Append(file, h)
  <2>1. \A k \in DOMAIN file : file[k].no < h.no
    BY <1>3 DEF OrderOK, Before
  <2>2. h.no <= pushes
    BY <1>3 DEF OrderOK, UpTo
  <2>3. file' \in Seq(Fragment) /\ Ordered(file') /\ UpTo(file', pushes)
    BY <1>2, <1>3, <1>9, <2>1, <2>2, AppendedLast DEF OrderOK
  <2>4. \A k \in DOMAIN file' :
          (\E l \in DOMAIN file : file'[k] = file[l]) \/ file'[k] = h
    BY <1>2, <1>3, <1>9, InAppended
  <2>5. Before(file', queue')
    <3>1. Before(file, queue')
      BY <1>6 DEF OrderOK
    <3> QED
      BY <1>4, <2>4, <3>1 DEF Before
  <2>6. \A s : Before(s, file) /\ Before(s, queue) => Before(s, file')
    BY <1>3, <2>4 DEF Before
  <2>7. AllBefore(saved, file')
    BY <2>6 DEF OrderOK, AllBefore
  <2>8. OrderOK'
    BY <1>1, <1>5, <1>7, <2>3, <2>5, <2>7 DEF OrderOK
  <2> QED
    BY <1>1, <1>5, <2>3, <2>8 DEF TypeOK, MutexOK, TestedOK
<1> QED
  BY <1>1, <1>8, <1>9 DEF h

(* The queue found empty, the file may have to be closed.                  *)
LEMMA CheckStep ==
  ASSUME IInv, CheckFull \/ CheckClose
  PROVE  IInv'
<1> USE DEF IInv
<1>1. CASE CheckFull
  <2>1. UNCHANGED <<sizeCount, queue, locked, file, saved, todo, tested,
                    recordings, packets, pushes>>
        /\ queue = <<>> /\ worker = "draining" /\ worker' = "drained"
        /\ writing' \in BOOLEAN
    BY <1>1 DEF CheckFull, stream, counters
  <2> QED
    BY <2>1 DEF TypeOK, MutexOK, TestedOK, OrderOK
<1>2. CASE CheckClose
  <2>1. UNCHANGED <<writing, sizeCount, queue, todo, tested, recordings,
                    packets, pushes>>
        /\ worker' = "top" /\ locked' = FALSE
    BY <1>2 DEF CheckClose, counters
  <2>2. \/ file' = file /\ saved' = saved
        \/ file' = <<>> /\ saved' = Append(saved, file)
    BY <1>2 DEF CheckClose, StreamClose, stream
  <2>3. CASE file' = file /\ saved' = saved
    BY <2>1, <2>3 DEF TypeOK, MutexOK, TestedOK, OrderOK
  <2>4. CASE file' = <<>> /\ saved' = Append(saved, file)
    <3>1. saved \in Seq(Seq(Fragment)) /\ file \in Seq(Fragment)
          /\ Archive(saved) /\ AllBefore(saved, file) /\ Ordered(file)
      BY DEF TypeOK, OrderOK
    <3>2. /\ saved' \in Seq(Seq(Fragment)) /\ Archive(saved')
          /\ AllBefore(saved, queue) /\ Before(file, queue)
               => AllBefore(saved', queue)
          /\ AllUpTo(saved, pushes) /\ UpTo(file, pushes)
               => AllUpTo(saved', pushes)
      BY <2>4, <3>1, SavedLast
    <3>3. /\ file' \in Seq(Fragment) /\ Ordered(file')
          /\ \A s, n : Before(s, file') /\ Before(file', s) /\ UpTo(file', n)
      BY <2>4 DEF Ordered, Before, UpTo
    <3>4. OrderOK'
      BY <2>1, <3>2, <3>3 DEF OrderOK, AllBefore
    <3> QED
      BY <2>1, <3>2, <3>3, <3>4 DEF TypeOK, MutexOK, TestedOK
  <2> QED
    BY <2>2, <2>3, <2>4
<1> QED
  BY <1>1, <1>2

-----------------------------------------------------------------------------
(* The chat and packet threads begin and end their calls: nothing is       *)
(* written.                                                                *)
LEMMA CallStep ==
  ASSUME IInv,
         (\E nameOk \in BOOLEAN : Record(nameOk)) \/ StartWriting \/ ResetCount
           \/ Stop \/ ClearWriting \/ Notify \/ WritePacket
  PROVE  IInv'
<1> USE DEF IInv
<1>1. /\ UNCHANGED <<queue, locked, file, saved, tested, pushes>>
      /\ writing' \in BOOLEAN /\ sizeCount' \in Nat
      /\ recordings' \in Nat /\ packets' \in Nat
      /\ worker' \in {worker, IF worker = "waiting" THEN "notified" ELSE worker}
  <2>1. ASSUME NEW nameOk \in BOOLEAN, Record(nameOk)
        PROVE  UNCHANGED <<queue, locked, file, saved, tested, pushes, writing,
                           sizeCount, packets, worker>>
               /\ recordings' = recordings + 1
    BY <2>1 DEF Record, StreamOpen
  <2>2. StartWriting \/ ResetCount =>
          /\ UNCHANGED <<queue, locked, file, saved, tested, pushes, recordings,
                         packets, worker>>
          /\ writing' \in {writing, TRUE} /\ sizeCount' \in {sizeCount, 0}
    BY DEF StartWriting, ResetCount, stream, counters
  <2>3. Stop \/ ClearWriting \/ Notify =>
          /\ UNCHANGED <<queue, locked, file, saved, tested, pushes, recordings,
                         packets, sizeCount>>
          /\ writing' \in {writing, FALSE}
          /\ worker' \in {worker,
                           IF worker = "waiting" THEN "notified" ELSE worker}
    BY DEF Stop, ClearWriting, Notify, NotifyWorker, stream, counters
  <2>4. WritePacket =>
          UNCHANGED <<queue, locked, file, saved, tested, pushes, writing,
                      recordings, sizeCount, worker>>
          /\ packets' = packets + 1
    BY DEF WritePacket, stream
  <2>5. /\ writing \in BOOLEAN /\ sizeCount \in Nat
        /\ recordings \in Nat /\ packets \in Nat
    BY DEF TypeOK
  <2> DEFINE Notified ==
               IF worker = "waiting" THEN "notified" ELSE worker
             Quiet == /\ UNCHANGED <<queue, locked, file, saved, tested, pushes>>
                      /\ writing' \in BOOLEAN /\ sizeCount' \in Nat
                      /\ recordings' \in Nat /\ packets' \in Nat
                      /\ worker' \in {worker, Notified}
  <2>6. ASSUME NEW nameOk \in BOOLEAN, Record(nameOk) PROVE Quiet
    BY <2>1, <2>5, <2>6
  <2>7. StartWriting \/ ResetCount => Quiet
    <3>1. ASSUME StartWriting \/ ResetCount
          PROVE  writing' \in BOOLEAN /\ sizeCount' \in Nat
      <4>1. writing' = writing \/ writing' = TRUE
        BY <2>2, <3>1
      <4>2. writing' \in BOOLEAN
        BY <2>5, <4>1
      <4>3. sizeCount' = sizeCount \/ sizeCount' = 0
        BY <2>2, <3>1
      <4>4. sizeCount' \in Nat
        BY <2>5, <4>3
      <4> QED
        BY <4>2, <4>4
    <3>2. StartWriting \/ ResetCount =>
            UNCHANGED <<queue, locked, file, saved, tested, pushes, recordings,
                        packets, worker>>
      BY <2>2
    <3> HIDE DEF Notified
    <3> QED
      BY <2>5, <3>1, <3>2
  <2>8. Stop \/ ClearWriting \/ Notify => Quiet
    <3> HIDE DEF Notified
    <3> QED
      BY <2>3, <2>5 DEF Notified
  <2>9. WritePacket => Quiet
    BY <2>4, <2>5
  <2> QED
    BY <2>6, <2>7, <2>8, <2>9
<1>2. \E t \in Thread :
        /\ \/ todo[t] = <<>>
           \/ Head(todo[t]) \in {"start", "reset", "clear", "notify"}
        /\ \E rest \in Seq(Chores) : todo' = [todo EXCEPT ![t] = rest]
  <2> DEFINE Set(t, rest) == todo' = [todo EXCEPT ![t] = rest]
  <2>1. ASSUME NEW nameOk \in BOOLEAN, Record(nameOk)
        PROVE  todo["chat"] = <<>>
               /\ \E rest \in Seq(Chores) : Set("chat", rest)
    <3>1. todo["chat"] = <<>>
          /\ (Set("chat", <<"start", "reset">> \o Header) \/ todo' = todo)
      BY <2>1 DEF Record
    <3>2. <<"start", "reset">> \o Header \in Seq(Chores) /\ <<>> \in Seq(Chores)
      BY DEF Header, Chores, Writes
    <3>3. todo = [todo EXCEPT !["chat"] = <<>>]
      BY <3>1 DEF TypeOK, Thread
    <3> QED
      BY <3>1, <3>2, <3>3
  <2>2. ASSUME StartWriting \/ ResetCount \/ ClearWriting \/ Notify
        PROVE  Head(todo["chat"]) \in {"start", "reset", "clear", "notify"}
               /\ \E rest \in Seq(Chores) : Set("chat", rest)
    <3>1. /\ todo["chat"] # <<>>
          /\ Head(todo["chat"]) \in {"start", "reset", "clear", "notify"}
          /\ Set("chat", Tail(todo["chat"]))
      BY <2>2 DEF StartWriting, ResetCount, ClearWriting, Notify
    <3> QED
      BY <3>1, NextChore DEF Thread
  <2>3. ASSUME Stop
        PROVE  todo["chat"] = <<>>
               /\ \E rest \in Seq(Chores) : Set("chat", rest)
    <3>1. <<"clear", "notify">> \in Seq(Chores)
      BY DEF Chores
    <3> QED
      BY <2>3, <3>1 DEF Stop
  <2>4. ASSUME WritePacket
        PROVE  todo["packet"] = <<>>
               /\ \E rest \in Seq(Chores) : Set("packet", rest)
    <3>1. Packet \in Seq(Chores)
      BY DEF Packet, Chores, Writes
    <3> QED
      BY <2>4, <3>1 DEF WritePacket
  <2> QED
    BY <2>1, <2>2, <2>3, <2>4 DEF Thread
<1>3. TypeOK'
  BY <1>1, <1>2 DEF TypeOK
<1>4. MutexOK' /\ OrderOK'
  BY <1>1 DEF MutexOK, OrderOK
<1>5. TestedOK'
  BY <1>1, <1>2 DEF TestedOK, TypeOK, Writes
<1> QED
  BY <1>3, <1>4, <1>5

-----------------------------------------------------------------------------
LEMMA NextStep ==
  ASSUME IInv, [Next]_vars
  PROVE  IInv'
<1>1. CASE UNCHANGED vars
  BY <1>1 DEF vars, stream, threads, counters, IInv, TypeOK, MutexOK, TestedOK,
              OrderOK
<1> QED
  BY <1>1, TestStep, PushStep, WaitStep, DrainStep, CheckStep, CallStep
  DEF Next, Worker

(* The invariant holds in every reachable state.                           *)
THEOREM Invariance == Spec => []IInv
BY InitStep, NextStep, PTL DEF Spec

(* Type correctness of the recorder.                                       *)
THEOREM TypeCorrect == Spec => []TypeOK
<1>1. IInv => TypeOK
  BY DEF IInv
<1> QED
  BY <1>1, Invariance, PTL

(* No fragment is in two places and none overtakes another on its way from *)
(* the queue to the files.                                                 *)
THEOREM WrittenInOrder == Spec => []InPushOrder
<1>1. IInv => InPushOrder
  <2> SUFFICES ASSUME IInv PROVE InPushOrder
    OBVIOUS
  <2>1. /\ saved \in Seq(Seq(Fragment)) /\ Len(saved) \in Nat
        /\ DOMAIN saved = 1..Len(saved)
        /\ file \in Seq(Fragment) /\ queue \in Seq(Fragment)
    BY DEF IInv, TypeOK
  <2>2. /\ DOMAIN Places = 1..(Len(saved) + 2)
        /\ \A i \in 1..Len(saved) : Places[i] = saved[i]
        /\ Places[Len(saved) + 1] = file /\ Places[Len(saved) + 2] = queue
    BY <2>1 DEF Places
  <2> HIDE DEF Places
  <2>3. \A i \in DOMAIN Places :
          i \in 1..Len(saved) \/ i = Len(saved) + 1 \/ i = Len(saved) + 2
    BY <2>1, <2>2
  <2>4. \A i \in DOMAIN Places : Ordered(Places[i])
    BY <2>1, <2>2, <2>3 DEF IInv, OrderOK, Archive
  <2>5. ASSUME NEW i \in DOMAIN Places, NEW j \in DOMAIN Places, i < j
        PROVE  Before(Places[i], Places[j])
    <3>1. CASE j \in 1..Len(saved)
      <4>1. i \in 1..Len(saved)
        BY <2>1, <2>2, <2>5, <3>1
      <4> QED
        BY <2>1, <2>2, <2>5, <3>1, <4>1 DEF IInv, OrderOK, Archive
    <3>2. CASE j = Len(saved) + 1
      <4>1. i \in 1..Len(saved)
        BY <2>1, <2>2, <2>5, <3>2
      <4> QED
        BY <2>1, <2>2, <3>2, <4>1 DEF IInv, OrderOK, AllBefore
    <3>3. CASE j = Len(saved) + 2
      <4>1. CASE i \in 1..Len(saved)
        BY <2>1, <2>2, <3>3, <4>1 DEF IInv, OrderOK, AllBefore
      <4>2. CASE i = Len(saved) + 1
        BY <2>1, <2>2, <3>3, <4>2 DEF IInv, OrderOK
      <4> QED
        BY <2>1, <2>2, <2>5, <3>3, <4>1, <4>2
    <3> QED
      BY <2>3, <3>1, <3>2, <3>3
  <2> QED
    BY <2>4, <2>5 DEF InPushOrder, Ordered, Before
<1> QED
  BY <1>1, Invariance, PTL

(* No writer slips in between the worker's last look at the queue and the  *)
(* closing of the file.                                                    *)
THEOREM ClosedWhenEmpty == Spec => FlushedBeforeClose
<1>1. IInv /\ [Next]_vars => [saved' # saved => queue = <<>>]_vars
  <2> SUFFICES ASSUME IInv, Next, saved' # saved
               PROVE  queue = <<>>
    OBVIOUS
  <2>1. CASE CheckClose
    BY <2>1 DEF CheckClose, IInv, MutexOK
  <2>2. ASSUME NEW t \in Thread, TestWriting(t) \/ Push(t)
        PROVE  FALSE
    BY <2>2 DEF TestWriting, Push, stream
  <2>3. ASSUME NEW nameOk \in BOOLEAN, Record(nameOk)
        PROVE  FALSE
    BY <2>3 DEF Record, StreamOpen
  <2>4. ~(StartWait \/ Wake \/ Drain \/ CheckFull \/ StartWriting
            \/ ResetCount \/ Stop \/ ClearWriting \/ Notify \/ WritePacket)
    BY DEF StartWait, Wake, Drain, StreamWrite, CheckFull, StartWriting,
           ResetCount, Stop, ClearWriting, Notify, WritePacket, stream
  <2> QED
    BY <2>1, <2>2, <2>3, <2>4 DEF Next, Worker
<1> QED
  BY <1>1, Invariance, PTL DEF Spec, FlushedBeforeClose

-----------------------------------------------------------------------------
(* Where the fragment with the number n is                                 *)
In(s, n) == \E k \in DOMAIN s : s[k].no = n
InSome(files, n) == \E i \in DOMAIN files : In(files[i], n)

(* Every fragment pushed is still there, unless the stream dropped one.    *)
KeptOK ==
  ~swallowed =>
    \A n \in 1..pushes : InSome(saved, n) \/ In(file, n) \/ In(queue, n)

(* What is in a sequence stays in it when something is appended.           *)
LEMMA KeptByAppend ==
  ASSUME NEW T, NEW s \in Seq(T), NEW f \in T
  PROVE  /\ \A k \in DOMAIN s :
              k \in DOMAIN Append(s, f) /\ Append(s, f)[k] = s[k]
         /\ \E k \in DOMAIN Append(s, f) : Append(s, f)[k] = f
<1>1. /\ Len(s) \in Nat /\ DOMAIN s = 1..Len(s)
      /\ DOMAIN Append(s, f) = 1..(Len(s) + 1)
      /\ \A k \in 1..Len(s) : Append(s, f)[k] = s[k]
      /\ Append(s, f)[Len(s) + 1] = f
  BY AppendProperties
<1>2. Len(s) + 1 \in DOMAIN Append(s, f)
  BY <1>1
<1> QED
  BY <1>1, <1>2

(* What is in a sequence is its head or in the rest of it.                 *)
LEMMA HeadOrTail ==
  ASSUME NEW s \in Seq(Fragment), s # <<>>, NEW n, In(s, n)
  PROVE  Head(s).no = n \/ In(Tail(s), n)
<1>1. PICK k \in DOMAIN s : s[k].no = n
  BY DEF In
<1>2. /\ Len(s) \in Nat /\ Len(s) >= 1 /\ DOMAIN s = 1..Len(s)
      /\ Head(s) = s[1] /\ DOMAIN Tail(s) = 1..(Len(s) - 1)
      /\ \A i \in 1..(Len(s) - 1) : Tail(s)[i] = s[i + 1]
  OBVIOUS
<1>3. CASE k = 1
  BY <1>1, <1>2, <1>3
<1>4. CASE k # 1
  <2>1. k - 1 \in DOMAIN Tail(s) /\ Tail(s)[k - 1] = s[k]
    BY <1>2, <1>4
  <2> QED
    BY <1>1, <2>1 DEF In
<1> QED
  BY <1>3, <1>4

(* A push adds the one fragment that has the new number.                   *)
LEMMA PushKeeps ==
  ASSUME IInv, KeptOK, NEW t \in Thread, Push(t)
  PROVE  KeptOK'
<1> DEFINE f == [part |-> Head(todo[t]),
                 of |-> IF t = "chat" THEN recordings ELSE packets,
                 no |-> pushes + 1]
<1>1. /\ queue' = Append(queue, f) /\ pushes' = pushes + 1
      /\ UNCHANGED <<file, saved, swallowed>> /\ tested[t]
  BY DEF Push, stream
<1>2. queue \in Seq(Fragment) /\ pushes \in Nat
  BY DEF IInv, TypeOK
<1>3. f \in Fragment /\ f.no = pushes + 1
  BY <1>1, NextChore DEF IInv, TestedOK, TypeOK, Fragment
<1> HIDE DEF f
<1>4. \A n : In(queue, n) => In(queue', n)
  BY <1>1, <1>2, <1>3, KeptByAppend DEF In
<1>5. In(queue', pushes + 1)
  BY <1>1, <1>2, <1>3, KeptByAppend DEF In
<1>6. \A n \in 1..pushes' : n \in 1..pushes \/ n = pushes + 1
  BY <1>1, <1>2
<1> QED
  BY <1>1, <1>4, <1>5, <1>6 DEF KeptOK

(* What is drained goes to the file, or the stream drops it.               *)
LEMMA DrainKeeps ==
  ASSUME IInv, KeptOK, Drain
  PROVE  KeptOK'
<1>1. /\ queue # <<>> /\ queue' = Tail(queue)
      /\ UNCHANGED <<saved, pushes>>
      /\ \/ swallowed' = TRUE
         \/ swallowed' = swallowed /\ file' = Append(file, Head(queue))
  BY DEF Drain, StreamWrite, counters
<1>2. queue \in Seq(Fragment) /\ file \in Seq(Fragment)
      /\ Head(queue) \in Fragment
  BY <1>1 DEF IInv, TypeOK
<1>3. CASE swallowed' = TRUE
  BY <1>3 DEF KeptOK
<1>4. CASE swallowed' = swallowed /\ file' = Append(file, Head(queue))
  <2>1. \A n : In(file, n) => In(file', n)
    BY <1>2, <1>4, KeptByAppend DEF In
  <2>2. In(file', Head(queue).no)
    BY <1>2, <1>4, KeptByAppend DEF In
  <2>3. \A n : In(queue, n) => In(file', n) \/ In(queue', n)
    BY <1>1, <1>2, <2>2, HeadOrTail
  <2> QED
    BY <1>1, <1>4, <2>1, <2>3 DEF KeptOK
<1> QED
  BY <1>1, <1>3, <1>4

(* What was in a file that is closed is in the files closed so far.        *)
LEMMA CloseKeeps ==
  ASSUME IInv, KeptOK, CheckClose
  PROVE  KeptOK'
<1>1. /\ UNCHANGED <<queue, pushes, swallowed>>
      /\ \/ file' = file /\ saved' = saved
         \/ file' = <<>> /\ saved' = Append(saved, file)
  BY DEF CheckClose, StreamClose, stream, counters
<1>2. CASE file' = file /\ saved' = saved
  BY <1>1, <1>2 DEF KeptOK
<1>3. CASE saved' = Append(saved, file)
  <2>1. saved \in Seq(Seq(Fragment)) /\ file \in Seq(Fragment)
    BY DEF IInv, TypeOK
  <2>2. \A n : InSome(saved, n) \/ In(file, n) => InSome(saved', n)
    BY <1>3, <2>1, KeptByAppend DEF InSome
  <2> QED
    BY <1>1, <2>2 DEF KeptOK
<1> QED
  BY <1>1, <1>2, <1>3

(* Everything pushed is in a file or on its way to one, for as long as the *)
(* stream drops nothing: for any number of recordings and any size limit.  *)
THEOREM KeptOnTheWay == Spec => []NothingLost
<1>1. Init => KeptOK
  BY DEF Init, KeptOK
<1>2. IInv /\ KeptOK /\ [Next]_vars => KeptOK'
  <2> SUFFICES ASSUME IInv, KeptOK, [Next]_vars PROVE KeptOK'
    OBVIOUS
  <2>1. CASE UNCHANGED <<saved, file, queue, pushes, swallowed>>
    BY <2>1 DEF KeptOK
  <2>2. CASE UNCHANGED vars
    BY <2>1, <2>2 DEF vars, stream, counters
  <2>3. ASSUME NEW t \in Thread, TestWriting(t)
        PROVE  KeptOK'
    BY <2>1, <2>3 DEF TestWriting, stream, counters
  <2>4. ASSUME NEW nameOk \in BOOLEAN, Record(nameOk)
        PROVE  KeptOK'
    BY <2>1, <2>4 DEF Record, StreamOpen
  <2>5. CASE StartWait \/ Wake \/ CheckFull
    BY <2>1, <2>5 DEF StartWait, Wake, CheckFull, stream, counters
  <2>6. CASE \/ StartWriting \/ ResetCount \/ Stop \/ ClearWriting \/ Notify
             \/ WritePacket
    BY <2>1, <2>6 DEF StartWriting, ResetCount, Stop, ClearWriting, Notify,
                      WritePacket, stream, counters
  <2> QED
    BY <2>2, <2>3, <2>4, <2>5, <2>6, PushKeeps, DrainKeeps, CloseKeeps
    DEF Next, Worker
<1>3. IInv /\ KeptOK => NothingLost
  <2> SUFFICES ASSUME IInv, KeptOK, ~swallowed, NEW n \in 1..pushes
               PROVE  \E i \in DOMAIN Places : In(Places[i], n)
    BY DEF NothingLost, In
  <2>1. /\ saved \in Seq(Seq(Fragment)) /\ Len(saved) \in Nat
        /\ DOMAIN saved = 1..Len(saved)
        /\ file \in Seq(Fragment) /\ queue \in Seq(Fragment)
    BY DEF IInv, TypeOK
  <2>2. /\ DOMAIN Places = 1..(Len(saved) + 2)
        /\ \A i \in 1..Len(saved) : i \in DOMAIN Places /\ Places[i] = saved[i]
        /\ Places[Len(saved) + 1] = file /\ Places[Len(saved) + 2] = queue
    BY <2>1 DEF Places
  <2> HIDE DEF Places
  <2>3. Len(saved) + 1 \in DOMAIN Places /\ Len(saved) + 2 \in DOMAIN Places
    BY <2>1, <2>2
  <2>4. InSome(saved, n) \/ In(file, n) \/ In(queue, n)
    BY DEF KeptOK
  <2> QED
    BY <2>1, <2>2, <2>3, <2>4 DEF InSome
<1>4. Spec => []IInv
  BY Invariance
<1> QED
  BY <1>1, <1>2, <1>3, <1>4, PTL DEF Spec
=============================================================================
