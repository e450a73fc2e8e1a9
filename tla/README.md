# rtjam: a TLA+ model of the jam session

rtjam lets musicians play together over the internet. A player's **sound engine** (`rtjam-sound`)
takes two channels from JACK, runs them through pedals, sends every block as a UDP packet to the
room of a **broadcast server** (`rtjam-broadcast`) and mixes what comes back of the other players.
The **box** (`rtjam-box`) is the web interface of the player's unit. This directory holds TLA+
modules of those programs, configurations for TLC, and proofs for TLAPS. `PROJECT.json` lists the
runs, the hazards, the theorems, and for every definition the lines of code it models.

## 1. Inventory

| Component | State | Operations | Modules |
|---|---|---|---|
| Room server (`JamSocket::sendDataToRoomMembers`, `PlayerList`) | player table in vector order, ping window, last receive | receive, prune, admit, forward, answer pings, receive timeout | Room, RoomServer, RoomServerProofs |
| Jitter buffer (`JitterBuffer`) | ring, read and write index, fill state | putIn, getOut, flush | SampleFifo, JitterBuffer, JitterBufferProofs |
| Recording writer (`PacketStreamWriter`, `ReplayStream` writing side) | flag, queue, mutex, condition variable, stream | open, write, close, worker loop | Recorder, RecorderProofs |
| Pedal board (`PedalBoard`, `EffectFactory`) | chain of pedals, stable flag, sleep | load, insert, move, delete, bypass; audio block | PedalBoard, PedalBoardProofs |
| Player's end of the room (`ChannelMap`, client side of `JamSocket`, `JamEngine::connect/disconnect`) | slots, ages, address, active flag | read packets, find and claim a slot, connect, disconnect, time out | JamClient, JamClientProofs |
| Publication of configuration (`syncConfigData`, `syncLevels`, readers in the box) | JSON, mark, levels in shared memory, remembered marks | change, sync, publish, poll, crash, restart | ConfigSync, ConfigSyncProofs |
| Web stream pacing (`fifo_thread`) | unpaid time | sleep, measure, stream, slip | FifoPacer, ClockProofs |
| Parameter channel (`CMessageQueue`, `setParam`, `doMessage`, `getParams`) | POSIX queue, what every sender is at, what the engine holds | post, flush, send, receive, apply, crash, restart | ParamChannel, BoxProofs |
| Playback (`ReplayStream` reading side, `getPlayBackMix`) | file, place in it, time offset, timer, unmixed time | play, stop, feed what is due, mix a block, end of file | Playback, ClockProofs |
| Registration of a box (`jamNationStuff`, `LightSettings`) | token, loop count, link, status light | look at the link, register, ping, light; `rtjam-status` starting | Registration, BoxProofs |
| Chat robot of a box (`ChatRobotBase`, `UnitChatRobot`, `websocketThread`) | state, message ids, web socket, messages under way | connect, handshake, create, join, poll, dispatch, report, lose the room | ChatRobot, BoxUnit, BoxProofs |

Not modelled yet, or not at all (reasons in `PROJECT.json`): packet encoding, the MIDI ring, the metronome, the broadcast server's own registration loop, what the robots
do with the words of the chat, the mixer's arithmetic,
pedals, signal blocks, tuner (floating point), settings, shared memory wrapper, recording catalog,
statistics, status lights and codec, ALSA engine, plugin and its interface, recording tools,
widgets, third-party headers, images and service files.

### Who touches what, and what is hard about it

* **Room server.** One packet thread per room runs the handler in a loop; clients come by UDP, which
  loses, repeats and reorders. Expiry, the ping window and the receive timeout all compare readings of
  one clock. Correct when: a client is listed once, sent to only while heard, never dropped while it
  sends, its channel available to a newcomer when it stops, and its latency sampled once per ping. The room takes one more
  than it has places for (run room_full), and lists the silent for longer than documented (section 3).
* **Jitter buffer.** Called by the audio thread. The ring wraps inside blocks; duplicates, bursts,
  starvation and flushes come at any time. Correct when: it is a queue that loses only its oldest samples,
  and latency stays bounded.
* **Recording writer.** Chat thread, packet thread and worker share a flag without a lock and a queue with
  one; the condition variable has no predicate. Correct when: nothing is reordered or lost, a file
  begins with its header, a stop closes the file, and the packet thread is not held up for ever. In the code the stop fails
  (run recorder_stop), and so do the header and a recording that follows at once on another (section 3).
* **Pedal board.** The parameter thread changes the chain under the audio thread, guarded by a flag and a
  sleep. Correct when: the audio thread is out of the chain while it changes, every pedal has one
  owner, and the sound comes back. A pedal whose settings do not load is lost by the factory (section 3).
* **Player's end.** The audio thread looks up slots while the parameter thread clears and refills them.
  Correct when: a player has one slot and keeps it while he is heard, slot 0 is the local player,
  and what is sent and heard belongs to the room asked for (which fails around a connect: run client_residual).
* **Configuration.** Parameter thread, audio thread and two readers in another process share memory without a
  lock; the engine may crash between two of its steps. Correct when: every viewer ends up seeing the
  chains as they are.
* **Web stream.** Unsigned time arithmetic on a wall clock. Correct when: the sleep never wraps and the
  stream is never ahead of time.
* **Parameter channel.** Any number of web threads flush and send while the robot sends and the engine receives,
  in another process that may die. Correct when: what was sent last is never lost, nothing is received late, and
  nobody waits for ever at a full queue.
* **Playback.** The chat thread opens and closes the file that the packet thread reads, without a lock; what is due
  follows from a wall clock and from time stamps in a file of any content. Correct when: every packet is
  mixed (of the last one this fails: section 3), in its time, the play ends, and never more is mixed than
  time has passed (which fails for a play in which the two threads met).
* **A box at the nation server.** Two threads share a token that one of them may void at any moment; link, nation and
  connection come and go between any two messages; the light is in shared memory and has a second writer.
  Correct when: the light tells what the box knows, and a box that can reach its nation gets into its chat room,
  once, and stays there (unless a handshake hangs, run unit_hang, or the token changes under it).


The components meet as follows. Packets go from the engine's audio thread (JamClient) over the network to
the packet thread (RoomServer), which hands them to the recorder (Recorder), to the room's mixer
(JitterBuffer, read by FifoPacer's thread) and back to the other clients, with the recording that is being played
(Playback). The rooms chat with the nation server, and so do the boxes (ChatRobot), once they are registered
(Registration). Commands go from a browser or the
chat room through the parameter queue to the parameter thread, which edits boards (PedalBoard),
connects (JamClient) and publishes (ConfigSync).

## 2. The modules

A definition keeps the name of the code it stands for where there is one. Every module opens with what it
models and what it leaves out; a section "Bugs this code could have" holds mutated definitions, each
of which makes one of the module's properties fail.

* **RoomServer.** An action is one run of the handler: `Newcomer` and `Forward` (a packet of an unknown, of a
  known client), `ReceiveTimeout`; `Tick` is time. Times are ages in ticks, saturated where the
  code stops telling them apart. The network is the choice of any client, address and echo in any order, so
  loss, repetition and delay are all included. `out` records what a run sent.
* **SampleFifo, JitterBuffer.** SampleFifo says what a jitter buffer promises: samples come out in the order
  they went in, only the oldest are dropped. JitterBuffer is the ring with `PutIn`, `GetPrefill`, `GetStarved`,
  `GetBlock`, `Flush`; it is shown to implement SampleFifo under `queue <- Contents`. The filtered target depth
  is any depth between its two limits.
* **Recorder.** A step is what a thread does between two points at which another can see a difference. `Record`,
  `StartWriting` (the flag), `ResetCount` (the size), `Stop`, `ClearWriting`, `Notify` are the chat thread; `WritePacket`, `TestWriting`, `Push` the
  packet thread (the chat thread's header goes the same way); `StartWait`, `Wake`, `Drain`, `CheckFull`,
  `CheckClose` the worker. The stream's behaviour (a failed open sets the fail bit, a failed stream swallows
  writes) is external and modelled from the standard library's contract.
* **PedalBoard.** Calls of the parameter thread begin with `MarkUnstable`, `SleepOver` ends the sleep, then the chain
  is changed in the steps of the code. The audio thread enters a block only when stable, and goes from
  effect to effect. A pedal is a memory address: freeing and manufacturing are explicit. `InitLoadFails` is the factory whose
  `catch (...)` answers NULL: the pedal it has made by then stays allocated, on no chain (`leaked`).
* **JamClient.** `StartBlock`, `Receive`, `Find`, `Look`, `Claim`, `Put`, `Mix` are the audio thread; a `Connect` or
  `Disconnect` is a list of steps, each visible to the audio thread: activate, flush, the look-up of the server, its port, its
  host, and the ids and the map around them. `TimeOut` is the audio thread's own disconnect, in the steps of the code. What waits in the jitter buffers is not
  modelled; `strays` counts the packets that get there from elsewhere than the current room, where the current room is
  the address as it is set, and `residue` says that, after connect's flush, one was let in from elsewhere than the
  room the client is connecting to.
* **ConfigSync.** A mark is the number of the synchronisation whose time it is. JSON overwritten while it is parsed
  does not parse or is a mixture.
* **FifoPacer.** One action per round of the loop, in unsigned arithmetic of `Word`.
* **MCStreams, MCExchange.** JitterBuffer, FifoPacer, Playback and Recorder, and ConfigSync and ParamChannel, as one run each:
  they share no state, so `part` says from the start which of them runs, and the others stay as they are initialized.
  That composes nothing; the parts are explored one after another, each with its own fairness.
* **ParamChannel.** A parameter is the number under which it came to be queued. `Post`, `FlushOne`, `FlushEnds`, `Send`
  are a web request, message by message; the robot's `Message` goes straight to `Send`, which waits while the queue is
  full. `Receive` and `Apply` are the parameter thread; `SoundCrashes` loses the parameter being applied but not
  the queue, which is the kernel's. What a parameter does is in PedalBoard, JamClient and ConfigSync.
* **Room.** The abstract specification of RoomServer: members, who came before whom, and what each step
  sends to whom; no table, ages, addresses, pings. The refinement mapping is at the end of RoomServer:
  `members <- Members`, `ahead` is the order of the table, `lately` the clients heard within the expiry, `mail`
  counts what the handler run in `out` sent to each. A refused newcomer, a receive timeout that prunes and a
  tick of the clock all map to steps of Room (`Enter` without a seat, `Wait`).
* **Playback.** `Reset` (the offset and `m_delta`), `ResetTimer`, `Open`, `ReadFirst`, `SetOffset` are readOpen, step by step, on
  the chat thread, `StopPlay` its close; `Call`, `Feed`, `FeedDone`, `Add`, `Mix` are a getPlayBackMix of the packet thread, whose
  `call` holds the time it read: what is due is fed, the timer is read and set to zero (`Measure`), its answer goes
  to `m_delta`, and a block may be mixed. A file is its time stamps and whether a packet is torn off at its end. Where
  the two threads meet inside the stream the outcome is a race: `RacedReadFirst` and `RacedFeedDone` leave the position in the
  file and `isOpen` open to anything to the end of that play. The timer and `m_delta` are kept through the race,
  step by step, since both are plain numbers: a call of the old play that adds its time after the reset brings it into the new
  one. `MixNotAhead` speaks of plays in which the threads did not meet, also of those that
  follow one in which they did. Once the clock was set `m_delta` may have wrapped, and what is mixed is no longer
  counted. While no file is open time does not pass for the playback: the next readOpen resets what it would touch.
  A packet that cannot be read in the middle of a file (readPacket returning false with more behind it) is not
  modelled: the recorder writes packets whole, and only the end of a file may be torn.
* **ChatRobot.** `WakeUp`, `Connect` (init, to the request for a web socket), `HandshakeDone` (its answer, and createRoom),
  `HandshakeFails` (the connection was closed meanwhile), `Poll`, `Handle` (one message of a dispatch), `Dispatched`,
  `Report`, `RoomLost` are the thread; `NationAnswers`, `NationSays`, `Drop` the other end and the connection. A connection that
  breaks while it is being opened may do so without a word: then it is `lost`, and no step of the robot leaves the
  handshake, since `recv` has no timeout there. An open connection is found closed sooner or later, because the
  robot goes on reporting. `dispatch`
  takes the robot by value, so `copy` handles the messages of one dispatch and is then thrown away.
* **Registration.** `NoLink`, `Skip`, `Ask`, `Registered`, `RegisteredAnew`, `NotRegistered`, `Pinged`, `NotPinged` are a round of the
  loop, cut at each answer. `checkLinkStatus` is what the code makes of the interface: one without an address, of
  which an ioctl fails, counts as up, but nothing is reached over it (`Reachable`). `body` is the token in `m_resultBody`: a
  registration that is answered with 200 and no JSON takes it again (`RegisteredAnew`); if it holds none, converting it
  throws and the process ends (one of the deaths of `Dies`). `LinkChanges`, `NationStops` (with or without forgetting its tokens), `NationStarts` the world;
  `StatusStarts` a start of `rtjam-status`, which sets the light green; `Starts` a restart of the box.
* **BoxUnit.** Both threads and the token between them: the robot tests the token, and reads it again to
  connect. A nation that stops breaks its connections, a link that is not up may, and the box may die. `voided`
  remembers whether the token has changed since the robot woke up.


## 3. The runs

| Run | Shows | Bounds, and why they are enough |
|---|---|---|
| room | table, fresh recipients; a newcomer turned away only by clients that are heard; one sample per ping, windows apart; a silent client leaves; implements Room: order, one copy for each, no speaker dropped, seats | 3 clients for a room of `RoomSize` 1 (two places): a full table, a newcomer refused, and an erased player in front of another all occur; a window is one tick, a period three, and echoes are of every age up to garbage. The clock runs (`WF Tick`) and recvfrom returns at its timeout (`WF ReceiveTimeout`, `SO_RCVTIMEO`) |
| streams: jitter buffer | queue, whole blocks, latency | ring of 7, blocks of 1 and 2, reads of 2: every offset of a wrap occurs; two sample values, since the code never looks at them |
| streams: web stream | never oversleeps, and is never ahead until the clock is set | delays of 0, 1, just under a frame and over two frames; clock set by amounts below, at and above a frame, both ways |
| streams: playback | a play mixes each packet in its time, all but the last, no more than its time since readOpen began, and ends | a whole recording with packets close together, one that is torn and whose time stamps decrease, an empty, a headless and an unreadable one; steps of 1 and of 3 blocks; the clock set forward past the end and back beyond the age of a play, so that a measured time wraps. Time passes (`WF` of `Pass` that ages the play), the packet thread gets on (`WF PacketStep`) because members of the room keep sending, and calls again within `MaxOwed` |
| streams: recorder | order, nothing twice, nothing lost but by the stream, flushed before closing; a stop that reaches the worker closes, the packet thread gets on | two recordings, one packet, a size limit within them, one unnotified wake; threads that can go on do, no fairness for users or packets |
| pedals | no pedal used while the chain changes; one owner; sound returns after every call | three pedals, block one tick shorter than the grace; one pedal lost by the factory; the parameter thread finishes, blocks end, time passes |
| client | one slot per player, kept while heard, freed when silent; one stray packet | 2 players and the client itself for 2 slots (a full map), 2 rooms, 3 calls: a call can clear between any two steps of a search, and a room be left and another joined; blocks keep coming and time passes |
| exchange: configuration | a missed configuration is announced again; viewers catch up | a browser and the chat room, 2 changes, 3 synchronisations, boards without an id, a crash at any point; threads run and viewers poll, nobody must restart the engine |
| exchange: parameters | the last parameter safe, received in order, every request answered, the last one received | 2 browsers and the robot for a queue of 2 (10 in the code): a full queue, two flushes at once and a send between a flush and its send occur; 4 parameters, 1 crash. Threads run, applying ends, systemd restarts the engine (`rtjam-sound.service`, `Restart=always`) |
| unit | the light tells what the box knows, one join per connection, the room reached in the end | 2 tokens, so that a token is void while another is good; the nation is asked every second round (tenth in the code): the count is only compared with 0, and one round between two questions in which nothing is asked is enough; 3 message ids, so that the robot itself says something; 2 messages under way: an answer behind something said; the box dies any number of times, and in the end not any more. Both threads run (`WF LoopStep`, `WF RobotStep`), a nation that can be reached answers (`WF NationAnswers`) and does not answer every registration with something that is no JSON (`SF Registered`); the link and the nation owe nothing else |

Counters without a bound in the code are bounded by `MaxCalls`, `MaxPackets`, `MaxRecordings`, `MaxChains`,
`MaxSyncs`, `MaxLead`, `MaxLeaks`, `MaxParams`, `MaxCrashes`, `MaxAge`, `MaxOwed`, `MaxId`, `MaxQueue`; each is a constant named so. Recorder may stop when its bounds are used up, and so may ParamChannel, where nobody sends for
ever: the configurations with them turn the deadlock check off; all others keep it.

### Where code and comments part

The violation runs check one statement of a comment each, and TLC shows how the code breaks it.

* `room_full` (`FitsTheRoom`): A newcomer is let into a room that is full: the check for space compares with <=. *(bug)*
* `jitter_flush` (`FlushesOldOnly`): A reader whose block is larger than the target depth runs past the write index and finds a nearly full ring of old samples. *(bug)*
* `recorder_stop` (`StopCloses`): A stop that comes while the worker is on its way to the wait is lost: the file stays open, and nothing else will ever close it. *(bug)*
* `client_mine` (`SlotZeroIsMine`): A connect clears slot 0 before it writes the own id there, and the audio thread can claim it in between for another player. *(bug)*
* `client_residual` (`NoResidue`): A connect from one room to another flushes the jitter buffers before it writes the new address; the audio thread lets in packets of the old room in between, and they are there when the call is done. *(bug)*
* `unit_hang` (`WebsocketKeptAlive`): A nation that vanishes in the middle of the handshake leaves the robot in recv for ever, although link and nation are back. *(bug)*

Modelling showed more of the kind, which no run checks; the models do what the code does:

* `JamNetStuff.cpp:232`: players are pruned only when the handler runs, with an expiration of half a second and a receive timeout of one.
  A client whose silence begins just before another's last packet stays in the table, and in what `getLatency` and `numPlayers`
  report, for up to a second and a half, where the repository's README (line 54) says "for 1 second, your channel is made available". A newcomer's
  own packet prunes first, so to him it is available (`MadeAvailable`).
* `PacketStreamWriter.hpp:83`: `open` sets `m_writing`, which is all the packet thread asks, before the header is queued; a packet in
  between comes first, and the recording is read back as corrupt (`ReplayStream.cpp:42`, "read the metadata off the top.").
* `PacketStreamWriter.hpp:78`: a recording asked for while the worker still writes the last one opens the open stream, which sets its
  failbit: what is queued of the last is dropped and its file closed (`:49`, "we have flushed out the rest of the stuff.").
* `ReplayStream.cpp:124`: packetReady closes the file as soon as nothing is left to read, although the packet read last has
  not been given to the mixer, which it never is (`:189`, "feed the mixer with packets up till now...").
* `ReplayStream.cpp:28`: readOpen clears `m_delta` and the timer without a lock. A `getPlayBackMix` that has read the timer before adds
  that time after, and mixes a block too early; `raced` marks the play.
* `rtjam-box/src/main.cpp:93`: when a ping fails the token is void and the box registers anew, but the robot is not told. Its
  web socket may outlive the failure, and then it stays in the room of the old token; so it does when the token changes
  between being read for `init` (30) and the end of the handshake (`voided`).
* `RTJamNationApi.cpp:228`: checkLinkStatus means to say false of a link without an address, but `ERROR` (165) returns -1, which a bool
  turns into true: the light does not flash red, and the nation is asked over it.
* `JamNetStuff.cpp:278`: updateChannel answers -1 also for a newcomer it has just admitted, whose first packet goes
  no further; the caller's comment reads "a negative serverChannel means there is no room for them".
* `JamNetStuff.cpp:260`: a player who comes back from another address within the expiry keeps his place and is sent to
  at the old one.
* `JitterBuffer.cpp:89`: the first packet after a flush is taken for a duplicate if its number is 0.
* `PacketStreamWriter.hpp:47`: a worker awake between the opening and `m_writing = true` closes the new file.
* `JamNetStuff.cpp:324`: a connect whose server name is not found leaves the client active in the old room.
* `EffectFactory.hpp:161`: an exception in the settings of a pedal is caught and answered with NULL; the pedal already
  made is not deleted, so every load of such a board loses one (`leaked`).
* `JamEngine.cpp:174`: a board without an id is built and then throws past the sync, so no viewer sees it;
  `BoxAPI.hpp:172`: two browsers share one remembered mark, and the first to poll takes the change from the other.
* `MessageQueue.cpp:36`: the flush before every POST prints "flushing a stale message" of any parameter the engine has not
  received yet, also one of another kind that was sent a moment ago (`NewestSafe` keeps the last only); were
  rtjam-box to die between the flush and the send (not modelled), both would be lost.
* `easywsclient.hpp:40`: `dispatch` takes its callable by value, and ChatRobotBase is the callable: `m_state` of the robot
  itself never leaves `room_creating`, although `ChatRobotBase.hpp:152` reads "This runs the state machine to
  connect to the room.", and message ids are given out again. The room is joined all the same, once
  (`JoinsOnce`, `RoomReached`), since the ids awaited are those of the first two messages.
* `rtjam-box/src/main.cpp:30`: the token is tested and then read again, so the robot may ask for the room of an empty token.
* `RTJamNationApi.cpp:98`: an answer that is no JSON leaves the body of the last one in place and counts as success;
  `rtjam-box/src/main.cpp:80` then takes the token in it once more, or ends the process with an exception.
* `RTJamNationApi.cpp:228`: every answer of `checkLinkStatus` by way of `ERROR` leaves a socket open, as does a handshake that
  fails (`easywsclient.cpp:628`): after some thousand of them the process can open nothing any more.
* `rtjam-status/src/main.cpp:22`: the light is green from the start of `rtjam-status` to the next round that asks the nation,
  with or without a token (`stray` in Registration).
* `ReplayStream.cpp:122`: a packet torn off at the end of a recording is found to be missing only when the one before it
  has been played, which is then not lost as the last one of a whole recording is (`AllButLast`); the sound left in the
  playback's mixer waits for the next play; a clock set back makes the playback's `m_delta` wrap, after
  which every packet of the room mixes a block. A file that cannot be read is closed with the same
  `close` that stops a recording.
* `BoxAPI.hpp:196` and sendMidiMessages of UnitChatRobot: `readIdx % 32` is a statement without effect, so the readers of
  the MIDI ring walk past its end. `JamNetStuff.cpp:483`: a tempo above 60,000,000 makes the length of a beat zero.

## 4. The proofs

All theorems hold for every value of the constants that the named assumptions admit.

* **RoomServerProofs.** `TypeCorrect`, `IdsUnique`, `SentToFreshOnly`, `SampledOnce`, `PingsApart`, `ServerIsRoom`, `ChannelsComeFree`. The
  inductive invariant joins the properties with what relates them: a player's age is the time since
  it was heard, the age of the ping window is the time since its edge while the window is open, and a player
  with a sample has no open ping. Without the first, expiry says nothing about silence; without the
  last, a second sample cannot be excluded. `ServerIsRoom` is the refinement of Room: `PruneList` leaves those who stay, in their
  order (`PrunedIsStaying`, `StayIsStaying`); the send loop, a fold, counts one copy for each of them
  (`SendLoopCounts`); and every action of the server then is a step of Room or none (`NewcomerEnters`, `ForwardSpeaks`,
  `TimeoutWaits`, `TickWaits`). `ChannelsComeFree` follows from it: who is turned away is so by the members that stay, and those
  are counted by the table.
* **JitterBufferProofs.** `TypeCorrect`, `RingIsFifo` (refinement of SampleFifo), `BlocksWhole`, `LatencyIsBounded`, under
  `SizesFit`: the reader's block is at most `MinDepth`, a packet smaller than `Reserve`. The engine's usual block sizes
  satisfy it, the broadcast box's 960 frames do not (run jitter_flush). The invariant says the write index is never
  just behind the read index with a full ring in between; each call is then a lemma about sequences. Latency is bounded
  because a getOut that plays first flushes what is beyond its target depth, which is at most `MaxDepth`.
* **PedalBoardProofs.** `GraceIsEnough`: the audio thread is outside the pedals while the chain is changed. Invariant: a
  block still running when the flag fell began before the sleep, so its age exceeds what was slept; with
  `BlockTime < Grace` it has ended when the sleep has. `PedalsOwned`: between calls the pedals allocated are those on the
  chain, each once, and those the factory has lost, which never come back to it. Invariant (`Ownership`): at every step of a call the pedals allocated are those on the chain, but for the
  one in the call's hands while it is inserted, moved or deleted, and for those a load has freed already; and
  the operands of the step at hand are in range where the call has checked them. Lemmas say what
  inserting into and taking out of a sequence does to who is in it.
* **JamClientProofs.** `TypeCorrect`, `OnePlayerOneSlot`, `HeardKeepsSlot`, `AtMostOneStray`. Invariant: the player the audio thread looks
  for is in no slot, and the slot it found is free unless it is slot 0. Both survive a concurrent `clear`
  because only the audio thread ever puts another player into a slot. After a stray packet the audio thread
  holds only packets of the current room, until the next change of rooms. The current room is the address as it stands:
  what `AtMostOneStray` bounds is the race of one block with a change of the address; that packets of the old room are
  let in until the address is changed is `NoResidue`, which fails (run client_residual).
* **ConfigSyncProofs.** `MissedComesAgain`, `TypeCorrect`, for viewers with a mark each. Invariant: what is in shared memory
  is at least as new as every mark anybody holds.
* **ClockProofs.** Web stream: `NeverOversleeps`, `NeverAhead`. Playback: `NeverMixedAhead`, `EndsWithAllButLast`, `InTime`, for all
  files, whatever their time stamps. Each excepts plays in which the two threads met; a play after one of those is not
  excepted, so `NeverMixedAhead` says that the race does not outlive its play. After the clock is set the first and the
  last say nothing. Invariant: the time since readOpen began less the time mixed is what the timer has not been asked for,
  what it has answered and is not yet added, and `m_delta` (`OwedOK`), as long as the threads have not met; the
  packet at hand is then the one behind the last one given (`PlaceOK`); and what was given was due when the call read the
  clock (`DueOK`).
* **RecorderProofs.** `TypeCorrect`, `WrittenInOrder`, `ClosedWhenEmpty`, `KeptOnTheWay`. Invariant: the mutex is held just while the worker
  is between its wake and its next wait, and the queue is empty once the worker has found it so (`MutexOK`), because
  a push needs the mutex; the saved files, the open one and the queue, one after another, hold fragments
  of increasing number, none above the number of pushes (`OrderOK`). The last part is what makes it inductive:
  without it a push could repeat a number. `KeptOnTheWay` adds that every number up to the last is in one of
  these places unless the stream has dropped a fragment, which it does when it is closed or not good.
* **BoxProofs.** Parameter channel: `TypeCorrect`, `NeverLosesNewest`, `ReceivedInOrder`, for any number of browsers and any size of
  the queue. Invariant: the queue is sorted and all in it is newer than what was received. Without it the
  engine could hold the last parameter and receive an older one, and the last would be nowhere. Light:
  `LightTellsTruth`, for any tokens none of which is the empty one. Invariant (`LoopOK`): while an answer to a registration is
  awaited there is no token and the light is orange, while one to a ping is awaited there is one and it is green, and a
  link last seen down leaves the count at 0, so that the nation is asked in the round in which the link is back.
  Robot: `AsksOnce`, for any number of messages under way. Invariant (`OnePermission`): of the request for the
  room, its answer on the way or received, the request to be let in, and the join there is at most one at a time;
  it takes that only the request for the room has the id 1, and that whoever waits for the room, also the copy of
  a dispatch, waits for the answer 1 (`RobotTypes`).

Every safety and action property that a passing run checks is proved, and both refinements are. The assumptions that
say something of the program or its world: `SizesFit` (above), a block shorter than the grace (PedalBoard), viewers with a mark
each (ConfigSync), times that fit a word (FifoPacer), and that the nation issues no empty token (Registration).

Model-checked only: liveness (`SilentLeave`, `NotifiedCloses`, `PacketProceeds`, `SoundReturns`, `SilentFreed`,
`ViewersCatchUp`, `PostsReturn`, `NewestTaken`, `PlaybackEnds`, `RoomReached`), which the prover does not reach: it has neither ENABLED nor the rules for fairness.

## 5. Not modelled, and why

* **Floating point** (pedals, mixer levels, tuner, statistics) changes no control state; where a result steers control
  (the target depth) the model takes any value in its range.
* **Races on C++ objects** whose outcome cannot be enumerated (strings shared by threads, a vector iterated while it
  grows, two threads inside one jitter buffer) are named as hazards and not modelled; the races on the
  playback's stream and on the configuration's JSON are, with every outcome allowed.
* **A wall clock that is set** is modelled for the two clocked outputs of a room only; the ages of players and
  ping windows assume a clock that only runs forward (hazard at `JamNetStuff.cpp:230`).
* **Clients, network and server in one model.** RoomServer already takes any packet of any client in any order, and
  JamClient any packet of any player, which is more than the other side sends; the product of both
  state spaces would be out of TLC's reach at the bounds at which each is interesting.
* **Packet encoding, the chain's JSON** are functions of values without a control of their own: sizes and byte order are
  fixed by structures, and nothing is parsed in steps.
* **The MIDI ring** has a plain index per thread and its faults are visible in single statements (section 3);
  its contents are lost by design when nobody reads.
* **The broadcast server's registration loop** is jamNationStuff without light and link, one per process; its rooms'
  robots differ from the box's in what they do with words.
* **Widgets, plugin, fonts, third-party headers, drivers, shell scripts** hold no state of the session. They are most of
  the repository's lines: `json.hpp`, `RTJamArt.cpp` and the font alone are four fifths of them.

## 6. Plan


The model stands and its safety properties are proved; what could still be done:

1. The step from safety to liveness, as far as it needs no fairness: what the state looks like when a thread of
   Recorder or ParamChannel waits, stated as invariants (somebody holds the mutex, the queue is full and the
   engine is not waiting), so that the liveness runs rest on proved facts.
2. JitterBuffer without `SizesFit`: which of its properties a broadcast box with blocks of 960 frames keeps.
3. A count of open descriptors in Registration and ChatRobot, which `ERROR` and a handshake that fails lose (hazard
   at `RTJamNationApi.cpp:228`).
