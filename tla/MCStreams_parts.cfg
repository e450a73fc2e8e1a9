\* Each part by itself; a recorder may come to a stop
SPECIFICATION StreamsSpec
CONSTANTS
  s0 = s0
  s1 = s1
  Sample = {s0, s1}
  N = 7
  Reserve = 3
  MinDepth = 3
  MaxDepth = 4
  PutFrames = {1, 2}
  GetFrames = 2
  FillDepths = {0, 3}
  SeqNos = {0, 1}
  Frame = 5
  Word = 32
  Jumps <- AnyJump
  Lates = {0, 1, 4, 11}
  MaxLead = 12
  Files <- Recordings
  BlockTime = 1
  Gaps = {1, 3}
  Settings <- ClockSettings
  MaxAge = 4
  MaxOwed = 2
  MaxRecordings = 2
  MaxPackets = 1
  SizeLimit = 4
  SpuriousWakes = 1
INVARIANTS TypeOK SleepsAtMostAFrame NotAhead MixNotAhead InPushOrder NothingLost
PROPERTIES IsFifo WholeBlocks LatencyBounded PlaysInTime AllButLast PlaybackEnds FlushedBeforeClose NotifiedCloses PacketProceeds
CHECK_DEADLOCK FALSE
