\* Each part by itself; nobody sends parameters for ever
SPECIFICATION ExchangeSpec
CONSTANTS
  Viewer = {browser, room}
  Channel = {browser, room}
  Via <- EachOwn
  Mixed = Mixed
  BadBoards = TRUE
  MaxChains = 2
  MaxSyncs = 3
  Browser = {b1, b2}
  Robot = robot
  QueueSize = 2
  MaxParams = 4
  MaxCrashes = 1
INVARIANTS MissedIsRepeated NewestSafe
PROPERTIES ViewersCatchUp InOrder PostsReturn NewestTaken
CHECK_DEADLOCK FALSE
