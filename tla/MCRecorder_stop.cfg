\* A stop before the worker waits
SPECIFICATION FairSpec
CONSTANTS
  MaxRecordings = 2
  MaxPackets = 1
  SizeLimit = 9
  SpuriousWakes = 0
PROPERTY StopCloses
CHECK_DEADLOCK FALSE
