\* A reader's block larger than MIN_DEPTH
SPECIFICATION RingSpec
CONSTANTS
  s0 = s0
  s1 = s1
  Sample = {s0, s1}
  N = 7
  Reserve = 3
  MinDepth = 3
  MaxDepth = 4
  PutFrames = {2}
  GetFrames = 4
  FillDepths = {0}
  SeqNos = {0, 1}
PROPERTY FlushesOldOnly
