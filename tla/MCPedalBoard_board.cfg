\* Boards of three pedals, one pedal lost, and a block of all the grace period but a tick
SPECIFICATION FairSpec
CONSTANTS
  p1 = p1
  p2 = p2
  p3 = p3
  p4 = p4
  Pedal = {p1, p2, p3, p4}
  NoPedal = NoPedal
  MaxPedals = 3
  MaxLeaks = 1
  Grace = 2
  InitGrace = 1
  BlockTime = 1
INVARIANTS GraceProtects OneOwner
PROPERTY SoundReturns
