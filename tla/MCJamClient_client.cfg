\* A connect or disconnect at any two points of the search for a slot
SPECIFICATION FairSpec
CONSTANTS
  Player = {p1, p2}
  Me = {me}
  Host = {h1, h2}
  Port = {q1, q2}
  Nowhere = Nowhere
  Empty = Empty
  LastSlot = 1
  Expiration = 1
  MaxCalls = 3
INVARIANTS TypeOK OthersOnce OneStray
PROPERTIES StablePlaces SilentFreed
