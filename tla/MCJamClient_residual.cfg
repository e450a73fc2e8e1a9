SPECIFICATION Spec
CONSTANTS
  Player = {p1}
  Me = {me}
  Host = {h1}
  Port = {q1, q2}
  Nowhere = Nowhere
  Empty = Empty
  LastSlot = 1
  Expiration = 1
  MaxCalls = 2
INVARIANT NoResidue
