\* Two clients for a room of one place
SPECIFICATION Spec
CONSTANTS
  c1 = c1
  c2 = c2
  a1 = a1
  Clients = {c1, c2}
  Addrs = {a1}
  RoomSize = 1
  Expiration = 1
  RecvTimeout = 2
  PingWindow = 1
  PingPeriod = 2
  PingValid = 1
INVARIANT FitsTheRoom
