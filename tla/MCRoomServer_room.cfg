\* Three clients for a room that takes two, ticks as long as a ping window
SPECIFICATION FairSpec
CONSTANTS
  c1 = c1
  c2 = c2
  c3 = c3
  a1 = a1
  Clients = {c1, c2, c3}
  Addrs = {a1}
  RoomSize = 1
  Expiration = 2
  RecvTimeout = 3
  PingWindow = 1
  PingPeriod = 3
  PingValid = 1
INVARIANTS TypeOK UniqueIds FreshRecipients OneSamplePerPing
PROPERTIES MadeAvailable PingEdgesApart SilentLeave ImplementsRoom
