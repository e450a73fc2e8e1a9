\* A nation that vanishes while the robot waits for its handshake
SPECIFICATION FairBoxSpec
CONSTANTS
  t1 = t1
  none = none
  Tokens = {t1}
  Nothing = none
  NoToken = none
  Period = 2
  MaxId = 3
  MaxQueue = 2
PROPERTY WebsocketKeptAlive
