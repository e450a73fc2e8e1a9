\* Two tokens, an unreliable link, an unreliable nation and a crash
SPECIFICATION FairBoxSpec
CONSTANTS
  t1 = t1
  t2 = t2
  none = none
  Tokens = {t1, t2}
  Nothing = none
  NoToken = none
  Period = 2
  MaxId = 3
  MaxQueue = 2
INVARIANTS LightHonest JoinsOnce
PROPERTY RoomReached
