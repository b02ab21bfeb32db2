SPECIFICATION Spec
CONSTANTS
  Refs = {t1, t2}
  Apps = {a1}
  Socks = {s1, s2}
  MaxBytes = 2
  MaxBuffers = 1
  MaxLen = 3
  r1 = r1
  r2 = r2
  TalkRooms = {r1}
  SessionRooms = {r2}
  MaxStarts = 1
  PeopleDeaths = 1
  Chunks = 2
  Puts = {p1, p2}
  TransferDeaths = 1
  Cards = {w1}
  Hold = 2
  Slack = 2
  MaxNews = 3
  PushDeaths = 2
INVARIANTS AppsToldTruth ContactRules FileReleased
PROPERTIES WatcherServed ChatsEnd
CHECK_DEADLOCK FALSE
