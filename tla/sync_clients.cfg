SPECIFICATION FairSpec
CONSTANTS
  c1 = c1
  c2 = c2
  a1 = a1
  a2 = a2
  room = room
  desk = desk
  Clients = {c1}
  Agents = {}
  Convos = {room}
  SystemConvos = {}
  FirstOwner <- Ownerless
  Conns = {k1, k2, k3}
  Keys = {l1}
  NoKey = NoKey
  NoConn = NoConn
  NoDevice = NoDevice
  BatchSize = 2
  MaxReplay = 2
  HelloMax = {1, 9}
  DrainMax = 1
  MaxSeq = 4
INVARIANTS
  ClientFeed
  NoDeadRegistration
  UniqueKeys
PROPERTIES
  FeedRefined
  CaughtUp
