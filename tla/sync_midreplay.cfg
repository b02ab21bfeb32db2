SPECIFICATION Spec
CONSTANTS
  c1 = c1
  c2 = c2
  a1 = a1
  a2 = a2
  room = room
  desk = desk
  Clients = {}
  Agents = {a1, a2}
  Convos = {room, desk}
  SystemConvos = {desk}
  FirstOwner <- RoomOwner
  Conns = {k1, k2}
  Keys = {}
  NoKey = NoKey
  NoConn = NoConn
  NoDevice = NoDevice
  BatchSize = 1
  MaxReplay = 9
  HelloMax = {9}
  DrainMax = 0
  MaxSeq = 3
SYMMETRY Symmetry
INVARIANT
  JoinedHearsEverything
