SPECIFICATION Spec
CONSTANTS
  room = room
  kid = kid
  app = app
  box = box
  Convos = {room, kid}
  Children = {kid}
  Clients = {app}
  Agents = {box}
  Newest = Newest
  MaxSeq = 3
  Top = {room}
  Sub = {kid}
  ParentChat <- ParentOf
  Keys = {k}
  Days = 1
  Ttl = 2
  Never = Never
  MaxNow = 3
  Talks = {c1, c2, k}
  Child = {k}
  Parent = c1
  Hidden = {c2}
  Missions = {m1, m2}
  NoMission = NoMission
  MaxTalks = 1
  C = C
  A = A
  B = B
  K = K
  x = x
  y = y
  Sessions = {C, A, B, K}
  Coordinator = C
  Spawnable = {K}
  Room = {x, y}
  Member <- InRoom
  ChainMax = 1
  OriginsMax = 2
  MaxSent = 2
  Orders = {q1, q2}
  Calls = {q3}
  Lines = {k1}
  AppLines = {l1}
  BoxLines = {b1, b2}
  MaxInFlight = 1
  After = 1
  Since = 2
  Gap = 1
  FlagTtl = 3
  MaxSaid = 2
  MaxRaised = 1
  LastTick = 6
CONSTRAINT OneReported
SYMMETRY Alike
INVARIANTS ReadAsTold ArchiveTrue MissionsAgree 
CHECK_DEADLOCK FALSE
