SPECIFICATION Spec
CONSTANTS
  Keys = {k1, k2}
  Mkdirs = {k1}
  MaxGens = 2
  MaxTries = 3
  MaxBoots = 1
  Jobs = {j1, j2}
  Inodes = 5
  Outside = 2
  Media = {b1, b2}
  Voice = {b1}
  LogFiles = {f}
  BlobDeaths = 1
  m1 = m1
  m2 = m2
  p1 = p1
  p2 = p2
  g1 = g1
  g2 = g2
  OwnMissions = {m1, m2}
  OwnProjects = {p1, p2}
  WithFile = {m1}
  Grantees = {g1, g2}
  Asks <- TwoAsks
  Nothing = Nothing
  Starters = {a}
  Claimers = {x, y}
  MaxCodes = 3
  MaxOpen = 2
  MaxReboots = 1
  Requests = {q1, q2}
  MaxPasswords = 3
  MaxApps = 2
  MaxSecrets = 2
  MaxSteps = 1
  MaxLinks = 1
  WalkBatch = 2
  MaxEvents = 4
  n1 = n1
  n2 = n2
  n3 = n3
  n4 = n4
  u1 = u1
  u2 = u2
  u3 = u3
  Notes = {n1, n2, n3, n4}
  Owner <- NoteOwner
  Slots = 1
  QueueMax = 2
  UserMax = 1
  AskedMax = 0
  MaxStarts = 2
CONSTRAINT Together
INVARIANTS RetriesAreOne WritesAreSafe BlobsKept SharesHold LinkedAsShown SignInHolds DerivedHolds
CHECK_DEADLOCK FALSE
