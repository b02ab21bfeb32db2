SPECIFICATION Spec
CONSTANTS
  Labels = {Seen, Other}
  SeenLabel = Seen
  None = None
  MaxThread = 2
  MaxQueued = 1
  MaxDeaths = 1
  Sessions = {s1, s2, s3}
  Coordinator = s3
  Guarded = {s2}
  Private = {}
  MaxOffers = 2
  Owners = {v1, v2}
  Bodies = {w1, w2}
  Models = {e1, e2}
  BatchSize = 2
  MaxDocs = 2
  MaxWrites = 2
INVARIANTS ThreadHolds OffersSettled SimilarFound
PROPERTIES NotesSettle HandoversEnd
CHECK_DEADLOCK FALSE
