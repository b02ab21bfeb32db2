SPECIFICATION PeopleSpec
CONSTANTS
  TalkRooms = {r1}
  SessionRooms = {r2}
  MaxStarts = 1
  PeopleDeaths = 0
INVARIANT RequestsLeftAlone
CHECK_DEADLOCK FALSE
