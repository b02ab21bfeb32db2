SPECIFICATION EitherSpec
CONSTANTS
  o = o
  a = a
  b = b
  s = s
  Owner = o
  NoSession = NoSession
  Child = Child
  NoAgent = NoAgent
  Agents <- MCAgents
  Sessions <- MCSessions
  InviteTTL = 1
  AskTTL = 1
  MaxAwaiting = 1
  MaxAsks <- MCAsks
  MaxGone = 1
  Debounce = 3
  FailBackoff = 1
PROPERTY TapAnswersItsAsk
