SPECIFICATION FairSpec
CONSTANTS
  d1 = d1
  d2 = d2
  p1 = p1
  c1 = c1
  c2 = c2
  Dialog = {d1, d2}
  Port = {p1}
  CallId = {c1, c2}
  Invites <- BothKinds
  Reserve = 1
  MaxAudio = 2
  MayRefuse = {d1, d2}
INVARIANTS
  Consistent
  RulesOwned
  CleanWhenOver
  ByeEndsCall
PROPERTIES
  HandlerReturns
