SPECIFICATION FairSpec
CONSTANTS
  Dialog = {d1, d2}
  Port = {p1, p2}
  Reserve = 2
  MayRefuse = {d1}
INVARIANTS
  Consistent
  AnsweredCallEnds
  ByeEndsCall
  CleanWhenOver
PROPERTIES
  CallReturns
