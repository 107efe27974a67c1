SPECIFICATION Spec
CONSTANTS
  d1 = d1
  d2 = d2
  p1 = p1
  c1 = c1
  c2 = c2
  Dialog = {d1, d2}
  Port = {p1}
  CallId = {c1, c2}
  Invites <- PlainOffers
  Reserve = 1
  MaxAudio = 1
  MayRefuse = {}
INVARIANTS
  LiveDialogHasRule
