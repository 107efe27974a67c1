SPECIFICATION Spec
SYMMETRY Symmetry
CONSTANTS
  d1 = d1
  d2 = d2
  d3 = d3
  Dialog = {d1, d2, d3}
  Role = "uac"
  RtpPortMin = 2
  RtpPortMax = 6
  Word = 16
  Reserve = 2
  MaxAudio = 1
INVARIANTS
  InRange
