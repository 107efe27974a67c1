SPECIFICATION FairSpec
CONSTANTS
  d1 = d1
  d2 = d2
  Dialog = {d1, d2}
  Role = "uas"
  RtpPortMin = 2
  RtpPortMax = 8
  Word = 16
  Reserve = 2
  MaxAudio = 3
INVARIANTS
  TypeOK
  Exclusive
  RtcpDisjoint
  Conserved
  Accounting
  ReserveKept
PROPERTIES
  PoolSpec
  LoneScanReturns
