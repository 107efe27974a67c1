CONSTANTS
    Sender = {s1, s2}
    RingSize = 2
    ChanSize = 1
    Word = 4
    MaxSends = 4
SPECIFICATION FairSpec
INVARIANTS
    TypeOK
PROPERTIES
    QueueSpec
    Transmitted
