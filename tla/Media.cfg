CONSTANTS
    eth0 = eth0
    eth1 = eth1
    lo = lo
    NoLink = NoLink
    peer = peer
    gw = gw
    NoGateway = NoGateway
    Kernels <- MCKernels
    Wired <- MCWired
    Remote = peer
    Changes = 1
    Plays = 2
    Pkts = 2
SPECIFICATION FairSpec
INVARIANTS
    NeverPanics
    InOrder
PROPERTIES
    AtMostOneMore
    Ends
    PanicsOnlyTorn
    Refreshed
