CONSTANTS
    d1 = d1
    d2 = d2
    Dialog = {d1, d2}
    p1 = p1
    p2 = p2
    Port = {p1, p2}
    c1 = c1
    c2 = c2
    Cpu = {c1, c2}
    e1 = e1
    e2 = e2
    e3 = e3
    Elem = {e1, e2, e3}
    Reserve = 1
    MayRefuse = {d1, d2}
    MaxPkts = 5
SYMMETRY Symmetry
SPECIFICATION Spec
INVARIANT
    OnlyOnce
PROPERTY
    NearlyExact
CHECK_DEADLOCK FALSE
