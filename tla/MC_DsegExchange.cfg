CONSTANTS
    a1 = a1
    a2 = a2
    nat = nat
    None = None
    Askers = {a1, a2}
    AddrOf <- MCAddrOf
    Dseg = 2
    BanHits = 3
    MaxTime = 4
    MaxRestarts = 2
SPECIFICATION Spec
INVARIANT TypeOK
PROPERTY AskerPaced
CHECK_DEADLOCK FALSE
