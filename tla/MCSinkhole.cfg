CONSTANTS
    Analyses = {a1, a2}
    Subnets = {s1, s2}
    NoSubnet = NoSubnet
    Containers = {c1}
SPECIFICATION SinkholeSpec
SYMMETRY Symmetry
INVARIANTS
    SinkholeTypeOK
    UpIsRewritten
    RefusalLeavesNoTraffic
    CleanStopLeavesNothing
CHECK_DEADLOCK FALSE
