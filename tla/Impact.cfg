SPECIFICATION FairImpactSpec
CONSTANTS
    n1 = n1
    n2 = n2
    n3 = n3
    Nodes = {n1, n2, n3}
    Anchors = {}
    MaxWrites = 1
    MaxAsks = 1
CHECK_DEADLOCK FALSE
INVARIANTS
    ImpactTypeOK
    WalkIsShortest
    QuietImpactIsExact
PROPERTIES
    WalkEnds
