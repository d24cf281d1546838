SPECIFICATION DumpSpec
CONSTANTS
    n1 = n1
    n2 = n2
    Nodes = {n1, n2}
    Anchors = {}
    Text <- ReturnedText
    Nothing = Nothing
    MaxWrites = 1
    MaxDumps = 1
    MaxRestores = 1
CHECK_DEADLOCK FALSE
INVARIANTS
    DumpComesBack
