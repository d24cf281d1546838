SPECIFICATION DumpSpec
CONSTANTS
    n1 = n1
    n2 = n2
    Nodes = {n1, n2}
    Anchors = {}
    Text <- RuledText
    Nothing = Nothing
    MaxWrites = 2
    MaxDumps = 1
    MaxRestores = 2
CHECK_DEADLOCK FALSE
INVARIANTS
    DumpTypeOK
    DumpExplainsItself
    DumpIsBetween
    QuietDumpIsTheDatabase
    DumpComesBack
PROPERTIES
    RestoreIsWhole
    CloneIsWhatWasDumped
