SPECIFICATION Spec
CONSTANTS
    gui = gui
    cli = cli
    w1 = w1
    w2 = w2
    u1 = u1
    NoFile = NoFile
    Sessions = {gui, cli}
    Servers = {gui}
    Work = {w1, w2}
    Upstream = {u1}
    MaxCommands = 1
    MaxFaults = 2
INVARIANTS
    TypeOK
    LockMatchesPhase
    RebuildOwnsFiles
    NoOrphanedConnection
    WalBelongsToDatabase
    UndisturbedWorkStays
PROPERTIES
    RestoreKeepsBackup
    RestoredWorkStaysInDump
SYMMETRY Units
