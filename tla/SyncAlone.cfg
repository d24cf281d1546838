SPECIFICATION BusySpec
CONSTANTS
    gui = gui
    cli = cli
    w1 = w1
    w2 = w2
    u1 = u1
    NoFile = NoFile
    Sessions = {cli}
    Servers = {}
    Work = {w1, w2}
    Upstream = {}
    MaxCommands = 0
    MaxFaults = 2
INVARIANTS
    ClosedMeansPublished
PROPERTIES
    WorkIsPublished
