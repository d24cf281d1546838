SPECIFICATION Spec
CONSTANTS
    gui = gui
    cli = cli
    w1 = w1
    w2 = w2
    u1 = u1
    NoFile = NoFile
    Sessions = {gui, cli}
    Servers = {gui}
    Work = {w1}
    Upstream = {u1}
    MaxCommands = 0
    MaxFaults = 0
PROPERTIES
    PulledWorkStaysInDump
