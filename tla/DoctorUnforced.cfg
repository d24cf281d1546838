SPECIFICATION DoctorSpec
CONSTANTS
    gui = gui
    cli = cli
    doctor = doctor
    w1 = w1
    w2 = w2
    u1 = u1
    NoFile = NoFile
    Sessions = {cli, doctor}
    Servers = {}
    Repairer = doctor
    Work = {w1, w2}
    Upstream = {}
    MaxCommands = 0
    MaxFaults = 0
    MaxRepairs = 1
INVARIANTS
    UnforcedRepairKeepsWork
