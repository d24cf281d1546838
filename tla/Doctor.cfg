SPECIFICATION DoctorSpec
CONSTANTS
    gui = gui
    cli = cli
    doctor = doctor
    w1 = w1
    w2 = w2
    u1 = u1
    NoFile = NoFile
    Sessions = {gui, cli, doctor}
    Servers = {}
    Repairer = doctor
    Work = {w1}
    Upstream = {u1}
    MaxCommands = 0
    MaxFaults = 1
    MaxRepairs = 1
INVARIANTS
    DoctorTypeOK
    RepairIsAlone
    ForeignWalIsBrief
PROPERTIES
    RepairCopiesFirst
SYMMETRY Alike
