SPECIFICATION Spec
CONSTANTS
    n1 = n1
    mcp = mcp
    tab1 = tab1
    tab2 = tab2
    cli = cli
    None = None
    Nodes = {n1}
    Agents = {mcp}
    Requests = {tab1, tab2}
    Scripts = {}
    MaxEvents = 4
    MaxCrashes = 1
INVARIANTS
    TypeOK
    TrustIsDerived
    RefreshCannotFlood
PROPERTIES
    FlagFollowsJournal
    RecomputeNeverGoesBack
    ResolutionFoldsEverything
SYMMETRY Tabs
