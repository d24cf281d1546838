SPECIFICATION Spec
CONSTANTS
    n1 = n1
    mcp = mcp
    tab1 = tab1
    tab2 = tab2
    cli = cli
    None = None
    Nodes = {n1}
    Agents = {mcp}
    Requests = {tab1}
    Scripts = {cli}
    MaxEvents = 3
    MaxCrashes = 0
INVARIANT GuidanceSawItsKey
