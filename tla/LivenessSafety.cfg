SPECIFICATION Spec
CONSTANTS
    mcp = mcp
    mcp2 = mcp2
    gui = gui
    cli = cli
    c1 = c1
    g1 = g1
    n1 = n1
    e1 = e1
    e2 = e2
    None = None
    Agents = {mcp}
    Humans = {gui}
    Sweepers = {cli}
    Slices = {c1}
    Goals = {g1}
    GoalOf <- OnlyGoal
    Notes = {n1}
    Entities = {e1}
    Path <- OneName
    Tiers = {"short-term", "long-term"}
    MaxCrashes = 1
INVARIANTS
    TypeOK
    SteadyRootsSurvive
    SweepRevivesOnlyTheLive
    ChangesAreOpened
