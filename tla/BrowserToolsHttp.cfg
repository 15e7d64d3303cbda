SPECIFICATION Spec
CONSTANTS
    Http = {h1, h2}
    Gateway = {}
    None = None
    Blank = Blank
    Agent = Agent
    Ops = {"navigate", "snapshot", "act", "query", "query_at", "inject", "shutdown"}
    MaxShutdowns = 2
    MaxFailures = 1
    MaxPatches = 2
SYMMETRY HttpSymmetry
INVARIANTS
    CreateAgentRestored
    ReadsOnePage
