SPECIFICATION Spec
CONSTANTS
    Http = {h1}
    Gateway = {g1}
    None = None
    Blank = Blank
    Agent = Agent
    Ops = {"query", "query_at"}
    MaxShutdowns = 0
    MaxFailures = 0
    MaxPatches = 2
INVARIANTS
    TaskStartsAtOwnUrl
