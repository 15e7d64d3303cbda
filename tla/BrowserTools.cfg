SPECIFICATION FairSpec
CONSTANTS
    Http = {h1}
    Gateway = {g1}
    None = None
    Blank = Blank
    Agent = Agent
    Ops = {"navigate", "query", "shutdown"}
    MaxShutdowns = 1
    MaxFailures = 1
    MaxPatches = 1
INVARIANTS
    ReadyMeansUsable
    LostOnlyByFailure
PROPERTIES
    EveryRequestAnswered
