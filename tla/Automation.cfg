\* Behaviours end when their page is done or at the bounds.
SPECIFICATION Spec
CHECK_DEADLOCK FALSE
CONSTANTS
    Handles = {h1, h2}
    Texts = {x, y}
    Absent = Absent
    m1 = m1
    m2 = m2
    Monitors = {m1, m2}
    Configs <- MCConfigs
    Expected = x
    MaxTime = 2
    None = None
    Orders <- MCOrders
    InputTexts <- MCInputTexts
    OldValue <- MCOldValue
    Threshold = 2
    Windows = {w1, w2}
    ActionConfigs <- MCActionConfigs
    CleanPages <- MCCleanPages
    CleanOptions <- MCCleanOptions
    ComparedPages <- MCComparedPages
    ChangeOptions <- MCChangeOptions
    XPathPages <- MCXPathPages
    Rankings <- MCRankings
    ResolutionModes = {"unique_only", "first_match", "match_by_text", "match_by_html", "match_by_signature"}
    MaxDepth = 2
    TextLimit = 2
    HashLike = {"a8f3Qz"}
    Generic = {"btn"}
    LivePages <- MCLivePages
    LiveNames = {"checked", "value"}
    LiveAnswers <- MCLiveAnswers
    MaxPageChanges = 2
    EvalTasks = {"t1", "t2"}
    Workers = {"w1", "w2"}
    MaxAttempts = 2
    MaxStep = 1
    MaxEvals = 2
    Layouts <- MCLayouts
    Directions = {"Down", "Left"}
    Distances = {2}
    Searches = {"off", "first_scrollable", "first_largest_scrollable", "deepest_scrollable", "largest_scrollable", "largest_scrollable_early_stop"}
    Ways = {"javascript", "action_chains_from_origin", "action_chains_focus_first", "keystrokes"}
SYMMETRY Symmetry
INVARIANTS
    MonitorHoldsItsTab
    HeldForConfirmationTime
    OneTabPerClick
    SilentMeansTyped
    ComparedWithOwnBase
    CleaningKeepsText
    NothingNewWithheld
    XPathSelectsTarget
    ActsOnShownElement
    LabelsOnceAndOnOwnRun
    ScrollsWhatScrolls
