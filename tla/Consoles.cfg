\* Behaviours end at the bounds.
SPECIFICATION Spec
CHECK_DEADLOCK FALSE
CONSTANTS
    AuthSessions = {"s1", "s2"}
    TargetDomain <- MCTargetDomain
    AuthClients = {"c1", "c2"}
    Lifetimes = {0}
    Patience = 0
    MaxTime = 1
    Submissions = 1
    OAuthSessions = {"s1"}
    OAuthClients = {"c1", "c2", "c3"}
    OAuthLifetimes = {0, 1}
    OAuthPatience = 0
    OAuthMaxTime = 1
    Codes = {"k", "l"}
    Consoles = {"k1", "k2"}
    Pieces = {"p1", "p2"}
    InitialPieces = {"p1"}
    Matching <- MCMatching
    Numbers = {0, 1, 2}
    MaxRequests = 3
    Users = {u1, r1, m1}
    RegularRuns = {r1}
    MetaRuns = {m1}
    Questions <- MCQuestions
    MaxResponses = 3
    MaxInputs = 1
    Threads = {"t1", "t2"}
    MaxBrowsers = 2
    MaxTabs = 4
    MaxTests = 2
    PageSessions = {"s1", "s2"}
    Ids = {"s1", "s2", "dir"}
    DirectoryOf <- MCDirectoryOf
    Logs = {"s1"}
    MaxWrites = 2
    MaxMessages = 1
    Chats = {"s1", "s2"}
    AgentTypes = {"Default", "Mock"}
    DefaultType = "Default"
    MockType = "Mock"
    Debuggers = {"d1"}
    KeepsFirst = {"d1"}
    MaxStarts = 2
    MaxPuts = 3
    MetaConsoles = {"c1", "c2"}
    Debugs = {"d1"}
    Plains = {"p"}
    DebugStages = 3
    MaxDebugs = 1
    MaxCommands = 3
INVARIANTS
    InjectsItsSession
    DeletesOnlyShown
    ResponsesReachTheirUser
    AnswersItsQuestion
    TestsOfThisBrowser
    UpToDateIsTrue
    NamedTypeIsAgents
    CommandsMatchReports

    
