\* One part per initial state. Of the gates: one operator, one clone, one run at a time,
\* nothing lost.
CONSTANTS
    States <- FullStates
    Gates <- FullGates
    Transitions <- FullTransitions
    ActorOf <- FullActors
    NoState = NoState
    NoGate = NoGate
    Commanded = {"verify"}
    InitialStatus = "backlog"
    Runs = {r1}
    Operators = {ann}
    Stores = {repo}
    NoOperator = NoOperator
    OperatorOf <- OneOperator
    StoreOf <- OneStore
    SystemTerminal = {"done", "blocked"}
    KvBounds = {}
    PortalTargets = {}
    Faults = {}
    GateDispatchTimeout = 0
    SummariserTimeout = 0
    LeaseMargin = 1
    MaxRows = 10
    Uris = {a, b}
    NoUri = NoUri
    Requests = {q1, q2}
    OAuthRequests = 4
    OAuthFaults = 1
    Identities = {i, j}
    Emails = {"e", "f"}
    Admins = {"f"}
    NoOne = NoOne
    SignIns = 3
    SignInFails = 1
    Servers = {s1, s2}
    DevServers = {s1}
    Machines = {m}
    Projects = {p1}
    NoProject = NoProject
    Mints = 2
    Revokes = 1
    KeyFails = 1
    Instances = {n1, n2}
    Artifacts <- TwoNames
    Releases <- FourReleases
    Nothing = Nothing
    Boots = 3
    OperatorSets = 1
    Cuts = 1
    PathDirs = {"bin", "opt"}
    Preferred = "bin"
    Local = "repo"
    Installed <- OneMachine
    LastRelease = 2
    Commands = 2
    Hooks <- ThreeHooks
    Repositories <- ThreeRepositories
    Inits = 2
    RepositoryEdits = 1
    SourceFiles <- TwoFiles
    SourceTexts = {1, 2}
    BadText = 3
    NoText = 4
    Indexings = 3
    SourceEdits = 1
    Publishers <- TwoPublishers
    Consumer = Consumer
    NoSource = NoSource
    TaskNames <- ThreeNames
    TaskStarts <- FourStarts
    TaskBodies = 2
    TaskRuns = 2
    TaskWrites = 1
    RowNames <- TwoNames
    RowStarts <- ThreeProjects
    PageLimit = 2
    Clears = 2
    RowWrites = 1
    Publisher = Publisher
    OtherPublisher = OtherPublisher
SPECIFICATION MCSpec
INVARIANTS StatusTellsPath MovesEarned SignedIn StartsSound ClientSound
PROPERTIES ImplementsLifecycle StaysOnce
\* Everything stops once the bounds are reached.
CHECK_DEADLOCK FALSE
