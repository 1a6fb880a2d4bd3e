\* What the server keeps, one part per initial state. Of the gates: two runs of one operator
\* race in one clone, and appends may be lost.
CONSTANTS
    States <- LoopStates
    Gates <- LoopGates
    Transitions <- LoopTransitions
    ActorOf <- LoopActors
    NoState = NoState
    NoGate = NoGate
    Commanded = {}
    InitialStatus = "review"
    Runs = {r1, r2}
    Operators = {ann}
    Stores = {repo}
    NoOperator = NoOperator
    OperatorOf <- OneOperator
    StoreOf <- OneStore
    SystemTerminal = {"done", "blocked"}
    KvBounds = {}
    PortalTargets = {}
    Faults = {"append", "observe"}
    GateDispatchTimeout = 0
    SummariserTimeout = 0
    LeaseMargin = 1
    MaxRows = 3
    Items = {"e", "s", "t"}
    Tasks = {"t"}
    NoItem = ""
    Keep = Keep
    TreePatches <- StoryPatches
    TreeRequests = {q1, q2}
    TreeCalls = 2
    TreeFaults = 1
    Texts = {0, 1}
    Writers = {w1, w2}
    Jobs = {j1, j2, j3}
    Reviews = {v1}
    SummaryWrites = 2
    Findings = 1
    SummaryFails = 1
    Workspaces = {"w1", "w2"}
    Projects = {"p1"}
    None = None
    HomeUsers = {"u1", "u2"}
    HomeCallers <- FourCallers
    HomeRequests = {q1, q2}
    HomeCalls = 2
    HomeFails = 1
    VariableNames = {"n", "c", "r"}
    ComputedNames = {"c"}
    CredentialNames = {"r"}
    StartKeys <- ThreeStarts
    WriteKeys <- ThreeWritten
    ReadKeys <- OneRead
    VariableRequests = {q1, q2}
    VariableCalls = 3
    Clean = {"b1", "b2"}
    Dirty = {x}
    Exempt = {y}
    Bad = Bad
    NoBody = NoBody
    Empty = Empty
    Artifacts = {1, 2}
    Uploads = {u1, u2}
    UploadStarts = 2
    UploadEdits = 1
    UploadFails = 1
SPECIFICATION MCSpec

INVARIANTS RecordTypes MarkerMeansRunning RejectOverrun VariablesKept UploadsJudged
PROPERTIES StoryTold ProjectsKept
\* Everything stops once the bounds are reached.
CHECK_DEADLOCK FALSE
