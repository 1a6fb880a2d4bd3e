\* Two operators share a clone and nothing is lost.
CONSTANTS
    States <- LoopStates
    Gates <- LoopGates
    Transitions <- LoopTransitions
    ActorOf <- LoopActors
    NoState = NoState
    NoGate = NoGate
    Commanded = {}
    InitialStatus = "review"
    Runs = {ann, bob}
    Operators = {ann, bob}
    Stores = {repo}
    NoOperator = NoOperator
    OperatorOf <- TwoOperators
    StoreOf <- OneStore
    SystemTerminal = {"done", "blocked"}
    KvBounds = {}
    PortalTargets = {}
    Faults = {}
    GateDispatchTimeout = 1
    SummariserTimeout = 0
    LeaseMargin = 1
    MaxRows = 2
SPECIFICATION Spec
INVARIANT VisitLeftOnce
\* Commands stop once the ledger is full.
CHECK_DEADLOCK FALSE
