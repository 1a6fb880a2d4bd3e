\* One operator, one clone, one run at a time, nothing lost.
CONSTANTS
    States <- FullStates
    Gates <- FullGates
    Transitions <- FullTransitions
    ActorOf <- FullActors
    NoState = NoState
    NoGate = NoGate
    Commanded = {"verify"}
    InitialStatus = "backlog"
    Runs = {r1}
    Operators = {ann}
    Stores = {repo}
    NoOperator = NoOperator
    OperatorOf <- OneOperator
    StoreOf <- OneStore
    SystemTerminal = {"done", "blocked"}
    KvBounds = {}
    PortalTargets = {}
    Faults = {}
    GateDispatchTimeout = 0
    SummariserTimeout = 0
    LeaseMargin = 1
    MaxRows = 10
SPECIFICATION Spec
INVARIANT ChainedDecisionEnacted
\* Commands stop once the ledger is full.
CHECK_DEADLOCK FALSE
