\* Two operators share a clone; runs are killed, projections fail or come late, the
\* portal patches the status and reads of the server may fail.
CONSTANTS
    States <- AsideStates
    Gates <- LoopGates
    Transitions <- AsideTransitions
    ActorOf <- AsideActors
    NoState = NoState
    NoGate = NoGate
    Commanded = {}
    InitialStatus = "review"
    Runs = {ann, bob}
    Operators = {ann, bob}
    Stores = {repo}
    NoOperator = NoOperator
    OperatorOf <- TwoOperators
    StoreOf <- OneStore
    SystemTerminal = {"done", "blocked"}
    KvBounds = {1}
    PortalTargets = {"archive"}
    Faults = {"crash", "ledger_list", "project", "timeout"}
    GateDispatchTimeout = 1
    SummariserTimeout = 0
    LeaseMargin = 1
    MaxRows = 3
SPECIFICATION FairSpec
INVARIANTS ClaimExclusion StatusLedgered GateMonopoly
PROPERTY Progress
\* Commands stop once the ledger is full.
CHECK_DEADLOCK FALSE
