\* One session, one story, one command at a time.
CONSTANTS
    States <- LoopStates
    Gates = {}
    Transitions <- LoopTransitions
    ActorOf <- LoopActors
    NoState = NoState
    NoGate = NoGate
    Commanded = {}
    InitialStatus = "backlog"
    Sessions = {ann}
    Stories = {s1}
    Processes = {p1}
    NoSession = NoSession
    NoStory = NoStory
    Unset = Unset
    Candidate = Candidate
    Absent = Absent
    InitFlags = {Unset, "in_progress"}
    Reachable = TRUE
    EngageLeaseTTL = 2
    TickThrottle = 1
    MaxTime = 3
    MaxCommands = 4
SPECIFICATION Spec
INVARIANT EngagedUntilClosed
\* Commands stop at the bound.
CHECK_DEADLOCK FALSE
