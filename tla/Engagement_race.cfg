\* One session, two stories; two commands may be under way at once.
CONSTANTS
    States <- LoopStates
    Gates = {}
    Transitions <- LoopTransitions
    ActorOf <- LoopActors
    NoState = NoState
    NoGate = NoGate
    Commanded = {}
    InitialStatus = "backlog"
    Sessions = {ann}
    Stories = {s1, s2}
    Processes = {p1, p2}
    NoSession = NoSession
    NoStory = NoStory
    Unset = Unset
    Candidate = Candidate
    Absent = Absent
    InitFlags = {Unset, "in_progress"}
    Reachable = TRUE
    EngageLeaseTTL = 2
    TickThrottle = 1
    MaxTime = 3
    MaxCommands = 3
SYMMETRY Alike
SPECIFICATION Spec
INVARIANTS TypeOK IdleSessionStale EditableMatchesPhase EditorMayNotStop RowFollowsSession
\* Commands stop at the bound.
CHECK_DEADLOCK FALSE
