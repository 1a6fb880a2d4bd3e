\* Services of a clone, one per initial state. Everything stops once the bounds are reached.
CONSTANTS
    Flushes = {f1, f2}
    MaxEvents = 3
    MaxFaults = 2
    ReviewRuns = {r1, r2}
    MaxRows = 2
    InboxFaults = 2
    Bodies = {b1, b2}
    OptedIn = {b1}
    Syncs = {y1, y2}
    MaxChanges = 1
    States = {"a", "b", "c"}
    Gates = {"g", "h"}
    NoState = ""
    NoGate = ""
    Pool <- ElevenEdges
    MaxEdges = 4
    Slots = 4
    TierOf <- FourTiers
    Files <- FiveFiles
    Categories = {"fix", "doc"}
    NoFile = NoFile
    NoName = ""
    NoBlock = NoBlock
    MaxEdits = 1
SPECIFICATION MCSpec
INVARIANTS
    Types NothingSkipped OnceUnlessRaced
    FlushFaithful FilesGovern
PROPERTIES MarkSettles SyncFaithful GovernedMoves
CHECK_DEADLOCK FALSE
