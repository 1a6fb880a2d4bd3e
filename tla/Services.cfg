\* Services of the server, one per initial state. Everything stops once the bounds are reached.
CONSTANTS
    Producers = {p1, p2}
    Derived = {p2}
    BufferSize = 2
    BatchSize = 2
    MaxRetries = 2
    MaxRecords = 4
    MaxFaults = 2
    Bodies = {b1, b2}
    Writers = {w1, w2}
    Tags = {t1}
    MaxVersions = 2
    Docs = {1, 2, 3}
    ProjectDocs = {3}
    PageLimit = 1
    Workers = {s1, s2}
    DocWrites = 3
    EmbedFaults = 1
    ClientBuffer = 1
    Asks = {1, 2}
    PageWrites = 4
    Users = {u1, u2}
    Callers = {c1, c2}
    Invites = {i1}
SPECIFICATION MCSpec
INVARIANTS
    Types Accounted HoldsNewest QuietClose OnceUnlessUnsure
    DocumentsFaithful StaleOnlyIfMissed MembershipSound
PROPERTY CatchesUp
CHECK_DEADLOCK FALSE
