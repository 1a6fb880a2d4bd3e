-------------------------------- MODULE Live --------------------------------
(***************************************************************************)
(* The live region of one page (internal/live, internal/server).  A write  *)
(* the region shows notifies its topic when it commits; the listener       *)
(* passes the topic to the hub, the hub to the buffer of the page's        *)
(* stream, and the page, some time after the last trigger, asks for the    *)
(* region again.  Nothing is sent twice: a topic is lost when the listener *)
(* is cut off, when the page has no stream, and when its buffer is full.   *)
(***************************************************************************)
EXTENDS Naturals, Sequences, FiniteSets

CONSTANTS
    ClientBuffer,   \* topics a stream may have pending
    Asks,           \* requests of the page that may be under way at once
    MaxWrites,      \* nothing is written after this many
    MaxFaults       \* no link is cut and no request fails after this many

Topics == {"mine", "other"}   \* the topic of the page; any other its user may see

VARIABLES
    db,        \* how often what the region shows was written
    notes,     \* topics between the commit and the hub
    linked,    \* whether the listener is connected
    open,      \* whether the page has a stream
    buffer,    \* the stream: the client's channel, and what is on its way to the page
    timer,     \* whether the page waits for the end of a burst
    asked,     \* requests the server has not read the region for
    answered,  \* the region a request was answered with
    view,      \* the region the page shows
    missed,    \* history: since the page was last current, a trigger it needed was lost,
               \* a request failed, or an old answer came after a newer one
    writes,    \* how many writes there were
    faults     \* how many faults there were

vars == <<db, notes, linked, open, buffer, timer, asked, answered, view, missed, writes, faults>>

None == MaxWrites + 1    \* no answer

TypeOK ==
    /\ db \in 0..MaxWrites
    /\ notes \in Seq(Topics)
    /\ linked \in BOOLEAN
    /\ open \in BOOLEAN
    /\ buffer \in Seq(Topics) /\ Len(buffer) <= ClientBuffer
    /\ timer \in BOOLEAN
    /\ asked \subseteq Asks
    /\ answered \in [Asks -> 0..None]
    /\ view \in 0..MaxWrites
    /\ missed \in BOOLEAN
    /\ writes \in 0..MaxWrites
    /\ faults \in 0..MaxFaults

\* The page was served, and opens its stream.
Init ==
    /\ db = 0
    /\ notes = <<>>
    /\ linked = TRUE
    /\ open = FALSE
    /\ buffer = <<>>
    /\ timer = FALSE
    /\ asked = {}
    /\ answered = [a \in Asks |-> None]
    /\ view = 0
    /\ missed = FALSE
    /\ writes = 0
    /\ faults = 0

Mine(s) == \E i \in 1..Len(s) : s[i] = "mine"

\* A request will still read the region, whatever else is lost.
Rings == Mine(notes) \/ Mine(buffer) \/ timer \/ asked # {}

\* The last trigger that would have made the page ask again is lost.
Lose == missed' = (missed \/ (Rings /\ ~ Rings'))

-----------------------------------------------------------------------------
\* A transaction commits; its topic is queued when the listener is connected.
Write(t) ==
    /\ writes < MaxWrites
    /\ writes' = writes + 1
    /\ db' = IF t = "mine" THEN db + 1 ELSE db
    /\ notes' = IF linked THEN Append(notes, t) ELSE notes
    /\ missed' = (missed \/ (t = "mine" /\ ~ linked /\ ~ Rings))
    /\ UNCHANGED <<linked, open, buffer, timer, asked, answered, view, faults>>

\* Mutant: the channel takes any number.
RoomAlways == open

Room == open /\ Len(buffer) < ClientBuffer

\* Publish: a client without room, or none, misses the topic.
Publish ==
    /\ notes # <<>>
    /\ notes' = Tail(notes)
    /\ buffer' = IF Room THEN Append(buffer, Head(notes)) ELSE buffer
    /\ UNCHANGED <<db, linked, open, timer, asked, answered, view, writes, faults>>
    /\ Lose

\* Subscribe: nothing is asked again, and nothing is replayed.
Connect ==
    /\ ~ open
    /\ open' = TRUE
    /\ UNCHANGED <<db, notes, linked, buffer, timer, asked, answered, view, missed, writes, faults>>

Disconnect ==
    /\ open
    /\ faults < MaxFaults
    /\ faults' = faults + 1
    /\ open' = FALSE
    /\ buffer' = <<>>
    /\ UNCHANGED <<db, notes, linked, timer, asked, answered, view, writes>>
    /\ Lose

Unlink ==
    /\ linked
    /\ faults < MaxFaults
    /\ faults' = faults + 1
    /\ linked' = FALSE
    /\ notes' = <<>>
    /\ UNCHANGED <<db, open, buffer, timer, asked, answered, view, writes>>
    /\ Lose

Relink ==
    /\ ~ linked
    /\ linked' = TRUE
    /\ UNCHANGED <<db, notes, open, buffer, timer, asked, answered, view, missed, writes, faults>>

\* Mutant: a trigger is ignored while a request is under way.
Triggered == timer' = (asked = {} /\ \A a \in Asks : answered[a] = None)

\* The handler of the page's topic starts its timer again.
Trigger == timer' = TRUE

Receive ==
    /\ buffer # <<>>
    /\ buffer' = Tail(buffer)
    /\ IF Head(buffer) = "mine" THEN Trigger ELSE UNCHANGED timer
    /\ UNCHANGED <<db, notes, linked, open, asked, answered, view, missed, writes, faults>>

\* The burst is over. An older request is not cancelled.
Ask(a) ==
    /\ timer
    /\ a \notin asked /\ answered[a] = None
    /\ timer' = FALSE
    /\ asked' = asked \cup {a}
    /\ UNCHANGED <<db, notes, linked, open, buffer, answered, view, missed, writes, faults>>

Answer(a) ==
    /\ a \in asked
    /\ asked' = asked \ {a}
    /\ answered' = [answered EXCEPT ![a] = db]
    /\ UNCHANGED <<db, notes, linked, open, buffer, timer, view, missed, writes, faults>>

\* The answer replaces the region, whichever request it belongs to.
Swap(a) ==
    /\ answered[a] # None
    /\ view' = answered[a]
    /\ missed' = ((missed /\ answered[a] # db) \/ (answered[a] < view /\ ~ Rings))
    /\ answered' = [answered EXCEPT ![a] = None]
    /\ UNCHANGED <<db, notes, linked, open, buffer, timer, asked, writes, faults>>

AskFails(a) ==
    /\ a \in asked \/ answered[a] # None
    /\ faults < MaxFaults
    /\ faults' = faults + 1
    /\ asked' = asked \ {a}
    /\ answered' = [answered EXCEPT ![a] = None]
    /\ UNCHANGED <<db, notes, linked, open, buffer, timer, view, writes>>
    /\ missed' = (missed \/ ~ Rings')

Next ==
    \/ \E t \in Topics : Write(t)
    \/ Publish \/ Connect \/ Disconnect \/ Unlink \/ Relink \/ Receive
    \/ \E a \in Asks : Ask(a) \/ Answer(a) \/ Swap(a) \/ AskFails(a)

Spec == Init /\ [][Next]_vars

-----------------------------------------------------------------------------
\* A page that is not current will ask again or has the current answer under way, unless
\* it missed something: a full buffer, a closed stream or a cut link took its last trigger,
\* a request failed, or two answers crossed. "A drop is harmless" otherwise.
StaleOnlyIfMissed ==
    view # db => Rings \/ missed \/ \E a \in Asks : answered[a] = db
=============================================================================
