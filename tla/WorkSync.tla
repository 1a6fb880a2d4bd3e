------------------------------ MODULE WorkSync ------------------------------
(***************************************************************************)
(* How a clone's engagement events reach the server's ledger               *)
(* (internal/cli/cmd_work_sync.go).  A flush reads the high-water mark,    *)
(* reads the events above it, appends them one by one and stores the seq   *)
(* of the last that went through; it stops at the first that fails.  The   *)
(* server skips an event it already has, in a check that is separate from  *)
(* the insert.  Flushes overlap: the ticker spawns one after any command,  *)
(* init and a review run one, an operator may run one.  They are killed at *)
(* any point, and a call the client gave up may still be inserted later.   *)
(* One clone, whose session and story keys no other clone uses.            *)
(***************************************************************************)
EXTENDS Naturals, FiniteSets

CONSTANTS
    Flushes,    \* `work sync` runs that may be under way at once
    MaxEvents,  \* no event is recorded after this many
    MaxFaults   \* no call fails and no flush is killed after this many

ASSUME WorkSyncAssumption == MaxEvents \in Nat /\ MaxFaults \in Nat

Seqs == 1..MaxEvents

VARIABLES
    events,     \* how many events the log holds; their seqs are 1..events
    mark,       \* meta.last_flushed_seq
    flush,      \* the flushes
    rows,       \* the server's ledger: how many rows carry each seq
    late,       \* inserts whose client no longer waits
    raced,      \* history: seqs checked while an insert of them was under way
    faults      \* how many faults there were

vars == <<events, mark, flush, rows, late, raced, faults>>

Flush ==
    [at : {"idle", "marked", "check", "insert", "advance"},
     last : Nat,            \* the mark it read
     next : Nat,            \* the event it is appending
     upto : Nat,            \* the last event it read
     max : Nat]             \* the last that went through
Idle == [at |-> "idle", last |-> 0, next |-> 0, upto |-> 0, max |-> 0]

TypeOK ==
    /\ events \in 0..MaxEvents
    /\ mark \in 0..MaxEvents
    /\ flush \in [Flushes -> Flush]
    /\ rows \in [Seqs -> Nat]
    /\ late \in [Seqs -> Nat]
    /\ raced \subseteq Seqs
    /\ faults \in 0..MaxFaults

Init ==
    /\ events = 0
    /\ mark = 0
    /\ flush = [f \in Flushes |-> Idle]
    /\ rows = [e \in Seqs |-> 0]
    /\ late = [e \in Seqs |-> 0]
    /\ raced = {}
    /\ faults = 0

-----------------------------------------------------------------------------
\* workstate.Append: a command records an event.
Record ==
    /\ events < MaxEvents
    /\ events' = events + 1
    /\ UNCHANGED <<mark, flush, rows, late, raced, faults>>

ReadMark(f) ==
    /\ flush[f].at = "idle"
    /\ flush' = [flush EXCEPT ![f] = [Idle EXCEPT !.at = "marked", !.last = mark, !.max = mark]]
    /\ UNCHANGED <<events, mark, rows, late, raced, faults>>

Moves(f, at) == flush' = [flush EXCEPT ![f].at = at]

\* EventsSince
ReadEvents(f) ==
    /\ flush[f].at = "marked"
    /\ flush' = [flush EXCEPT ![f] =
                   IF events > flush[f].last
                   THEN [flush[f] EXCEPT !.at = "check", !.next = flush[f].last + 1,
                                         !.upto = events]
                   ELSE Idle]
    /\ UNCHANGED <<events, mark, rows, late, raced, faults>>

\* Mutant: an event that fails is skipped, not retried.
StopsSkipping(f) ==
    LET c == flush[f]
    IN  flush' = [flush EXCEPT ![f] =
                    IF c.next < c.upto THEN [c EXCEPT !.at = "check", !.next = c.next + 1]
                    ELSE IF c.max > c.last THEN [c EXCEPT !.at = "advance"] ELSE Idle]

\* The loop breaks at an event that fails.
Stops(f) ==
    LET c == flush[f]
    IN  flush' = [flush EXCEPT ![f] =
                    IF c.max > c.last THEN [c EXCEPT !.at = "advance"] ELSE Idle]

\* Mutant: the mark stops before the event that went through.
SucceedsBefore(f) ==
    LET c == flush[f]
    IN  flush' = [flush EXCEPT ![f] =
                    IF c.next < c.upto
                    THEN [c EXCEPT !.at = "check", !.max = c.next - 1, !.next = c.next + 1]
                    ELSE [c EXCEPT !.at = "advance", !.max = c.next - 1]]

\* The event went through, as far as the client can tell.
Succeeds(f) ==
    LET c == flush[f]
    IN  flush' = [flush EXCEPT ![f] =
                    IF c.next < c.upto
                    THEN [c EXCEPT !.at = "check", !.max = c.next, !.next = c.next + 1]
                    ELSE [c EXCEPT !.at = "advance", !.max = c.next]]

\* Mutant: replays are not recognised.
CheckNothing(f) ==
    /\ flush[f].at = "check"
    /\ Moves(f, "insert")
    /\ UNCHANGED <<events, mark, rows, late, raced, faults>>

\* EngagementSeqExists: a seq the ledger has is answered at once.
Check(f) ==
    LET e == flush[f].next
    IN  /\ flush[f].at = "check"
        /\ IF rows[e] > 0
           THEN Succeeds(f) /\ UNCHANGED raced
           ELSE /\ Moves(f, "insert")
                /\ raced' = IF late[e] > 0 \/ \E g \in Flushes : /\ flush[g].at = "insert"
                                                                  /\ flush[g].next = e
                            THEN raced \cup {e} ELSE raced
        /\ UNCHANGED <<events, mark, rows, late, faults>>

Insert(f) ==
    LET e == flush[f].next
    IN  /\ flush[f].at = "insert"
        /\ rows' = [rows EXCEPT ![e] = @ + 1]
        /\ Succeeds(f)
        /\ UNCHANGED <<events, mark, late, raced, faults>>

\* A fault: what goes wrong goes wrong often enough to matter, not forever.
Faulty ==
    /\ faults < MaxFaults
    /\ faults' = faults + 1

\* The server is not reached, or fails before it inserts.
Fails(f) ==
    /\ Faulty
    /\ flush[f].at \in {"check", "insert"}
    /\ Stops(f)
    /\ UNCHANGED <<events, mark, rows, late, raced>>

\* The client gives the call up while the server is about to insert.
GivesUp(f) ==
    /\ Faulty
    /\ flush[f].at = "insert"
    /\ late' = [late EXCEPT ![flush[f].next] = @ + 1]
    /\ Stops(f)
    /\ UNCHANGED <<events, mark, rows, raced>>

\* A flush is killed: a detached child dies with its terminal or its machine.
Killed(f) ==
    /\ Faulty
    /\ flush[f].at # "idle"
    /\ flush' = [flush EXCEPT ![f] = Idle]
    /\ late' \in {late} \cup
                 IF flush[f].at = "insert"
                 THEN {[late EXCEPT ![flush[f].next] = @ + 1]} ELSE {}
    /\ UNCHANGED <<events, mark, rows, raced>>

\* The server goes on with a call its client gave up, or drops it.
LateInsert(e) ==
    /\ late[e] > 0
    /\ late' = [late EXCEPT ![e] = @ - 1]
    /\ rows' \in {rows, [rows EXCEPT ![e] = @ + 1]}
    /\ UNCHANGED <<events, mark, flush, raced, faults>>

\* Mutant: the mark moves to the next event to send.
AdvancePast(f) ==
    /\ flush[f].at = "advance"
    /\ mark' = flush[f].max + 1
    /\ flush' = [flush EXCEPT ![f] = Idle]
    /\ UNCHANGED <<events, rows, late, raced, faults>>

\* SetLastFlushedSeq: whatever the mark is by now, even a higher one.
Advance(f) ==
    /\ flush[f].at = "advance"
    /\ mark' = flush[f].max
    /\ flush' = [flush EXCEPT ![f] = Idle]
    /\ UNCHANGED <<events, rows, late, raced, faults>>

Runs(f) == ReadMark(f) \/ ReadEvents(f) \/ Check(f) \/ Insert(f) \/ Advance(f)

Next ==
    \/ Record
    \/ \E f \in Flushes : Runs(f) \/ Fails(f) \/ GivesUp(f) \/ Killed(f)
    \/ \E e \in Seqs : LateInsert(e)

Spec == Init /\ [][Next]_vars

\* A flush goes on once it was started, and every command of an active session may
\* start the next: the ticker spawns one, whatever became of the last.
FairSpec == Spec /\ \A f \in Flushes : WF_vars(Runs(f))

-----------------------------------------------------------------------------
Delivered(n) == \A e \in Seqs : e <= n => rows[e] > 0

\* No flush passes over an event: what the mark covers is on the ledger, and so is
\* everything before a row that is, however flushes overlap, fail or are killed.
NothingSkipped ==
    /\ Delivered(mark)
    /\ \A e \in Seqs : rows[e] > 0 => Delivered(e)

\* Replays are recognised: after a kill, a lost answer or a lowered mark an event is
\* inserted again only if an earlier insert of it had not yet happened when the
\* server looked.
OnceUnlessRaced == \A e \in Seqs : rows[e] > 1 => e \in raced

\* "Each event lands exactly once" (worklive.go:9), as two racing flushes are
\* "detected here and skipped" (ledger/store.go:196-197).
LandsOnce == \A e \in Seqs : rows[e] <= 1

\* Once no event is recorded any more, the mark settles on the last one, though a
\* slow flush may set it back after a faster one advanced it.
SettlesOnLast == <>[](mark = events)
=============================================================================
