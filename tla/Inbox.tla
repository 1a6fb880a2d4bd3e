------------------------------- MODULE Inbox -------------------------------
(***************************************************************************)
(* How the signals a review run stages in the local inbox reach the ledger *)
(* (internal/workstate/inbox.go; flushLocalInbox and its callers in        *)
(* internal/cli/cmd_story_review.go), for one story of one clone.  A flush *)
(* reads the high-water mark, reads the inbox, appends the rows above the  *)
(* mark one by one whatever becomes of each, and raises the mark.  A run   *)
(* that saw the story end then deletes the inbox and the mark.  Runs of    *)
(* one operator overlap (the claim lets its own holder in again), and a    *)
(* run may be killed anywhere.                                             *)
(***************************************************************************)
EXTENDS Naturals, FiniteSets

CONSTANTS
    ReviewRuns, \* review runs that may be under way at once
    MaxRows,    \* no signal is staged after this many
    MaxFaults   \* nothing fails and no run is killed after this many

Seqs == 1..MaxRows

VARIABLES
    count,      \* the last seq the store assigned; seqs are not used again
    inbox,      \* the rows that are staged
    mark,       \* work_claim.last_seq, 0 when there is no claim row
    ended,      \* whether the story is at a terminal status
    run,        \* the runs
    ledger,     \* how many ledger rows carry each seq
    excused,    \* history: rows whose append failed, that were staged behind the last flush
                \* of another run, or that a flush could not read
    again,      \* history: rows of overlapping flushes, and of those that did not advance
    faults      \* how many faults there were

vars == <<count, inbox, mark, ended, run, ledger, excused, again, faults>>

Run ==
    [at : {"idle", "open", "marked", "send", "clean"},
     end : BOOLEAN,         \* it saw the story at a terminal status
     last : 0..MaxRows,     \* the mark it read
     todo : SUBSET Seqs,    \* rows it read and has not sent
     sent : SUBSET Seqs]    \* rows it sent
Idle == [at |-> "idle", end |-> FALSE, last |-> 0, todo |-> {}, sent |-> {}]

TypeOK ==
    /\ count \in 0..MaxRows
    /\ inbox \subseteq Seqs
    /\ mark \in 0..MaxRows
    /\ ended \in BOOLEAN
    /\ run \in [ReviewRuns -> Run]
    /\ ledger \in [Seqs -> Nat]
    /\ excused \subseteq Seqs
    /\ again \subseteq Seqs
    /\ faults \in 0..MaxFaults

Init ==
    /\ count = 0
    /\ inbox = {}
    /\ mark = 0
    /\ ended = FALSE
    /\ run = [r \in ReviewRuns |-> Idle]
    /\ ledger = [s \in Seqs |-> 0]
    /\ excused = {}
    /\ again = {}
    /\ faults = 0

-----------------------------------------------------------------------------
Others(r) == ReviewRuns \ {r}
Flushing(r) == run[r].at \in {"marked", "send", "clean"}

\* Another run is on its way to the cleanup.
Closing(r) == \E q \in Others(r) : Flushing(q) /\ run[q].end

\* A run starts on a story that goes on, and claims it.
Begin(r) ==
    /\ run[r].at = "idle"
    /\ ~ ended
    /\ run' = [run EXCEPT ![r].at = "open"]
    /\ UNCHANGED <<count, inbox, mark, ended, ledger, excused, again, faults>>

\* InboxAppend: the request of a gate, the summary of a step.
Stage(r) ==
    /\ run[r].at = "open"
    /\ count < MaxRows
    /\ count' = count + 1
    /\ inbox' = inbox \cup {count + 1}
    /\ excused' = IF Closing(r) THEN excused \cup {count + 1} ELSE excused
    /\ UNCHANGED <<mark, ended, run, ledger, again, faults>>

\* A gate moves the story to a terminal status.
End(r) ==
    /\ run[r].at = "open"
    /\ ended' = TRUE
    /\ UNCHANGED <<count, inbox, mark, run, ledger, excused, again, faults>>

\* The run returns before its flush, with an error of its gate or by a kill.
Abandon(r) ==
    /\ run[r].at = "open"
    /\ run' = [run EXCEPT ![r] = Idle]
    /\ UNCHANGED <<count, inbox, mark, ended, ledger, excused, again, faults>>

\* ReadWorkClaim, with the status the run has just read back; the flush after a checkpoint
\* is followed by no cleanup.
ReadMark(r) ==
    /\ run[r].at = "open"
    /\ \E end \in {FALSE, ended} :
         run' = [run EXCEPT ![r] = [Idle EXCEPT !.at = "marked", !.end = end, !.last = mark]]
    /\ again' = again \cup UNION {run[q].sent : q \in Others(r)}
    /\ UNCHANGED <<count, inbox, mark, ended, ledger, excused, faults>>

AfterFlush(c) == IF c.end THEN [c EXCEPT !.at = "clean", !.todo = {}] ELSE Idle

Unflushed(r) == {s \in inbox : s > run[r].last}

\* InboxReadAll
ReadAll(r) ==
    /\ run[r].at = "marked"
    /\ run' = [run EXCEPT ![r] = IF Unflushed(r) = {} THEN AfterFlush(@)
                                 ELSE [@ EXCEPT !.at = "send", !.todo = Unflushed(r)]]
    /\ UNCHANGED <<count, inbox, mark, ended, ledger, excused, again, faults>>

\* The store cannot be read: the flush returns, and the run goes on to its cleanup.
ReadFails(r) ==
    /\ run[r].at = "marked"
    /\ faults < MaxFaults
    /\ faults' = faults + 1
    /\ run' = [run EXCEPT ![r] = AfterFlush(@)]
    /\ excused' = excused \cup inbox
    /\ UNCHANGED <<count, inbox, mark, ended, ledger, again>>

First(S) == CHOOSE s \in S : \A t \in S : s <= t

Send(r, s) ==
    /\ run[r].at = "send"
    /\ run[r].todo # {}
    /\ s = First(run[r].todo)
    /\ run' = [run EXCEPT ![r].todo = @ \ {s}, ![r].sent = @ \cup {s}]
    /\ again' = IF \E q \in Others(r) : Flushing(q) /\ run[q].last < s
                THEN again \cup {s} ELSE again

\* reviewAppendLedger: the row is appended; an error is logged and forgotten, and may
\* hide an append.
SendOk(r, s) ==
    /\ Send(r, s)
    /\ ledger' = [ledger EXCEPT ![s] = @ + 1]
    /\ UNCHANGED <<count, inbox, mark, ended, excused, faults>>

SendFails(r, s) ==
    /\ Send(r, s)
    /\ faults < MaxFaults
    /\ faults' = faults + 1
    /\ excused' = excused \cup {s}
    /\ UNCHANGED <<count, inbox, mark, ended, ledger>>

Largest(S) == CHOOSE s \in S : \A t \in S : t <= s

\* Mutant: the mark is raised to the last row the store has.
AdvanceToCount(r) ==
    /\ run[r].at = "send"
    /\ run[r].todo = {}
    /\ mark' = count
    /\ run' = [run EXCEPT ![r] = AfterFlush(@)]
    /\ UNCHANGED <<count, inbox, ended, ledger, excused, again, faults>>

\* AdvanceInboxFlush never lowers the mark.
Advance(r) ==
    /\ run[r].at = "send"
    /\ run[r].todo = {}
    /\ mark' = Largest({mark} \cup run[r].sent)
    /\ run' = [run EXCEPT ![r] = AfterFlush(@)]
    /\ UNCHANGED <<count, inbox, ended, ledger, excused, again, faults>>

\* The store refuses the mark, which is only a warning.
AdvanceFails(r) ==
    /\ run[r].at = "send"
    /\ run[r].todo = {}
    /\ faults < MaxFaults
    /\ faults' = faults + 1
    /\ run' = [run EXCEPT ![r] = AfterFlush(@)]
    /\ again' = again \cup run[r].sent
    /\ UNCHANGED <<count, inbox, mark, ended, ledger, excused>>

\* The run is killed, or its cleanup fails.
Dies(r) ==
    /\ run[r].at \in {"marked", "send", "clean"}
    /\ faults < MaxFaults
    /\ faults' = faults + 1
    /\ run' = [run EXCEPT ![r] = Idle]
    /\ again' = again \cup run[r].sent
    /\ UNCHANGED <<count, inbox, mark, ended, ledger, excused>>

\* CleanupWork
Cleanup(r) ==
    /\ run[r].at = "clean"
    /\ inbox' = {}
    /\ mark' = 0
    /\ run' = [run EXCEPT ![r] = Idle]
    /\ UNCHANGED <<count, ended, ledger, excused, again, faults>>

Next ==
    \E r \in ReviewRuns :
        \/ Begin(r) \/ Stage(r) \/ End(r) \/ Abandon(r)
        \/ ReadMark(r) \/ ReadAll(r) \/ ReadFails(r)
        \/ \E s \in Seqs : SendOk(r, s) \/ SendFails(r, s)
        \/ Advance(r) \/ AdvanceFails(r) \/ Dies(r) \/ Cleanup(r)

Spec == Init /\ [][Next]_vars

-----------------------------------------------------------------------------
\* A staged row that no flush will send any more, because the mark passed it or the
\* cleanup deleted it, is in the ledger: unless its append failed, a flush could not read
\* the inbox, or it was staged behind the flush of another run that then cleaned up.
NoneForgotten ==
    \A s \in 1..count :
        s \notin inbox \/ s <= mark => ledger[s] > 0 \/ s \in excused

\* "A row is flushed once": a row is in the ledger twice only when flushes overlapped, or
\* one died between sending it and raising the mark.
FlushedOnce ==
    \A s \in Seqs : ledger[s] > 1 => s \in again

\* What the flushes make of the staged rows: none forgotten, and each flushed once.
FlushFaithful == NoneForgotten /\ FlushedOnce
=============================================================================
