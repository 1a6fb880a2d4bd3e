----------------------------- MODULE Engagement -----------------------------
(***************************************************************************)
(* The engagements of one clone (internal/workstate/store.go): for each    *)
(* session and story a row of the `current` projection, which the edit     *)
(* door and the stop hook read.  Every `satellites` command of a session   *)
(* is a process that reads the projection in one transaction and appends   *)
(* an event in another, so commands that overlap act on what they read:    *)
(* `work init`, the story-access hooks, the ticker that runs before every  *)
(* command, and the refresh that ends a review.  `work close` only writes. *)
(* The append-only event log itself and its flush are left out.            *)
(***************************************************************************)
EXTENDS Workflow

CONSTANTS
    Sessions, Stories,
    Processes,      \* commands that may be under way at once
    NoSession, NoStory,  \* an idle process's session and story
    Unset,          \* the empty phase `work init` records without --status
    Candidate,      \* the phase of a story that was only looked at
    Absent,         \* the phase of a row that is not there
    InitFlags,      \* what --status may be given
    Reachable,      \* whether every guard lookup reaches the server
    EngageLeaseTTL, TickThrottle,
    MaxTime,        \* the clock stops here
    MaxCommands     \* no command starts after this many

Phases == States \cup {Unset, Candidate}

ASSUME EngagementAssumption ==
    /\ NoSession \notin Sessions /\ NoStory \notin Stories
    /\ Unset \notin States /\ Candidate \notin States \cup {Unset}
    /\ Absent \notin Phases
    /\ InitFlags \subseteq States \cup {Unset}
    /\ Reachable \in BOOLEAN
    /\ EngageLeaseTTL \in Nat \ {0} /\ TickThrottle \in Nat
    /\ MaxTime \in Nat /\ MaxCommands \in Nat

VARIABLES
    now,        \* the clock
    status,     \* documents.status of each story, on the server
    current,    \* the projection: a row for each session and story
    command,    \* the processes
    started,    \* how many commands were run
    active,     \* history: when each session last ran a command
    overlapped, \* history: the sessions whose commands have overlapped
    did         \* history: what each session last did to each story

vars == <<now, status, current, command, started, active, overlapped, did>>

Row == [phase : Phases \cup {Absent}, lease : Nat, editable : BOOLEAN, at : Nat]
NoRow == [phase |-> Absent, lease |-> 0, editable |-> FALSE, at |-> 0]

Command ==
    [op : {"none", "init", "engage", "candidate", "tick", "review", "observed", "phase"},
     session : Sessions \cup {NoSession},
     story : Stories \cup {NoStory},
     phase : Phases, editable : BOOLEAN,  \* what it will record
     seen : [Stories -> Row],             \* rows the ticker will re-stamp
     at : Nat]                            \* the time it took
NothingSeen == [st \in Stories |-> NoRow]
Idle == [op |-> "none", session |-> NoSession, story |-> NoStory, phase |-> Unset,
         editable |-> FALSE, seen |-> NothingSeen, at |-> 0]

Deed == [init : BOOLEAN, phase : Phases \cup {Absent}]
Nothing == [init |-> FALSE, phase |-> Absent]

TypeOK ==
    /\ now \in 0..MaxTime
    /\ status \in [Stories -> States]
    /\ current \in [Sessions -> [Stories -> Row]]
    /\ command \in [Processes -> Command]
    /\ started \in Nat
    /\ active \in [Sessions -> 0..MaxTime]
    /\ overlapped \subseteq Sessions
    /\ did \in [Sessions -> [Stories -> Deed]]

Init ==
    /\ now = 0
    /\ status = [st \in Stories |-> InitialStatus]
    /\ current = [s \in Sessions |-> [st \in Stories |-> NoRow]]
    /\ command = [p \in Processes |-> Idle]
    /\ started = 0
    /\ active = [s \in Sessions |-> 0]
    /\ overlapped = {}
    /\ did = [s \in Sessions |-> [st \in Stories |-> Nothing]]

-----------------------------------------------------------------------------
(* What the rows mean to their readers.                                    *)

IsLeaseFresh(row) == row.lease # 0 /\ now < row.lease
Engaged(row) == row.phase \notin {Absent, Candidate}

\* engagementOutcome: the edit door opens on a fresh, editable engagement.
DoorAllows(s) ==
    \E st \in Stories : LET row == current[s][st]
                        IN  Engaged(row) /\ IsLeaseFresh(row) /\ row.editable

\* runHookStopCheck, in a governed repository with no gate under way: the stop is
\* blocked by a fresh engagement whose phase is not known to be terminal.
StopBlocked(s) ==
    \E st \in Stories : LET row == current[s][st]
                        IN  /\ Engaged(row) /\ IsLeaseFresh(row)
                            /\ row.phase \in States => ~IsTerminal(row.phase)

\* resolveEngageGuards: an unreachable server must not block an edit.
Editability(phase) == {IsEditable(phase)} \cup (IF Reachable THEN {} ELSE {TRUE})

\* refuseNonExecutorActor
ExecutorsTurn(phase) == ActorOf[phase] \in {"", "executor"}

-----------------------------------------------------------------------------
(* Commands.                                                               *)

\* A command of session s begins.
Begins(s) ==
    /\ started < MaxCommands
    /\ started' = started + 1
    /\ active' = [active EXCEPT ![s] = now]
    /\ overlapped' = IF \E q \in Processes : command[q].session = s
                     THEN overlapped \cup {s} ELSE overlapped

Starts(p, s, c) ==
    /\ Begins(s)
    /\ command[p].op = "none"
    /\ command' = [command EXCEPT ![p] = c]

Records(s, st, row) == current' = [current EXCEPT ![s][st] = row]
Returns(p) == command' = [command EXCEPT ![p] = Idle]

Leased(phase, editable, at) ==
    [phase |-> phase, lease |-> at + EngageLeaseTTL, editable |-> editable, at |-> at]

\* work init: the guards are resolved from --status, or else the story's status.
InitStart(p, s, st, flag) ==
    LET phase == IF flag = Unset THEN status[st] ELSE flag
    IN  /\ \E e \in Editability(phase) :
             /\ ExecutorsTurn(phase) \/ (e /\ ~Reachable)
             /\ Starts(p, s, [Idle EXCEPT !.op = "init", !.session = s, !.story = st,
                                          !.phase = flag, !.editable = e])
        /\ UNCHANGED <<now, status, current, did>>

\* One open story per session, as far as this read can tell.
InitCheck(p) ==
    LET s == command[p].session
    IN  /\ command[p].op = "init"
        /\ \A st \in Stories \ {command[p].story} :
             ~(Engaged(current[s][st]) /\ IsLeaseFresh(current[s][st]))
        /\ command' = [command EXCEPT ![p].op = "engage", ![p].at = now]
        /\ active' = [active EXCEPT ![s] = now]
        /\ UNCHANGED <<now, status, current, started, overlapped, did>>

\* Another story is open, the drive-time gate blocks, or an epic collides.
InitRefused(p) ==
    /\ command[p].op = "init"
    /\ Returns(p)
    /\ UNCHANGED <<now, status, current, started, active, overlapped, did>>

InitAppend(p) ==
    LET c == command[p]
    IN  /\ c.op = "engage"
        /\ Records(c.session, c.story, Leased(c.phase, c.editable, c.at))
        /\ did' = [did EXCEPT ![c.session][c.story] = [init |-> TRUE, phase |-> c.phase]]
        /\ Returns(p)
        /\ UNCHANGED <<now, status, started, active, overlapped>>

\* Mutant: a close upserts its empty phase like any other event.
CloseUpserts(s, st) ==
    /\ Records(s, st, [NoRow EXCEPT !.phase = Unset, !.at = now])
    /\ did' = [did EXCEPT ![s][st] = Nothing]
    /\ Begins(s)
    /\ UNCHANGED <<now, status, command>>

\* work close.  Its guard may refuse (commits on a story that is not terminal) and
\* --force overrides it, so whatever the projection holds it may go ahead.
Close(s, st) ==
    /\ Records(s, st, NoRow)
    /\ did' = [did EXCEPT ![s][st] = Nothing]
    /\ Begins(s)
    /\ UNCHANGED <<now, status, command>>

\* assessAccess: isLiveEngagement wants a phase, so a story engaged without
\* --status does not count.
AccessRead(p, s, st) ==
    /\ current[s][st].phase \in {Absent, Candidate, Unset}
    /\ Starts(p, s, [Idle EXCEPT !.op = "candidate", !.session = s, !.story = st, !.at = now])
    /\ UNCHANGED <<now, status, current, did>>

AccessAppend(p) ==
    LET c == command[p]
    IN  /\ c.op = "candidate"
        /\ Records(c.session, c.story, [NoRow EXCEPT !.phase = Candidate, !.at = c.at])
        /\ Returns(p)
        /\ UNCHANGED <<now, status, started, active, overlapped, did>>

\* tickEngagement: the fresh engagements not stamped within the throttle.
Due(row) == Engaged(row) /\ IsLeaseFresh(row) /\ now - row.at >= TickThrottle

TickRead(p, s) ==
    LET seen == [st \in Stories |-> IF Due(current[s][st]) THEN current[s][st] ELSE NoRow]
    IN  /\ seen # NothingSeen
        /\ Starts(p, s, [Idle EXCEPT !.op = "tick", !.session = s, !.seen = seen, !.at = now])
        /\ UNCHANGED <<now, status, current, did>>

\* Mutant: the lease is extended from where it stood.
ExtendedLease(row, at) == [row EXCEPT !.lease = @ + EngageLeaseTTL, !.at = at]

\* The row as it was read, stamped afresh.
Stamped(row, at) == Leased(row.phase, row.editable, at)

TickAppend(p, st) ==
    LET c == command[p]
        rest == [c.seen EXCEPT ![st] = NoRow]
    IN  /\ c.op = "tick"
        /\ c.seen[st] # NoRow
        /\ Records(c.session, st, Stamped(c.seen[st], c.at))
        /\ command' = [command EXCEPT ![p] =
                         IF rest = NothingSeen THEN Idle ELSE [c EXCEPT !.seen = rest]]
        /\ UNCHANGED <<now, status, started, active, overlapped, did>>

-----------------------------------------------------------------------------
(* A review, reduced to what it does to the status and the engagement.     *)

\* Mutant: an edge without an escalation escalates to nowhere.
SuccessorsAndNone(ph) ==
    {Edge(i).to : i \in TransitionsFrom(ph)} \cup
    {Edge(i).exhausted : i \in TransitionsFrom(ph)}

Successors(ph) ==
    {Edge(i).to : i \in TransitionsFrom(ph)} \cup
    ({Edge(i).exhausted : i \in TransitionsFrom(ph)} \ {NoState})

Review(p, s, st) ==
    /\ Starts(p, s, [Idle EXCEPT !.op = "review", !.session = s, !.story = st,
                                 !.phase = status[st]])
    /\ UNCHANGED <<now, status, current, did>>

\* A status moves: by a review under way, by set-status or from another clone.
Moves(st) ==
    /\ \E to \in Successors(status[st]) : status' = [status EXCEPT ![st] = to]
    /\ UNCHANGED <<now, current, command, started, active, overlapped, did>>

Observe(p) ==
    LET c == command[p]
    IN  /\ c.op = "review"
        /\ IF status[c.story] = c.phase
           THEN Returns(p)
           ELSE \E e \in Editability(status[c.story]) :
                  command' = [command EXCEPT ![p] = [c EXCEPT !.op = "observed",
                                !.phase = status[c.story], !.editable = e]]
        /\ UNCHANGED <<now, status, current, started, active, overlapped, did>>

\* refreshEngagementPhase goes on when any row is there.
RefreshRead(p) ==
    LET c == command[p]
    IN  /\ c.op = "observed"
        /\ IF current[c.session][c.story].phase = Absent
           THEN Returns(p) /\ UNCHANGED active
           ELSE /\ command' = [command EXCEPT ![p] = [c EXCEPT !.op = "phase", !.at = now]]
                /\ active' = [active EXCEPT ![c.session] = now]
        /\ UNCHANGED <<now, status, current, started, overlapped, did>>

\* Mutant: the refresh keeps the editability recorded at engage time.
RefreshKeepingEditable(p) ==
    LET c == command[p]
    IN  /\ c.op = "phase"
        /\ Records(c.session, c.story,
                   Leased(c.phase, current[c.session][c.story].editable, c.at))
        /\ did' = [did EXCEPT ![c.session][c.story].phase = c.phase]
        /\ Returns(p)
        /\ UNCHANGED <<now, status, started, active, overlapped>>

RefreshAppend(p) ==
    LET c == command[p]
    IN  /\ c.op = "phase"
        /\ Records(c.session, c.story, Leased(c.phase, c.editable, c.at))
        /\ did' = [did EXCEPT ![c.session][c.story].phase = c.phase]
        /\ Returns(p)
        /\ UNCHANGED <<now, status, started, active, overlapped>>

Clock ==
    /\ now < MaxTime
    /\ now' = now + 1
    /\ UNCHANGED <<status, current, command, started, active, overlapped, did>>

-----------------------------------------------------------------------------
Starting(p) ==
    \E s \in Sessions :
        \/ TickRead(p, s)
        \/ \E st \in Stories :
             \/ \E flag \in InitFlags : InitStart(p, s, st, flag)
             \/ AccessRead(p, s, st)
             \/ Review(p, s, st)

Running(p) ==
    \/ InitCheck(p) \/ InitRefused(p) \/ InitAppend(p)
    \/ AccessAppend(p)
    \/ \E st \in Stories : TickAppend(p, st)
    \/ Observe(p) \/ RefreshRead(p) \/ RefreshAppend(p)

Next ==
    \/ \E p \in Processes : Starting(p) \/ Running(p)
    \/ \E s \in Sessions, st \in Stories : Close(s, st)
    \/ \E st \in Stories : Moves(st)
    \/ Clock

Spec == Init /\ [][Next]_vars

-----------------------------------------------------------------------------
\* However its commands overlap, a session that has run none for a whole lease is
\* shut out by the edit door: only the session's own activity renews a lease.
IdleSessionStale ==
    \A s \in Sessions : now >= active[s] + EngageLeaseTTL => ~DoorAllows(s)

\* Phase and editability are recorded together by every writer, so the door never
\* opens on a phase the workflow does not let be edited, even when a ticker writes
\* back a row that a review has replaced.
EditableMatchesPhase ==
    \A s \in Sessions, st \in Stories :
        LET row == current[s][st]
        IN  row.editable /\ row.phase \in States => IsEditable(row.phase)

\* The two hooks agree: a session the door lets edit is one the stop hook will not
\* let stop, so no edit is left behind by a stop the goal-keeper allowed.
EditorMayNotStop == \A s \in Sessions : DoorAllows(s) => StopBlocked(s)

\* As long as a session's commands do not overlap, an engagement shows what the
\* session's latest init or review recorded: no tick or access brings an older phase
\* or a closed engagement back.
RowFollowsSession ==
    \A s \in Sessions \ overlapped, st \in Stories :
        Engaged(current[s][st]) => current[s][st].phase = did[s][st].phase

\* An engagement was opened by work init: a refresh "never fabricates one"
\* (cmd_work.go:261).
EngagedByInit ==
    \A s \in Sessions \ overlapped, st \in Stories :
        Engaged(current[s][st]) => did[s][st].init

\* An engagement stands until work close: the access hooks are "ADVISORY: they
\* never block" (cmd_hook_access.go:3-4).
EngagedUntilClosed ==
    \A s \in Sessions \ overlapped, st \in Stories :
        did[s][st].init => Engaged(current[s][st])
=============================================================================
