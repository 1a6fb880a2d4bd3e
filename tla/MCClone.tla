------------------------------- MODULE MCClone -------------------------------
(***************************************************************************)
(* The services of a clone that share no state with each other, in one     *)
(* run: an initial state chooses the service, and the others stay as they  *)
(* began.  The state space is the sum of theirs and not their product, and *)
(* a property of one service is checked in the behaviours of that one.     *)
(***************************************************************************)
EXTENDS WorkSync, Sequences

CONSTANTS
    ReviewRuns, MaxRows, InboxFaults,            \* Inbox
    Bodies, OptedIn, Syncs, MaxChanges,          \* SkillSync
    States, Gates, NoState, NoGate,              \* WorkflowFile and Governance
    Pool, MaxEdges,                              \* WorkflowFile
    Slots, TierOf, Files, Categories,            \* Governance
    NoFile, NoName, NoBlock, MaxEdits

VARIABLES
    service,
    count, inbox, inboxMark, ended, run, ledger, excused, again, inboxFaults,
    kind, row, beyond, copyFile, backups, sync, changes,
    draft, copy, status, rejects, last,
    file, story, cmd, edits

I == INSTANCE Inbox WITH
        mark <- inboxMark, faults <- inboxFaults, MaxFaults <- InboxFaults

Cmd(scope, force, bound) == [scope |-> scope, force |-> force, bound |-> bound]

\* One sync is of all scopes, forced or not, or of the scope system in a clone whose project
\* was not found; another is that of a deploy.
SyncCommands ==
    [s \in Syncs |->
        IF s = CHOOSE t \in Syncs : TRUE
        THEN {Cmd("", FALSE, TRUE), Cmd("", TRUE, TRUE), Cmd("system", FALSE, FALSE)}
        ELSE {Cmd("project", FALSE, TRUE)}]

K == INSTANCE SkillSync WITH file <- copyFile, Commands <- SyncCommands

\* An edge that nothing guards.
Edge(from, to) ==
    [from |-> from, to |-> to, on |-> "", trigger |-> "", gate |-> NoGate, max |-> 0,
     exhausted |-> NoState]

\* The edges an author may write: every kind, loops with and without a bound, an exhaustion
\* that leads back, two edges of one kind, and an edge no command enacts.
ElevenEdges ==
    {Edge("a", "b"),
     [Edge("a", "b") EXCEPT !.trigger = "checkpoint", !.gate = "g"],
     [Edge("b", "c") EXCEPT !.on = "pass"],
     [Edge("b", "c") EXCEPT !.on = "pass", !.gate = "g"],
     [Edge("b", "a") EXCEPT !.on = "fail"],
     [Edge("b", "a") EXCEPT !.on = "fail", !.max = 2, !.exhausted = "b"],
     [Edge("b", "b") EXCEPT !.on = "fail", !.max = 2, !.exhausted = "a"],
     [Edge("b", "b") EXCEPT !.on = "fail", !.max = 1],
     [Edge("b", "c") EXCEPT !.on = "fail", !.gate = "g"],
     [Edge("c", "b") EXCEPT !.gate = "g"],
     [Edge("c", "a") EXCEPT !.trigger = "reopen"]}

F == INSTANCE WorkflowFile

\* A workflow with a reviewed state, one with a checkpoint, and one that is not valid.
Reviewed ==
    [states |-> <<"a", "b", "c">>,
     edges |-> <<[Edge("a", "b") EXCEPT !.gate = "g"], [Edge("b", "c") EXCEPT !.on = "pass", !.gate = "h"],
                 [Edge("b", "a") EXCEPT !.on = "fail", !.max = 2, !.exhausted = "c"],
                 [Edge("c", "a") EXCEPT !.trigger = "reopen"]>>]
Plain ==
    [states |-> <<"a", "b", "c">>,
     edges |-> <<Edge("a", "b"), [Edge("b", "c") EXCEPT !.trigger = "checkpoint"],
                 [Edge("a", "c") EXCEPT !.gate = "g"]>>]
Invalid == [states |-> <<"a", "b", "c">>, edges |-> <<[Edge("b", "c") EXCEPT !.on = "pass"]>>]

WorkflowIn(name, applies, wf) == [name |-> name, applies |-> applies, wf |-> wf]
Fix == WorkflowIn("n1", {"fix"}, Reviewed)
BadFix == WorkflowIn("n1", {"fix"}, Invalid)
Both == WorkflowIn("n2", {"fix", "*"}, Plain)
Builtin == WorkflowIn("n3", {"*"}, Reviewed)
Shadow == WorkflowIn("n3", {"*"}, Plain)

FiveFiles == {Fix, BadFix, Both, Builtin, Shadow}
FourTiers == <<"local", "local", "skill", "embed">>

G == INSTANCE Governance

inboxVars == <<count, inbox, inboxMark, ended, run, ledger, excused, again, inboxFaults>>
copyVars == <<kind, row, beyond, copyFile, backups, sync, changes>>
draftVars == <<draft, copy, status, rejects, last>>
govVars == <<file, story, cmd, edits>>
cloneVars == <<service, vars, inboxVars, copyVars, draftVars, govVars>>

\* The project has a row of a body that is synced, and one other scope may have one, the
\* library where there is no file yet; the file's stamp is of such a body, and an older
\* client's only on a current skill that is not edited. The list of the project may not reach
\* its row.
SyncStart ==
    /\ \A c \in K!Scopes : row[c].body \in OptedIn \cup {"none"}
    /\ row["project"].version = 2
    /\ row["library"] # K!NoRow => copyFile = K!Absent
    /\ beyond \subseteq {"project"}
    /\ Cardinality({c \in K!Scopes : row[c].version = 2}) <= 2
    /\ copyFile.stamp.hash \in OptedIn \cup {"none"}
    /\ copyFile.stamp.legacy => kind = "skill" /\ copyFile.stamp.version = 2 /\ ~ K!Edited(copyFile)

\* The default of the binary, two files of the clone and one skill at most, and a story of one
\* category, which an edit may change.
GovernanceStart ==
    /\ file[1] \in {NoFile, Fix, Shadow}
    /\ file[2] \in {NoFile, Both}
    /\ file[3] \in {NoFile, BadFix}
    /\ file[4] = Builtin
    /\ story.block \in {NoBlock, Plain}
    /\ story.status # "c" /\ story.category = "fix"

MCInit ==
    /\ service \in {"worksync", "inbox", "skillsync", "workflow", "governance"}
    /\ Init /\ I!Init
    /\ F!Init /\ draft.states \in {<<"a", "b", "c">>, <<"b", "a", "c">>}
    /\ service # "workflow" => draft.states[1] = "a"
    /\ IF service = "skillsync"
       THEN K!Init /\ SyncStart
       ELSE K!Init /\ kind = "skill" /\ copyFile = K!Absent /\ \A c \in K!Scopes : row[c] = K!NoRow
    /\ IF service = "governance"
       THEN G!Init /\ GovernanceStart
       ELSE /\ file = G!Nothing /\ story = G!NoStory /\ cmd = G!Idle /\ edits = 0

WorkSyncNext ==
    /\ service = "worksync" /\ Next
    /\ UNCHANGED <<service, inboxVars, copyVars, draftVars, govVars>>
InboxNext ==
    /\ service = "inbox" /\ I!Next
    /\ UNCHANGED <<service, vars, copyVars, draftVars, govVars>>
SkillSyncNext ==
    /\ service = "skillsync" /\ K!Next
    /\ UNCHANGED <<service, vars, inboxVars, draftVars, govVars>>
WorkflowNext ==
    /\ service = "workflow" /\ F!Next
    /\ UNCHANGED <<service, vars, inboxVars, copyVars, govVars>>
GovernanceNext ==
    /\ service = "governance" /\ G!Next
    /\ UNCHANGED <<service, vars, inboxVars, copyVars, draftVars>>

MCNext == WorkSyncNext \/ InboxNext \/ SkillSyncNext \/ WorkflowNext \/ GovernanceNext

\* The fairness of WorkSync, where that service is the one that runs.
MCSpec ==
    /\ MCInit /\ [][MCNext]_cloneVars
    /\ \A f \in Flushes : WF_vars(service = "worksync" /\ Runs(f))

-----------------------------------------------------------------------------
\* The type invariants of the modules.
Types ==
    /\ TypeOK
    /\ service = "inbox" => I!TypeOK
    /\ service = "skillsync" => K!TypeOK
    /\ service = "workflow" => F!TypeOK
    /\ service = "governance" => G!TypeOK

\* Once no event is recorded any more, the mark settles on the last one (WorkSync).
MarkSettles == service = "worksync" => SettlesOnLast

\* A staged signal no flush will send any more is in the ledger, and it is there once
\* (Inbox).
FlushFaithful == I!FlushFaithful

\* What the operator wrote outlives a sync, a copy that a scope still owns is not removed,
\* and an undisturbed sync ends with the most specific row or the operator's body
\* (SkillSync).
SyncFaithful == K!KeepsEdits /\ K!OwnedCopyStays /\ []K!SettlesOnWinner

\* An accepted workflow file is what the commands take for granted, a copy that passes for it
\* moves a story alike, and a story under it rejects within its bounds, does not come back to
\* its start and does not get stuck (WorkflowFile).
FilesGovern ==
    /\ F!AcceptedGoverns /\ F!EquivalentGovernsAlike
    /\ F!RejectsBounded /\ F!EntryNotReentered /\ F!NeverStuck

\* A story moves by the workflow that has authority over it, a stamped block is that
\* workflow, stamping leaves the text alone, and what check, list and --explain report is what
\* a command then does (Governance).
GovernedMoves == G!GovernedMoves /\ [](service = "governance" /\ cmd = G!Idle => G!ReportsAgree)
=============================================================================
