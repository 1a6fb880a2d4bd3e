------------------------------ MODULE MCRecords ------------------------------
(***************************************************************************)
(* What the server keeps of stories, projects, variables and artifacts,    *)
(* and how a story moves by its gates, in one run: an initial state        *)
(* chooses the part, and the others stay as they began.  The state space   *)
(* is the sum of theirs and not their product, and a property of one part  *)
(* is checked in the behaviours of that one.                               *)
(***************************************************************************)
EXTENDS MCStoryGate

CONSTANTS
    Items, Tasks, NoItem, Keep, TreePatches,                      \* StoryTree
    TreeRequests, TreeCalls, TreeFaults,
    Texts, Writers, Jobs, Reviews, SummaryWrites, Findings, SummaryFails,  \* StorySummary
    Workspaces, Projects, None, HomeUsers, HomeCallers,           \* Projects
    HomeRequests, HomeCalls, HomeFails,
    VariableNames, ComputedNames, CredentialNames,                \* Variables
    StartKeys, WriteKeys, ReadKeys, VariableRequests, VariableCalls,
    Artifacts, Clean, Dirty, Exempt, Bad, NoBody, Empty,          \* Upload
    Uploads, UploadStarts, UploadEdits, UploadFails

VARIABLES
    part,
    item, ended, told, treeReq, treeExcused, treeCame, treeFaults,
    text, rows, summary, writer, job, review, made, crossed, unsummed, writes, found, summaryFails,
    home, fields, mounts, archived, default, wsRole, pjRole, projectReq, moved, asked, placed,
    projectExcused, projectCame, projectFails,
    variable, variableReq, acked, met, held, dropped, variableCame,
    kind, file, row, library, headline, filed, reviewer, upload, accepted, open, direct, torn,
    starts, edits, uploadFails

\* A story moves under the epic or from it, changes its status or its text, or starts as it
\* moves.
Patch(parent, to, words) == [parent |-> parent, status |-> to, text |-> words]
StoryPatches ==
    {Patch("e", Keep, Keep), Patch(NoItem, Keep, Keep), Patch(Keep, "started", Keep),
     Patch(Keep, "terminal", Keep), Patch(Keep, Keep, 0), Patch("e", "started", 0)}

S == INSTANCE StoryTree WITH
        req <- treeReq, excused <- treeExcused, came <- treeCame, faults <- treeFaults,
        Patches <- TreePatches, Requests <- TreeRequests, MaxRequests <- TreeCalls, MaxFaults <- TreeFaults
U == INSTANCE StorySummary WITH
        fails <- summaryFails,
        MaxWrites <- SummaryWrites, MaxFindings <- Findings, MaxFails <- SummaryFails

\* A user who manages every workspace, in person and as an agent whose role is capped; one who
\* manages the first, in person and by a key of the project.
Caller(user, cap, key) == [user |-> user, cap |-> cap, only |-> {}, key |-> key]
FourCallers ==
    {Caller("u1", 3, None), Caller("u1", 2, None), Caller("u2", 3, None), Caller("u2", 3, "p1")}

P == INSTANCE Projects WITH
        req <- projectReq, excused <- projectExcused, came <- projectCame, fails <- projectFails,
        Users <- HomeUsers, Callers <- HomeCallers,
        Requests <- HomeRequests, MaxRequests <- HomeCalls, MaxFails <- HomeFails

\* A name, a name that is computed and a name of a credential.
ThreeStarts == {<<"user", "n">>, <<"workspace", "n">>, <<"user", "c">>}
ThreeWritten == {<<"user", "n">>, <<"workspace", "n">>, <<"project", "r">>}
OneRead == {<<"project", "n">>}

V == INSTANCE Variables WITH
        row <- variable, req <- variableReq, overlapped <- met, came <- variableCame,
        Names <- VariableNames, Computed <- ComputedNames, Reserved <- CredentialNames,
        Requests <- VariableRequests, MaxRequests <- VariableCalls

A == INSTANCE Upload WITH
        run <- upload, fails <- uploadFails, Names <- Artifacts, Runs <- Uploads,
        MaxStarts <- UploadStarts, MaxEdits <- UploadEdits, MaxFails <- UploadFails

treeVars == <<item, ended, told, treeReq, treeExcused, treeCame, treeFaults>>
summaryVars == <<text, rows, summary, writer, job, review, made, crossed, unsummed, writes, found,
                 summaryFails>>
projectsVars == <<home, fields, mounts, archived, default, wsRole, pjRole, projectReq, moved, asked,
                  placed, projectExcused, projectCame, projectFails>>
variablesVars == <<variable, variableReq, acked, met, held, dropped, variableCame>>
uploadVars == <<kind, file, row, library, headline, filed, reviewer, upload, accepted, open, direct,
                torn, starts, edits, uploadFails>>
allVars == <<part, vars, treeVars, summaryVars, projectsVars, variablesVars, uploadVars>>

\* An epic that has started, a story that is not over and a task that is under way.
TreeStart ==
    /\ "e" \in S!Live /\ item["e"].parent = NoItem /\ item["e"].status # "initial"
    /\ \A i \in S!Live : item[i].parent # "s"
    /\ "t" \in S!Live => item["t"].status = "started"
    /\ "s" \in S!Live => item["s"].status # "terminal"

\* The roles that the callers are of.
ProjectsStart ==
    /\ wsRole = [u \in HomeUsers |->
                   [w \in Workspaces |-> IF u = "u1" \/ w = "w1" THEN "admin" ELSE "member"]]
    /\ pjRole = [u \in HomeUsers |-> [p \in Projects |-> IF u = "u2" THEN 3 ELSE 0]]

\* Two files of one body or of two, and a project that may have rows of another; where the
\* binary has the reviewer the server has none.
UploadStart ==
    /\ file[2] = "b1" /\ file[1] # "b2" /\ row[1] # "b1"
    /\ reviewer.local = "none" /\ (kind # "document" => reviewer.server = "none")

MCInit ==
    /\ part \in {"gate", "tree", "summary", "projects", "variables", "upload"}
    /\ Init
    /\ IF part = "tree" THEN S!Init /\ TreeStart ELSE item = <<>> /\ S!Init
    /\ U!Init /\ (part # "summary" => text = 0)
    /\ ProjectsStart
    /\ IF part = "projects" THEN P!Init /\ default = "w1"
       ELSE home = [p \in Projects |-> None] /\ mounts = {} /\ default = "w1" /\ P!Init
    /\ V!Init /\ (part # "variables" => \A k \in V!Keys : variable[k] = V!NoRow)
    /\ IF part = "upload" THEN A!Init /\ UploadStart
       ELSE /\ kind = "skill" /\ file = [n \in {1, 2} |-> "b1"] /\ row = [n \in {1, 2} |-> NoBody]
            /\ reviewer = [local |-> "none", embed |-> "reviewer", server |-> "none"]
            /\ A!Init

GateNext ==
    /\ part = "gate" /\ Next
    /\ UNCHANGED <<part, treeVars, summaryVars, projectsVars, variablesVars, uploadVars>>
TreeNext ==
    /\ part = "tree" /\ S!Next
    /\ UNCHANGED <<part, vars, summaryVars, projectsVars, variablesVars, uploadVars>>
SummaryNext ==
    /\ part = "summary" /\ U!Next
    /\ UNCHANGED <<part, vars, treeVars, projectsVars, variablesVars, uploadVars>>
ProjectsNext ==
    /\ part = "projects" /\ P!Next
    /\ UNCHANGED <<part, vars, treeVars, summaryVars, variablesVars, uploadVars>>
VariablesNext ==
    /\ part = "variables" /\ V!Next
    /\ UNCHANGED <<part, vars, treeVars, summaryVars, projectsVars, uploadVars>>
UploadNext ==
    /\ part = "upload" /\ A!Next
    /\ UNCHANGED <<part, vars, treeVars, summaryVars, projectsVars, variablesVars>>
MCNext == GateNext \/ TreeNext \/ SummaryNext \/ ProjectsNext \/ VariablesNext \/ UploadNext

MCSpec == MCInit /\ [][MCNext]_allVars

-----------------------------------------------------------------------------
\* The type invariants of the parts.
RecordTypes ==
    /\ part = "gate" => TypeOK
    /\ part = "tree" => S!TypeOK
    /\ part = "summary" => U!TypeOK
    /\ part = "projects" => P!TypeOK
    /\ part = "variables" => V!TypeOK
    /\ part = "upload" => A!TypeOK

\* The ledger tells what a story became and its summary comes to tell its row and its ledger;
\* a story that has started stays under its epic, and a finished epic gets no child
\* (StoryTree and StorySummary).
StoryTold ==
    [](S!LedgerTells /\ U!SummaryTells) /\ S!MembershipFrozen /\ S!FinishedEpicsClosed

\* A project has one home, which no mount repeats, an archived workspace is empty, and a move
\* or a patch of a project stays (Projects).
ProjectsKept ==
    /\ [](P!HomeApart /\ P!ArchivedEmpty /\ P!DefaultStands /\ P!MovesStick /\ P!PatchesStick)
    /\ P!MovedByBoth

\* What variable_set answered stands, a list shows what a get finds, credentials are marked,
\* and a get misses only a name that moved (Variables).
VariablesKept ==
    part = "variables" =>
        V!ListGetAgree /\ V!CredentialsMarked /\ V!AnswersStand /\ V!MissOnlyIfMoved

\* A row of a project has a body that a reviewer accepted, or one that came by a door without
\* one and is known as that (Upload).
UploadsJudged == part = "upload" => A!UploadsJudged
=============================================================================
