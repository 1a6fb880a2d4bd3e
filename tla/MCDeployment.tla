---------------------------- MODULE MCDeployment ----------------------------
(***************************************************************************)
(* One operator who moves a story by its gates, and what that stands on:   *)
(* the starts of the server's instances, the accounts that sign in, and    *)
(* the client with its repository's files, in one run.  An initial state   *)
(* chooses the part, and the others stay as they began.  The state space   *)
(* is the sum of theirs and not their product, and a property of one part  *)
(* is checked in the behaviours of that one.                               *)
(***************************************************************************)
EXTENDS MCStoryGate

CONSTANTS
    Uris, NoUri, Requests, OAuthRequests, OAuthFaults,              \* OAuth
    Identities, Emails, Admins, NoOne, SignIns, SignInFails,        \* SignIn
    Servers, DevServers, Machines, Projects, NoProject, Mints, Revokes, KeyFails,  \* Keys
    Instances, Artifacts, Releases, Nothing, Boots, OperatorSets, Cuts,   \* SystemSeed and Provision
    PathDirs, Preferred, Local, Installed, LastRelease, Commands,   \* Binary
    Hooks, Repositories, Inits, RepositoryEdits,                    \* Scaffold
    SourceFiles, SourceTexts, BadText, NoText, Indexings, SourceEdits,    \* CodeIndex
    Publishers, Consumer, NoSource, TaskNames, TaskStarts, TaskBodies, TaskRuns, TaskWrites,  \* Tasks
    RowNames, RowStarts, PageLimit, Clears, RowWrites,              \* Clear
    Publisher, OtherPublisher                                       \* for the instances below

VARIABLES
    part,
    client, session, code, token, oauthReq, registered, presented, oauthExcused, oauthCame, oauthFaults,
    user, personal, pending, signInReq, entered, signInCame, signInFails,
    keyRows, file, temp, keyRun, minted, told, revoked, replaced, saved, lost, revokes, keyFails,
    registry, document, seeder, became, torn, seedBoots, seedCuts,
    knob, cred, devUser, secret, starter, crossed, chosen, late, boots, sets, cuts,
    entry, latest, binaryRun, clashed, stood, halved, binaryStarts, binaryFaults,
    disk, local, init, mine, spoilt, settled, inits, edits, initCuts,
    source, hash, symbols, indexing, sound, indexings, sourceEdits, indexCuts,
    engaged, configured, strict, call,
    library, shelf, task, taskRun, taskClash, untagged, taskCame, taskWrites, taskFails,
    record, clear, alone, clears, rowWrites

T0 == INSTANCE ProcessTrace
O == INSTANCE OAuth WITH
        req <- oauthReq, excused <- oauthExcused, came <- oauthCame, faults <- oauthFaults,
        MaxRequests <- OAuthRequests, MaxFaults <- OAuthFaults
I == INSTANCE SignIn WITH
        req <- signInReq, came <- signInCame, fails <- signInFails,
        MaxRequests <- SignIns, MaxFails <- SignInFails
K == INSTANCE Keys WITH
        rows <- keyRows, run <- keyRun, fails <- keyFails, Runs <- Requests,
        MaxMints <- Mints, MaxRevokes <- Revokes, MaxFails <- KeyFails

\* Artifacts of four releases: one changes the tags and drops a name, one cannot read a name
\* and leaves the other to the client, and one drops the tags and changes a type.
Artifact(type, body, labels) == [kind |-> "file", type |-> type, body |-> body, labels |-> labels]
TwoNames == <<"a", "b">>
Mark(kind) == [kind |-> kind, type |-> "", body |-> 0, labels |-> 0]
OfBoth(a, b) == [n \in {"a", "b"} |-> IF n = "a" THEN a ELSE b]

FourReleases ==
    {OfBoth(Artifact("doc", 1, 1), Artifact("doc", 1, 1)),
     OfBoth(Artifact("doc", 1, 2), Mark("absent")),
     OfBoth(Mark("malformed"), Mark("client")),
     OfBoth(Artifact("doc", 2, 0), Artifact("skill", 2, 1))}

B == INSTANCE SystemSeed WITH
        server <- seeder, boots <- seedBoots, cuts <- seedCuts, Servers <- Instances, Names <- Artifacts,
        MaxBoots <- Boots, MaxCuts <- Cuts
P == INSTANCE Provision WITH
        user <- devUser, server <- starter, Servers <- Instances,
        MaxBoots <- Boots, MaxSets <- OperatorSets, MaxCuts <- Cuts

\* The binary's names on two directories of the PATH and in the repository: the command where
\* it belongs is absent, a release, or a link to the older name or to the repository's build.
At(d, old) == [dir |-> d, name |-> IF old THEN "satellites-client" ELSE "satellites"]
Entry(is, v, to) == [is |-> is, v |-> v, to |-> to]
Absent == Entry("none", 0, At("bin", FALSE))
Release1 == Entry("file", 1, At("bin", FALSE))
Entries(g, build, old, elsewhere) ==
    [n \in {At(d, FALSE) : d \in {"bin", "opt", "repo"}} \cup {At(d, TRUE) : d \in {"bin", "opt"}} |->
        CASE n = At("bin", FALSE) -> g [] n = At("repo", FALSE) -> build [] n = At("bin", TRUE) -> old
          [] n = At("opt", TRUE) -> elsewhere [] OTHER -> Absent]
OneMachine ==
    {Entries(g, build, old, elsewhere) :
        g \in {Absent, Release1, Entry("link", 0, At("opt", TRUE)), Entry("link", 0, At("repo", FALSE))},
        build \in {Absent, Entry("file", 0, At("bin", FALSE))},
        old \in {Absent, Entry("link", 0, At("bin", FALSE))},
        elsewhere \in {Absent, Release1}}
C == INSTANCE Binary WITH
        run <- binaryRun, starts <- binaryStarts, faults <- binaryFaults, Runs <- Requests,
        Starting <- Installed, MaxRelease <- LastRelease, MaxStarts <- Commands, MaxFaults <- 2

\* Repositories before an init: empty; one with a toml that ends in a table; and one whose owner
\* set the server, with files of their own.
Key(how, times) == [how |-> how, within |-> FALSE, times |-> times]
TomlOf(is, server, dirs, table) ==
    [is |-> is, table |-> table, own |-> is = "file",
     key |-> [k \in {"server_url", "project_id", "global_publishers", "ungated_dirs"} |->
                 CASE k = "server_url" -> server [] k = "ungated_dirs" -> dirs [] OTHER -> Key("not", 0)]]
RepositoryOf(toml, own) ==
    [toml |-> toml,
     mcp |-> [is |-> IF own THEN "file" ELSE "none", own |-> own, url |-> IF own THEN "own" ELSE ""],
     settings |-> [is |-> IF own THEN "file" ELSE "none", own |-> own, hooks |-> {}],
     ignore |-> [own |-> own, block |-> FALSE], principles |-> [own |-> own, starter |-> FALSE]]
ThreeHooks ==
    <<[event |-> "pre", command |-> "gate"], [event |-> "pre", command |-> "context"],
      [event |-> "start", command |-> "context"]>>
ThreeRepositories ==
    {RepositoryOf(TomlOf("none", Key("not", 0), Key("not", 0), ""), FALSE),
     RepositoryOf(TomlOf("file", Key("not", 0), Key("not", 0), "auth"), TRUE),
     RepositoryOf(TomlOf("file", Key("own", 1), Key("set", 1), ""), TRUE)}
S == INSTANCE Scaffold WITH
        run <- init, starts <- inits, cuts <- initCuts, Runs <- Requests, Starting <- Repositories,
        MaxStarts <- Inits, MaxEdits <- RepositoryEdits, MaxCuts <- Cuts

TwoFiles == <<"f", "g">>
X == INSTANCE CodeIndex WITH
        file <- source, run <- indexing, starts <- indexings, edits <- sourceEdits, cuts <- indexCuts,
        Paths <- SourceFiles, Texts <- SourceTexts, Bad <- BadText, Gone <- NoText, Runs <- Requests,
        MaxStarts <- Indexings, MaxEdits <- SourceEdits, MaxCuts <- Cuts

\* Commands of three pieces each: one that writes or shares or does not, a separator or a
\* quotation or a redirection, and one that writes, redirects, or ends a here-document.
DoorCommands ==
    {a \o b \o c :
        a \in {<<"echo">>, <<"rm", "out">>, <<"cp", "out", "in">>, <<"sudo", "rm", "far">>,
               <<"git", "push">>, <<"git", "commit">>, <<"sed", "-i", "in">>, <<"git", "mv", "out", "far">>,
               <<"cat", "<<E">>},
        b \in {<<>>, <<"\"", ">", "\"">>, <<";">>, <<"nl">>, <<"'", ";", "rm", "in", "'">>,
               <<"2>", "in">>, <<">", "/dev/null">>},
        c \in {<<>>, <<">", "\"", "in", "\"">>, <<">", "in">>, <<"rm", "in">>,
               <<"rm", "in", "nl", "E", "nl", "git", "push">>, <<"tee", "draft">>, <<"git", "push">>}}
PathNames == {"in", "far", "draft", "out", "nest", "/dev/null"}
DoorPaths ==
    [p \in PathNames |-> CASE p = "in" -> "this" [] p = "far" -> "other" [] p = "draft" -> "exempt"
                           [] p = "nest" -> "nested" [] OTHER -> "nowhere"]
D == INSTANCE Doors WITH
        row <- engaged, Commands <- DoorCommands, Paths <- DoorPaths,
        Starting <- {[this |-> a, other |-> b] : a \in {"none", "stale", "idle", "editable"}, b \in {"none", "editable"}}

\* Libraries, shelves and rows: a publisher's own task beside two it has published; a row of an
\* older body, and a name two publish; a local task beside one that was taken, with which the page
\* is full; and a library of more than a page, of which one was taken.
TaskRow(project, name, from) ==
    [project |-> project, name |-> name, from |-> from, body |-> 1,
     own |-> IF from = NoSource THEN 1 ELSE 0, deleted |-> FALSE]
Shelf(publisher, name, after) == [source |-> <<publisher, name>>, after |-> after]
Libraries(a, b, c, other) ==
    [s \in {Publisher, OtherPublisher} \X {"a", "b", "c"} |->
        CASE s = <<Publisher, "a">> -> a [] s = <<Publisher, "b">> -> b [] s = <<Publisher, "c">> -> c
          [] s = <<OtherPublisher, "a">> -> other [] OTHER -> 0]
TwoPublishers == {Publisher, OtherPublisher}
ThreeNames == <<"a", "b", "c">>
FourStarts ==
    {[library |-> Libraries(1, 1, 0, 0), shelf |-> <<Shelf(Publisher, "b", 0), Shelf(Publisher, "a", 1)>>,
      row |-> <<TaskRow(Publisher, "a", NoSource)>>],
     [library |-> Libraries(2, 0, 0, 1), shelf |-> <<Shelf(Publisher, "a", 0), Shelf(OtherPublisher, "a", 1)>>,
      row |-> <<TaskRow(Consumer, "a", <<Publisher, "a">>)>>],
     [library |-> Libraries(2, 2, 0, 0), shelf |-> <<Shelf(Publisher, "a", 0), Shelf(Publisher, "b", 1)>>,
      row |-> <<TaskRow(Consumer, "b", NoSource), TaskRow(Consumer, "a", <<Publisher, "a">>)>>],
     [library |-> Libraries(2, 1, 1, 0),
      shelf |-> <<Shelf(Publisher, "a", 0), Shelf(Publisher, "b", 1), Shelf(Publisher, "c", 1)>>,
      row |-> <<TaskRow(Consumer, "a", <<Publisher, "a">>)>>]}
L == INSTANCE Tasks WITH
        row <- task, run <- taskRun, clashed <- taskClash, came <- taskCame, writes <- taskWrites,
        fails <- taskFails, Names <- TaskNames, Runs <- Requests, Starting <- TaskStarts,
        MaxBody <- TaskBodies, MaxRuns <- TaskRuns, MaxWrites <- TaskWrites, MaxFails <- 1

\* Rows of a project: a story that is tagged a principle; a task of a skill's name; a task that
\* is tagged one.
ClearRow(name, type, principle, workflow) ==
    [name |-> name, type |-> type, principle |-> principle, workflow |-> workflow, deleted |-> FALSE]
ThreeProjects ==
    {<<ClearRow("a", "story", TRUE, FALSE), ClearRow("b", "skill", FALSE, TRUE)>>,
     <<ClearRow("b", "task", FALSE, FALSE), ClearRow("a", "document", TRUE, FALSE),
       ClearRow("b", "skill", FALSE, FALSE)>>,
     <<ClearRow("a", "task", TRUE, FALSE), ClearRow("b", "document", TRUE, FALSE)>>}
R == INSTANCE Clear WITH
        row <- record, writes <- rowWrites, Names <- RowNames, Starting <- RowStarts,
        MaxClears <- Clears, MaxWrites <- RowWrites

oauthVars == <<client, session, code, token, oauthReq, registered, presented, oauthExcused, oauthCame,
               oauthFaults>>
signInVars == <<user, personal, pending, signInReq, entered, signInCame, signInFails>>
keysVars == <<keyRows, file, temp, keyRun, minted, told, revoked, replaced, saved, lost, revokes, keyFails>>
seedVars == <<registry, document, seeder, became, torn, seedBoots, seedCuts>>
provisionVars == <<knob, cred, devUser, secret, starter, crossed, chosen, late, boots, sets, cuts>>
binaryVars == <<entry, latest, binaryRun, clashed, stood, halved, binaryStarts, binaryFaults>>
scaffoldVars == <<disk, local, init, mine, spoilt, settled, inits, edits, initCuts>>
indexVars == <<source, hash, symbols, indexing, sound, indexings, sourceEdits, indexCuts>>
doorVars == <<engaged, configured, strict, call>>
tasksVars == <<library, shelf, task, taskRun, taskClash, untagged, taskCame, taskWrites, taskFails>>
clearVars == <<record, clear, alone, clears, rowWrites>>
serverVars == <<oauthVars, signInVars, keysVars, seedVars, provisionVars>>
clientVars == <<binaryVars, scaffoldVars, indexVars, doorVars, tasksVars, clearVars>>
allVars == <<part, vars, serverVars, clientVars>>

Anyone == CHOOSE u \in Uris : TRUE
Parts == {"gate", "oauth", "signin", "keys", "seed", "provision",
          "binary", "scaffold", "index", "doors", "tasks", "clear"}

MCInit ==
    /\ part \in Parts /\ Init
    /\ O!Init /\ client \in {{}, {Anyone}} /\ (part # "oauth" => client = {})
    /\ I!Init /\ (part # "signin" => pending = {} /\ DOMAIN user = {})
    /\ K!Init /\ B!Init /\ P!Init
    /\ C!Init /\ (part # "binary" => entry = CHOOSE e \in Installed : TRUE)
    \* an overlay names a server only beside a toml that does
    /\ S!Init /\ (local => part = "scaffold" /\ disk.toml.key["server_url"].how = "own")
    /\ part # "scaffold" => disk = CHOOSE d \in Repositories : TRUE
    /\ X!Init /\ (part # "index" => source = [f \in X!Names |-> NoText])
    /\ D!Init /\ (part # "doors" => configured /\ ~strict /\ engaged = [this |-> "idle", other |-> "none"])
    /\ L!Init /\ (part # "tasks" => [library |-> library, shelf |-> shelf, row |-> task] = CHOOSE s \in TaskStarts : TRUE)
    /\ R!Init /\ (part # "clear" => record = CHOOSE rows \in RowStarts : TRUE)

GateNext == part = "gate" /\ Next /\ UNCHANGED <<part, serverVars, clientVars>>
OAuthNext ==
    /\ part = "oauth" /\ O!Next
    /\ UNCHANGED <<part, vars, signInVars, keysVars, seedVars, provisionVars, clientVars>>
SignInNext ==
    /\ part = "signin" /\ I!Next
    /\ UNCHANGED <<part, vars, oauthVars, keysVars, seedVars, provisionVars, clientVars>>
KeysNext ==
    /\ part = "keys" /\ K!Next
    /\ UNCHANGED <<part, vars, oauthVars, signInVars, seedVars, provisionVars, clientVars>>
SeedNext ==
    /\ part = "seed" /\ B!Next
    /\ UNCHANGED <<part, vars, oauthVars, signInVars, keysVars, provisionVars, clientVars>>
ProvisionNext ==
    /\ part = "provision" /\ P!Next
    /\ UNCHANGED <<part, vars, oauthVars, signInVars, keysVars, seedVars, clientVars>>
BinaryNext ==
    /\ part = "binary" /\ C!Next
    /\ UNCHANGED <<part, vars, serverVars, scaffoldVars, indexVars, doorVars, tasksVars, clearVars>>
ScaffoldNext ==
    /\ part = "scaffold" /\ S!Next
    /\ UNCHANGED <<part, vars, serverVars, binaryVars, indexVars, doorVars, tasksVars, clearVars>>
IndexNext ==
    /\ part = "index" /\ X!Next
    /\ UNCHANGED <<part, vars, serverVars, binaryVars, scaffoldVars, doorVars, tasksVars, clearVars>>
DoorsNext ==
    /\ part = "doors" /\ D!Next
    /\ UNCHANGED <<part, vars, serverVars, binaryVars, scaffoldVars, indexVars, tasksVars, clearVars>>
TasksNext ==
    /\ part = "tasks" /\ L!Next
    /\ UNCHANGED <<part, vars, serverVars, binaryVars, scaffoldVars, indexVars, doorVars, clearVars>>
ClearNext ==
    /\ part = "clear" /\ R!Next
    /\ UNCHANGED <<part, vars, serverVars, binaryVars, scaffoldVars, indexVars, doorVars, tasksVars>>
MCNext ==
    \/ GateNext
    \/ OAuthNext \/ SignInNext \/ KeysNext \/ SeedNext \/ ProvisionNext
    \/ BinaryNext \/ ScaffoldNext \/ IndexNext \/ DoorsNext \/ TasksNext \/ ClearNext

MCSpec == MCInit /\ [][MCNext]_allVars

-----------------------------------------------------------------------------
AllIdle == \A r \in Runs : run[r].pc = "idle"

\* Each verdict was asked for.
RequestsOf(led) ==
    LET verdicts == SelectSeq(led, LAMBDA r : r.kind # "status_transition")
    IN [i \in DOMAIN verdicts |-> verdicts[i].from]

\* What the portal and the trace tell of a story at rest is its path: the stages they draw, the
\* stage they end at and the strip of reviews are those of the ledger (ProcessTrace).
StatusTellsPath ==
    part = "gate" /\ AllIdle =>
        /\ T0!TraceTellsPath(ledger, status) /\ T0!TraceEndsAtStatus(ledger, status)
        /\ T0!StripTellsStage(ledger, status, RequestsOf(ledger))

\* A code starts one chain of tokens, a chain has one live token, a token the client was told
\* is good and its registration stays; an identity has one account of its own, with a workspace
\* and its invitations; a key works from its answer on until it is revoked or replaced, and the
\* client presents the one it saved (OAuth, SignIn and Keys).
SignedIn ==
    /\ part = "oauth" => O!TypeOK /\ O!GrantsSound
    /\ part = "signin" => I!TypeOK /\ I!AccountsApart /\ I!Provisioned
    /\ part = "keys" => K!TypeOK /\ K!KeysWork /\ K!SavedIsPresented

\* A document mirrors the artifact that the last start went through, what an operator set
\* stands, the dev login opens, the instances share one secret, and a start dies by itself only
\* for the reasons named (SystemSeed and Provision).
StartsSound ==
    /\ part = "seed" => B!TypeOK /\ B!Mirrors /\ B!DiesOnlyIf
    /\ part = "provision" =>
          /\ P!TypeOK /\ P!DiesOnlyIf /\ P!OperatorStands /\ P!LoginOpens /\ P!OneSecret

\* The command stays on the PATH; what the user keeps in a file of the repository stays, and a
\* repository that was set up is; the symbols of a file are those it declares; only an engaged
\* session writes, and what writes nothing is let through; a project's own task wins, a source
\* has one row, and a run that went through leaves the library's; and a clear leaves the stories
\* and nothing of its kind (Binary, Scaffold, CodeIndex, Doors, Tasks and Clear).
ClientSound ==
    /\ part = "binary" => C!TypeOK /\ C!CommandStands
    /\ part = "scaffold" => S!TypeOK /\ S!UserKept /\ S!Settled
    /\ part = "index" => X!TypeOK /\ X!HashHonest /\ X!IndexCurrent
    /\ part = "doors" => D!TypeOK /\ D!WritesEngaged /\ D!ReadsPass
    /\ part = "tasks" => L!TypeOK /\ L!LocalWins /\ L!OneRowPerSource /\ L!CaughtUp
    /\ part = "clear" => R!TypeOK /\ R!StoriesStay /\ R!Cleared

\* An artifact that every release has is not lost, an administrator stays one, and an update
\* replaces a release only by a newer one (SystemSeed, SignIn and Binary).
StaysOnce == B!NeverLost /\ I!AdminStays /\ C!Replaced
=============================================================================
