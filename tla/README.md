# Satellites in TLA+

Satellites governs how agents work on stories. A **server** (`internal/verb` over Postgres)
keeps stories, their append-only ledger and the documents around them; a **CLI**
(`internal/cli`) is run by operators, agents and editor hooks in a clone of the repository,
and keeps a **local store** (`internal/workstate`, one SQLite file per clone). Nothing in the
CLI is long-lived: every command is a process that reads, waits for a gate or for the server,
and writes what it decided from what it read. The server's verbs are the same: a request is
several statements, and few of them share a transaction. Commands and requests overlap, are
killed, and lose answers. That is where the difficulty lies, and what the modules here are
about.

## 1. Inventory

| component | state | operations | interacts with |
|---|---|---|---|
| review machinery: `cmd_story_review.go`, `cmd_story_setstatus.go`, `verb/v2_edges.go`, `verb/ledger.go` | `documents.status`, the story's ledger, the work claim, the `active_gate` marker | `story status_transition --skill/--checkpoint`, `story set-status`, `ledger_append` and its projection | workflow queries, local store, the gate it dispatches |
| governing workflow: `internal/workflow`, `verb/workflow_resolve.go`, `cmd_workflow_*.go` | files of three tiers, a block on the story | parse, validate, resolve, embed, design, check, list, explain | everything that asks what may come next |
| local store: `workstate/inbox.go`, `store.go` | work claim, marker, staged rows, event log, projection | claim, flush, append, cleanup | reviews, hooks, work sync |
| engagement and doors: `cmd_work.go`, `worktick.go`, `cmd_hook*.go` | the projection of the event log | `work init/close`, the hooks, the ticker, the refresh after a review | editors, reviews |
| work sync: `cmd_work_sync.go`, `worklive.go` | `last_flushed_seq` | flush the event log to the ledger | `ledger_append`, the ticker |
| ledger log handler: `ledger/handler.go` | a bounded queue, counters | `Handle`, drain, `Close` | the server's logger |
| documents and skills, stories, epics and tasks: `document/store.go`, `verb/document.go` | rows, versions, tags, parents | upsert, patch, tag, delete, list, get | ledger, reviewers, summary, embedding, live pages |
| uploads and reviews of artifacts: `cmd_documents.go`, `verb/request_review_dispatcher.go` | rows, attestations, headlines | upload, curate, publish | reviewers, document store |
| skills, workflows and tasks of a clone: `cmd_skill_sync.go`, `cmd_task_*.go`, `cmd_clear.go` | files, stamps, backups, task rows | sync, copy, publish, clear | document store |
| workspaces, projects, mounts, members, invitations, variables | SQL tables | verbs | role checks |
| sign-in, OAuth, API keys | accounts, sessions, codes, tokens, key rows, the credential file | login, grant, refresh, mint, revoke | browser, clients, CLI |
| start of the server: `document/system_seed.go`, `auth/devlogin.go`, `auth/sessionsecret.go` | seed registry, variables, secrets | reconcile, prune, provision | every instance of the server |
| client on disk: `cmd_install.go`, `cmd_update.go`, `cmd_init.go`, `codeindex` | binaries and links, five files of the repository, the index | install, update, init, index | the user who edits the same files |
| live pages, embedding worker, trace and lights | subscribers, chunks; none | publish, fetch; reconcile; derive | portal |
| the rest (portal pages, MCP, code map, ingest, model clients, blobs) | files or none | input and output | |

`PROJECT.json` lists every component with its status and note, and the hazards of the code at
the lines where they bite. What must hold, per component:

* **Reviews.** A status moves only along declared edges and only by the gate the edge declares;
  a verdict precedes its move; a bounded fail loop escalates at its bound; ledger, status, trace
  and lights tell one story; two operators do not review a story in one clone at once; a started
  command ends and a killed one does not lock the story.
* **Workflows.** What is accepted is what the commands assume; a story moves by the workflow that
  has authority over it; every report names that one.
* **Engagement.** Only a session that works keeps the doors open; they open only in states the
  workflow lets be edited; they and the stop hook agree; nobody brings back an engagement that
  was closed.
* **Flushes, queues, workers.** Nothing is passed over, nothing is repeated but for named
  reasons, and what was missed is made up.
* **Stores.** What was answered stands; what one read shows the next shows; guards hold against
  requests that meet.
* **Starts and files.** A start or a command that is cut off, or meets another, leaves what the
  next one repairs, and never takes away what a person wrote.

## 2. Modules

Four composites are what TLC runs. Each chooses one part in its initial state and leaves the
others as they began (`part`, `service`), so that its state space is the sum of the parts and
not their product; a property of a part is checked in the behaviours of that part.

| composite | parts |
|---|---|
| `MCDeployment` | `StoryGate` (one operator) with `StoryLifecycle` and `ProcessTrace`, `OAuth`, `SignIn`, `Keys`, `SystemSeed`, `Provision`, `Binary`, `Scaffold`, `CodeIndex`, `Doors`, `Tasks`, `Clear` |
| `MCRecords` | `StoryGate` (two racing runs), `StoryTree`, `StorySummary`, `Projects`, `Variables`, `Upload` |
| `MCServices` | `LedgerHandler`, `Documents`, `EmbedWorker`, `Live`, `Members` |
| `MCClone` | `WorkSync`, `Inbox`, `SkillSync`, `WorkflowFile`, `Governance` |
| `MCStoryGate`, `MCEngagement` | one module each; `WorkSync_once` takes `WorkSync` itself |

`Workflow` holds the queries of one validated workflow and is the base of `StoryGate`,
`Engagement` and `ProcessTrace`; `WorkflowRules` holds what is asked of workflows as values and
is the base of `WorkflowFile` and `Governance`, which instantiate `Workflow` per file.

### Reviews and workflows

**`StoryGate`.** A run is one command. `snap` is the status it read first; the code never reads
it again before it enacts, so the model does not either. The steps are those at which another
process can see or change something:

| action | code |
|---|---|
| `ResolveStory`, `ResolveForSetStatus` | story and workflow read, the checks that stop a command before it claims |
| `ClaimWork`, `ClaimRefused` | the transaction on `work_claim`, then what `--checkpoint` or a bare `--skill` may do |
| `DispatchRefused`, `Dispatch`, `NothingToRun` | the loop bound, read once, then the marker |
| `Judge`, `JudgeFails` | the gate and its verdict turned into rows (`PlanV2`, `PlanV1`) |
| `AppendLedger`, `AppendFails`, `AppendReturns` | the client side of `ledger_append`, whose errors are only printed |
| `Project`, `ProjectFails` | the server's second transaction, which may outlive the client |
| `CheckpointLands` | the write and the chain into a command's state |
| `Observe`, `Finish`, `SetStatusReturns` | read-back, cleanup, return |
| `Crash`, `PortalPatch`, `Tick` | kills, a status patched in the portal, time |

Gates and states are names; a row keeps its kind, its edge, its gate and whether it escalates.
The order of the declared transitions is kept, since the last edge of an outcome wins and the
first that names a gate declares it. **`StoryLifecycle`** is the abstract promise: one status,
the rejects of each loop, moves and escalations. **`ProcessTrace`** adds no state: it is what
`Reconcile`, `AnnotateLedger` and `buildReviewLights` compute from the ledgers `StoryGate` makes.

**`WorkflowFile`** lets an author write states and edges line by line; `validate`,
`ValidateLifecycle` and `Equivalent` are operators over the draft, and a story then walks an
accepted one. **`Governance`** has the files of three tiers, a story with its selector and block,
and the commands that resolve, act on the answer later, stamp it or report on it.

### Engagement, doors, flushes

**`Engagement`**: each writer of the projection except `work close` reads in one transaction and
appends in another (`InitCheck`/`InitAppend`, `AccessRead`/`AccessAppend`,
`TickRead`/`TickAppend`, `RefreshRead`/`RefreshAppend`). `Moves` is the environment. History
variables record when a session last ran a command, whether two of its commands overlapped and
what it last did; no action reads them. `Reachable` says whether guard lookups reach the server;
where they do not, the code treats a phase as editable. **`Doors`** takes a shell command as a
sequence of words, marks and operators, applies the scanner of `cmd_hook_commitgate.go` to it
and compares with `Effects`, what a shell does with the same words, `git mv` among them; the
session is in a repository of satellites (`configured`) or in none, where the hook does not look
at what a command writes; its row may change between the door and the tool.

**`WorkSync`**: a flush reads the mark, then the events above it, and sends them one by one; the
server's check and insert are two steps; calls fail, are given up while the server still has
them, and flushes are killed. **`Inbox`** is the same question for rows staged by reviews, where
a failed append is swallowed and the cleanup deletes. **`SkillSync`** follows one name through
the scopes, the verdict, the backup, the write and the removal; `beyond` has the scopes whose list,
one page of 200 skills, the newest first, does not reach the name's row. **`Tasks`** and **`Clear`**
list, then write by what they listed, and a list is one page (`PageLimit`; `listMaxLimit`,
`document/store.go:820`, whatever limit the client asks for). In `Tasks` the order of `row` and
`shelf` is the order in which rows were made, so that a row is on the page of its project unless
a page of younger ones is before it; a publisher's library rows take room on the page of its own
tasks before they are dropped from it.

### Server

**`LedgerHandler`**: `Handle` by producers (some derived with `WithAttrs`), the drainer, `Close`
with its budgets, inserts that fail before or after they commit. **`Documents`**:
a row with its versions, upsert as its two transactions, tombstones, revival, tags.
**`StoryTree`**: requests on epics, stories and tasks, their parent checks, and the ledger rows of
a change; a request names only items that are or were there. **`StorySummary`**: the goroutines a
row starts. **`Upload`**: filter, reviewer, attestation, write and headline of the upload of a
kind; `document upload` of one file (`UploadFile`), which asks neither; curation and publishing.
Bodies are clean, hard-code a reference, or do so in a file whose tag exempts it (`Exempt`);
`filed` has the rows that are known as the kind's, by their type or their tag, and `direct` and
`torn` are histories of what a single file wrote and of the calls that failed before its tags were
replaced. A principle's file carries the principles tag. **`Projects`**, **`Members`**,
**`Variables`**: verbs statement by statement with their role checks. **`EmbedWorker`**,
**`Live`**: the reconcile pass, and the way of a write to a page. **`OAuth`**, **`SignIn`**,
**`Keys`**: grants, accounts and credentials, statement by statement; `excused`, `clashed` and the
like are history variables that say which accident happened, so that a property can name it.
**`SystemSeed`**, **`Provision`**: starts of several instances that overlap, change release and
are cut off.

### Client on disk

**`Binary`**: names on two directories of the PATH and a repository's build, as files and links,
under install, update and the repair every command runs. **`Scaffold`**: five files by what init
distinguishes in them, beside what the user keeps there. **`CodeIndex`**: hashes and symbols by
file.

### Proof modules

| module | about |
|---|---|
| `StoryGateProofs` | the queries of a workflow; the review machinery under any number of runs, operators, faults; one operator's ledger, status and loops; the refinement |
| `EngagementProofs` | `Engagement` |
| `CloneProofs` | `WorkSync`, `Inbox`, `SkillSync`, `WorkflowFile` and `Governance`, as `MCClone` instantiates them; the types and the safety of its whole run |
| `ServerProofs` | `LedgerHandler`, `Live`, `Members`, `Documents`, `EmbedWorker`, as `MCServices` does; the types and the safety of its whole run |
| `RecordsProofs` | `Upload`, `Projects`, `Variables`, `StoryTree`, `StorySummary`, as `MCRecords` does; the types and the safety of its whole run, with `StoryGateProofs` |
| `DeploymentProofs` | `OAuth`, `SignIn`, `Keys`, `SystemSeed`, `Provision`, as `MCDeployment` does; `SignedIn` and `StartsSound` of the whole run |
| `RowsProofs` | `Clear` and `Tasks`, as `MCDeployment` does |
| `ClientProofs` | `CodeIndex`, `Binary`, `Scaffold`, as `MCDeployment` does; `ClientSound` and `StaysOnce` of the whole run |

From `CloneProofs` on they extend the composite that TLC runs, so that a theorem states the very
definition that a run checks. The composite fixes no constant: a `.cfg` does for TLC, and a
theorem holds for all values that meet its hypotheses, among them those of the `.cfg`.

## 3. Runs

| run | question | result |
|---|---|---|
| `Deployment` | one operator, seven states with every kind of edge: do ledger, status, trace and lights agree, is each move earned, does it implement `StoryLifecycle`? Are codes, accounts, keys, starts, files, doors, tasks and clears sound? | holds |
| `Records` | two runs of one operator race: the marker, the overrun of a fail loop. Do ledger and summary tell the story, have projects one home, do variables answer alike, was every uploaded body judged? | holds |
| `Services` | is every log record accounted for, are documents, chunks, pages and memberships what was asked for, does the server catch up? | holds |
| `Clone` | is an event or a staged row passed over or repeated, does a sync lose an edit, do accepted workflows govern? | holds |
| `StoryGate_crash` | two operators in one clone, kills, failed and late projections, unreadable ledger, portal patches: exclusion, explained status, gates, liveness | holds |
| `Engagement_race` | two overlapping commands, two stories, three commands: the five engagement properties | holds |
| `StoryGate_chain`, `_stale`, `_projection`, `Engagement_fabricate`, `_access`, `WorkSync_once` | the smallest instances that show a disagreement | violated, see 4 |

### What the properties say

*Deployment.* `StatusTellsPath`: an edge is shown as taken exactly where it was, each row names
its edge or its escalation, and the pulsing light is that of the stage. `MovesEarned`: the ledger
is a walk of the workflow, each reviewed move follows its verdict, the status is where the ledger
ends, and a spent loop has escalated. `ImplementsLifecycle`: the refinement; the abstract status
is the column, its rejects are those projected so far, counted as the loop bound counts them.
`SignedIn`: a code starts one chain of tokens, a chain has one live token, a token the client was
told is good, an identity has one account with its workspace and invitations, a key works from its
answer until it is revoked or replaced. `StartsSound`: a document mirrors the artifact of the last
start that went through it, what an operator set stands, the dev login opens, instances share one
secret. `ClientSound`: the command stays on the PATH, the user's text stays in their files, a
repository once set up is, symbols are those of the text, only an engaged session writes, a
project's own task wins, a source has one row while rows fit a page, a clear spares stories.
`StaysOnce` (actions): no seeded document is lost, an administrator stays one, an update replaces
only by something newer.

*Records.* `MarkerMeansRunning`, `RejectOverrun` (a fail loop exceeds its bound by less than
one reject per racing run), `StoryTold`,
`ProjectsKept`, `VariablesKept`, `UploadsJudged`. *Services.* `Accounted`, `HoldsNewest`,
`QuietClose`, `OnceUnlessUnsure`, `DocumentsFaithful`, `StaleOnlyIfMissed`, `MembershipSound`,
`CatchesUp`. *Clone.* `NothingSkipped`, `OnceUnlessRaced`, `MarkSettles`, `FlushFaithful`,
`SyncFaithful`, `FilesGovern`, `GovernedMoves`. Each is stated in the comment above its
definition.

**Excuses.** Many guards of the code hold unless a named accident happened, and the property says
which: it is not weaker than that. The last admin is guarded against changes of role and
removals, but `member_add`, an invitation and a failed count go past the guard (`AdminRemains`).
A live page is stale only after a lost trigger, a failed request or crossed answers, and nothing
refetches on a reconnect (`StaleOnlyIfMissed`). Two workers that replace a chunk set at once leave
both (`OneSetUnlessOverlap`). A staged row is lost where its append failed or where another run
cleaned up behind the flush (`NoneForgotten`). A skill sync may overwrite what was written between
its last look and its write, takes project copies for orphans where the project cannot be looked
up, or where a page of younger skills hides their rows, and deletes backups with the directory it
removes (`SyncFaithful`). An archived workspace may
get a project, since nothing that places one asks (`ArchivedEmpty`). A consumed task whose tag
was taken while a sync had listed it is overwritten (`LocalWins`). A source has two rows where two
runs met at it or where the page a run read did not reach the one there was, and a run is caught
up with what its publisher's page shows (`OneRowPerSource`, `CaughtUp`). A body that hard-codes a
reference is on a row if its file was exempt or a single file brought it; the row is then no skill
and no principle, unless that call failed between the body and the tags (`UploadsJudged`). The
others are named in the comments.

### Bounds

Every bound stops the start of an operation and never cuts one short, except cuts that are
modelled as such.

* `StoryGate`: ten rows in `Deployment` let a fail loop of two be exhausted, the story be
  recovered and a second loop run; two or three rows suffice in the racing runs, which start in
  the reviewed state: a race needs a verdict and a move of each run, and planned rows are still
  written beyond the bound. A lease is the sum of its parts, a tick at most each.
* `Engagement_race`: three time units exceed a lease of two; three commands let an init with its
  ticker, a review or an access, and a close meet.
* `Services`: two producers of which one is derived, queue, batch and tries of two, four records,
  two faults: the queue overflows while a batch is tried again. Two writers and two bodies with
  two versions each; three documents of which one is a project's, a page of one, two workers,
  three writes and one fault; a buffer of one, two requests of a page, four writes; two users,
  two callers, one invitation.
* `Clone`: three events are the least with a first, a middle and a last in one batch, and two
  faults let a flush be given up and its successor be killed. Two reviews with two rows; two
  syncs of one skill in three scopes, of which the project's list may not reach it at first, with
  one change while they run; files of up to four edges from a pool of eleven over three states, in
  two orders; five files in four slots, one edit.
* `Records`: an epic, a story and a task under two requests; two writers, three goroutines and
  one reviewer; two workspaces, one project and four callers under two requests; three names of
  variables, two of three requests overlapping; two artifacts, a body of each sort (clean, with a
  reference, exempt) and two uploads with one edit. One failure in each.
* `Deployment`: two addresses and four OAuth requests with one fault; two identities with two
  addresses and three sign-ins; two servers, one machine, two mints and one revocation; two
  instances, three starts, one cut, four releases that change, drop and spoil artifacts; two
  directories of the PATH, two releases, two commands, two faults; three hooks, three
  repositories, two commands, one edit, one cut; two files and three index runs; 441 shell
  commands of three pieces in eight states of the session and two outside of a repository; two
  publishers, three names, two runs and one write, with four starts of which three fill or exceed a
  page of two; two clears of such pages.

Two actors are the least that race, and most races here need no third; three are used where an
order among waiting ones matters (summary goroutines, starts, index runs, sign-ins).

### Fairness

`StoryGate` assumes that a started command goes on (its dispatches and HTTP calls have time
limits), that the server goes on with what it inserted, and that time passes; nothing is assumed
of starting commands, of faults or of the portal. A run that `Answered` speaks of may end by
being killed. `WorkSync` assumes that a flush goes on and that another is started after it: in an
active session every command starts one. `LedgerHandler` assumes that producers and the drainer
are scheduled and that the ticker ticks, which is what the Go runtime gives goroutines that can
run; an insert has a time limit. `EmbedWorker` assumes that a worker's ticker goes on. Faults are
bounded, so the liveness properties say what happens once calls go through again; an event the
server refuses for ever blocks the log, which is listed as a hazard.

**Symmetry** is used in `Engagement_race` only, which has no liveness property.

Deadlock is checked in `WorkSync_once`, where a flush can always start again; elsewhere the
bounds stop the system.

## 4. Findings

Each is shown by a run that violates one property.

1. `StoryGate_chain`: a `--checkpoint` that lands on a `satellites` state runs its command and
   enacts nothing, because `enactV2` was computed for the state it came from
   (`cmd_story_review.go:402`, comment at 442-447).
2. `StoryGate_stale`: the status is read before the claim and not compared after it, so two
   reviewers can enact the same transition one after the other (`cmd_story_review.go:433`).
3. `StoryGate_projection`: insert and projection are two transactions, and the column can keep
   an earlier row's target (`verb/ledger.go:146`, comment at 26-30).
4. `Engagement_fabricate`: the refresh after a review turns a candidate row into an engagement
   (`cmd_work.go:264`, comment at 260-261).
5. `Engagement_access`: an access hook replaces an engagement without a phase by a candidate
   (`cmd_hook_access.go:174`).
6. `WorkSync_once`: two racing flushes both insert an event (`verb/ledger.go:118`, comments at
   `ledger/store.go:196-197` and `worklive.go:9`).

### Disagreements without a run of their own

The properties above are worded so as to be true of the code; where the code does less than its
comments say, the difference is an excuse in the property, or is noted here.

* **Lights and trace.** `review_lights.go:70` says that on a done story every reached stage ends
  green. A gate that rejects, followed by a set-status along an ungated edge, leaves that stage's
  last light red. A stage left by a checkpoint ends "fired". `Reconcile` counts one reject on
  every edge out of the state whose gate matches, so `TotalRejects` counts it more than once; an
  escalation appears on no edge; a row of set-status names no state it left and so no edge; a
  terminal state with a reopening edge is not terminal to `closeOut`.
* **Workflows.** `--explain` (`workflow_resolve.go:236`, "exactly what enactment would act on")
  takes the last edge that names a gate, where enactment takes the first or the outcome's. A
  dangling selector falls back to the category though it is called the authority
  (`workflow_resolve.go:34-36`); the drive-time gate ignores the selector; a re-embed stamps the
  first file of a name; `workflow check` drops embedded files the resolver considers. `reaches`
  ignores exhaustion edges, so "no infinite process" (`workflow.go:294`) holds between
  exhaustions. `Equivalent` ignores an order that edge lookups depend on.
* **Stories.** A patch that restates the parent is not checked, and may put a story back under a
  finished epic. A missing parent is refused by a foreign key though the comment says referential
  integrity is not enforced (`document.go:1471-1477`). A failed projection returns an error with
  the row inserted. A patch that undoes another's write leaves no ledger row.
* **Uploads.** `skill publish` says it runs the same review as an upload but runs the filter and
  attests the body itself; a project-level publish sends no attestation and is always refused
  where the body changed. Documents whose reviewer cannot be resolved go up unreviewed. A file
  edited between validation and plan uploads an empty body. `document upload` of a single file asks
  neither filter nor reviewer, and may write over a principle, which then loses its tags; an upload
  that finds its body already there needs no review (`document.go:135`), so that what a single file
  wrote can become a principle unreviewed.
* **Projects and variables.** `project_update` moves homes though it says they are immutable; a
  workspace may both mount a project and be its home (`authz/mount.go:89-92`); patches write the
  whole row. A set whose row is deleted under it is answered as written.
* **Starts.** The registry hash is written before the document, so an interrupted start leaves it
  stale for that release; a change of type ends the first start of a release; tags a release
  drops stay; a changed `dev_login.email` keeps the server from starting ("Safe to run on every
  boot").
* **Sign-in, OAuth, keys.** A race for the personal workspace leaves invitations for the next
  sign-in; `GetSession` never looks at the age its error names; a failed `GetClient` registers
  anew; a second machine's login replaces the first one's key; two saves share one temporary
  name.
* **Client.** `reconcileInstall` may remove a file where it says only links
  (`cmd_update.go:195`), and an overlapping repair can leave a link to itself; an overlapped
  update can put an older release over a newer one. `activateTomlKey` may append under a table,
  where the key has no effect and counts as set. A stale index "surfaces" (`slice.go`) only where
  offsets fall outside the file.
* **Doors.** `cp` or `sed -i` followed by a redirection hides its target; `2>/dev/null` after
  `rm` is taken for a file; a quoted `>` or `<<` misleads the scan; `echo git push` is gated;
  `cd` is not followed; one repository's exempt directories are applied to another's files. From a
  place that is no repository a command may write into one (`cmd_hook_commitgate.go:113`), which an
  edit may not.
* **Tasks and clear.** Overlapping syncs make two rows of a source; a deleted consumed task is
  made anew; sync and copy differ in precedence. Lists are one page of 200 rows though 500 are asked
  for (`cmd_task_sync.go:217`), and no cursor is followed: in a larger project a sync alone makes
  a second row of a source whose row is old, and a larger library is not read whole. `clear` lists
  tasks tagged as principles, and their names then delete a document of the same name or stop the
  run.
* **Skills.** A scope with more than 200 skills loses its oldest from its list
  (`cmd_skill_sync.go:998`), hence from the union and from the names that are protected, and their
  stamped copies are pruned, though "only a name absent from every scope is a true orphan"
  (`cmd_skill_sync.go:387-388`).

## 5. Proofs

The theorems hold for every workflow that meets `WorkflowAssumption` and every value of the
other constants.

* **`StoryGateProofs`.** `TypeCorrect`: `TypeOK` is not inductive, since a plan is typed only if
  the edges it names exist. `TypeInv` adds what the phase of a run says of its fields
  (`PhaseOK`): what was read is a state, a bound was taken from a loop that has one, a
  checkpoint under way has an edge to cross. The first lemmas of the module say that the
  query operators return edges of the workflow. `StatusIsLedgered`: from `TypeInv` and the fact
  that the ledger only grows, through every interleaving, lost append and kill. `ClaimsExclude`
  assumes `OneRunPerOperator`: the store lets an operator claim again what he holds, so two of his
  runs do overlap and one may free the work area of the other; `LeaseCovers` says that the claim
  row is still the run's operator's and outlasts the time the run may take. `MarkersMeanRunning`
  assumes that no run is killed; `ClaimedToReview` says which runs can have set the marker.
  `GatesMonopolise`: `PlansLawful` says that every row a run has planned crosses an edge by its
  gate, so that the ledger only gets such rows.
* **`OverrunsAreBounded`** (same module). The bound is read once, before the gate is
  dispatched, so racing runs pass it together. The invariant counts what the race can still
  bring: the rejects of a state on the ledger plus the runs that may yet write one
  (`Rejectors`) stay below the bound plus the number of runs. A run becomes a rejector only
  while the ledger is under the bound, and a reject moves it from one summand to the other.
  It assumes that there are finitely many runs and `CountsInFull`: a run whose ledger cannot be
  read counts nothing (`cmd_story_review.go` ignores that error) and a bound kept in the
  key-value store may differ between reads; either way no number bounds the loop.
* **`LifecycleImplemented`** and what leads to it (same module) is about one operator who runs one
  command at a time, whose rows land and are projected before the command goes on, with no portal
  patch (`OneAtATime`). That is not the code's guarantee but its normal use: `StoryGate_stale` and
  `StoryGate_projection` show that two reviewers, or a late projection, break these very
  properties. `WalkTold`: a run is always in one of four phases (`PathInv`): it has nothing to
  write (`Resting`), its plan starts at the status the story has (`Planned`), the verdict is
  written and its move is not (`Judged`), or the move is written and not projected (`Moving`).
  Hence the ledger is a walk, the verdict directly precedes its move and the status is the end of
  the walk. `LoopsEscalate`: `CountInv` says that a run that will reject counted what the ledger
  has, so that the reject that spends a bound carries the escalation. `MovesAreEarned` is both.
  The refinement: under the mapping every projection is a `Pass`, `Fail`, `Exhaust` or `Advance`
  of `StoryLifecycle` with the right count of rejects, and every other step a stutter.
* **`EngagementProofs`.** `EngagementTyped`; `IdleSessionsStale` by `LeaseFollowsActivity`: the
  leases in the projection and the times that commands under way will write come from a time at
  which their session was active. `DoorMatchesWorkflow` and `EditorsStay` assume `Reachable`;
  `EditInv` extends the property to what commands are about to write and to tickers' copies.
  `RowsFollowSession` by `FollowInv`: a session that never overlapped itself has one command
  under way (`Alone`), and the row a ticker will write back has the phase the session's last
  command left (`TicksFollow`).
* **`CloneProofs`: `SyncTyped`, `NothingIsSkipped`, `ReplaysRecognised`.** `SyncInv` says of
  each flush (`Fits`) that everything up to the last event it saw go through is on the ledger,
  and that the one it sends is the next; calls given up by their clients are covered the same
  way. `RaceInv`: an event whose inserts never overlapped is on the ledger once or has one insert
  under way.
* **`CloneProofs`: `FlushesAreFaithful`.** `FlushInv` says of a flush what its phase says of its
  fields (`RunFits`), which staged rows it may take for settled (`Covers`: all below the mark it
  read, then all it does not send itself), that a row it will send again is known to be repeated
  (`Warned`), and of rows above the mark that are on the ledger already, that the flush which
  sent them is alive or the repeat is known (`Unmarked`).
* **`ServerProofs`: `HandlerAccounts`, `ChannelHoldsNewest`, `CloseLeavesNothing`,
  `RowsOnceUnlessUnsure`**, for any number of producers, any capacity, batch, tries and faults.
* **`ServerProofs`, `RecordsProofs`, `DeploymentProofs`.** `PagesAskAgain`: answers are never
  newer than the region, and one that is older than a write finds its notification still ahead.
  `MembershipIsSound`: `Checked` says that a caller who passed the last-admin guard on a fresh
  count still has another admin beside the one it changes, `Read` what a request knows of the
  invitation it read, `Unused` that an open invitation admitted nobody; users are finitely many
  and none is called like the link. `UploadsAreJudged`: `Standing` is what the property says of
  one name, which holds of the row whoever wrote it; `Reviewed` carries what was decided of a body
  from step to step of a command, although the file may change under it; `BodiesApart` says that
  no body is both clean and a hard-coding one, that no body is none of the bodies, and that
  artifacts are numbers. `DocumentsAreFaithful`: a writer still holds a reviewed body and the tags
  it read (`Knows`); a pass that is about to stamp chunks read the version before the body, and
  what it will replace is still what it saw unless another worker came between (`Informed`).
  `GrantsAreSound`: `GrantInv` joins tokens with the requests that stand for them. A code has at
  most one token without predecessor or one request that marked it and has not minted
  (`CodesOnce`); a chain has one live token or one request that dropped it and has not saved the
  next (`Chains`); the session of a code is closed or its request about to close it
  (`SessionsOnce`); nobody registers a client that is registered (`Registrations`). The UPDATE
  that asks again whether a code is used is what makes the first hold without an excuse, though
  each request reads the code long before. `GrantsAreTyped` adds that a token follows an earlier
  one and that addresses are registered ones (`Addressed`).
* **`DeploymentProofs`: `SignedInIsSound`** states `SignedIn` of `MCSpec` itself: every step of
  the composed run is a step of `OAuth`, `SignIn` or `Keys` or leaves them alone (`PartsStep`), and
  the theorems of the three do the rest. `AccountsAreSound`: `Knows` says what a sign-in holds
  from statement to statement (its account is that of its identity, whoever else signs in
  meanwhile), `OneAccount` that an identity is on one row and was signed in to no other, and
  `AccountsLast` that no step takes a row, its identity, a workspace or brings an invitation
  back, which is why what one sign-in knows survives the steps of the others.
  `AdministratorsStay` follows from the types. `KeysAreSound`: `RowsOfKeys` says that a key has
  at most one row and that a row is revoked exactly if the revocation of its key was answered,
  `Told` that a key a caller was told has its row until another key takes the slot; `Alone` says of
  a machine on which no two saves met that the one save under way read the file as it is and
  that what it will rename is that file with its key. `UpsertIs` is the lemma on the operators:
  what is saved is what is loaded for the server, and nothing else changes. The hypotheses are
  that the bounds are numbers, an account with a password has no identity, and a server in dev
  mode is a server.

* **`DeploymentProofs`: `StartsAreSound`** does the same for starts. `StartsProvide`:
  `ProvisionInv` ties the place of a start to the credential it is about to write and the
  principal whose hash it holds; of a credential no two starts crossed at, whoever writes it first
  decides it (`WritesFirst`). `DocumentsMirror`: `NameInv` says, name by name, what the instances
  that are at it know: those who meet there are noted and the name counts as torn, the only one at
  work has done what its place says (`InHand`), and where nobody is, registry and document agree
  (`Rested`). `ArtifactsStay` follows from what a prune may delete. The hypotheses (`SeedBounds`,
  `ProvisionBounds`) say that bounds are numbers, releases map names to artifacts, and the mark
  for nothing is none of the values.
* **`RowsProofs`.** `ClearsAreSound`: as long as nobody else wrote, the targets of a clear that
  read its lists whole contain every row of its kind (`Targeted`). `TasksAreSound` needs two more
  histories than the code has: which rows people wrote themselves (`own`), and which lost their
  tag while a run had listed them. A source is claimed for a row that has its tag, or by a run
  that is to write it there because it saw the tag; the claims of a source on which no two runs
  met are all of one row, and each run that is to write the source saw that row or saw none
  (`ClaimsApart`). A source counts as met, too, when the page a run read did not reach a row of it
  (`CutOff`); of any other the list shows every claim (`ListReaches`), whatever the limit is. A
  run nobody disturbed has what the library holds, and each source of it is done, in hand or
  answered by a task of the project's own (`QuietFits`).
* **`ClientProofs`.** `SymbolsAreSound`: a run that nobody disturbed has, of each file it is past,
  what the file holds or a hash that says the index has it (`Gathered`). `CommandStays` and
  `ReleasesReplace`: what a run got is the release it asked for or a broken download it
  discards, and names two runs have in hand are noted as clashed (`BinaryFits`, `HandsApart`).
  `RepositoriesSettle`: `StepDone` is what a step of an init is to see to; `StepSeesTo` says of
  the step that it keeps what is the user's, changes its file exactly if it has something to see
  to, and takes nothing from what earlier steps saw to, so that an undisturbed run has seen to
  every step it is past (`SettledBy`). That last part is a statement about the order of the
  steps: the server's address is set before the entry of the agent's client is compared to it.
* **`SyncIsFaithful`** (`CloneProofs`): of a sync under way `SkillInv` says, place by place, which
  rows its verdict stands for (`Asks`), what it last saw of the file (`Looks`), and, where nothing
  changed since it looked, that the file will be the winner's body or the operator's (`LeftBy`),
  all of the rows that the pages show (`Shown`), whichever scopes hide theirs.
  A row never falls back to an older version (`Older`) and a stamp never claims more than its row
  (`StampFits`). The hypotheses (`SyncBounds`) say that the marks for no body and a torn one are
  no bodies and that changes are counted.
* **`FilesAreGoverned`** (`CloneProofs`). `FileInv` joins the draft, the pinned copy and the
  story that walks the draft. `Spared` says of a reviewed state that its rejects stay below the
  bound of its loop or, where it has none, that it rejected at most once and is not reachable
  any more. For that the proof needs that what `validate` computes as reachable is the least set
  that no edge leaves, which it shows by counting: a pass over the lines that adds something
  uses up a line, so there are no more passes than lines (`AfterSettles`, a pigeonhole in place
  of an induction). `PinnedFrom` says that a copy is the draft with two lines swapped or one
  replaced, so that `Equivalent` has to find the difference. `FileBounds` asks that lines are
  edges of `Workflow`, that names differ from the marks, and that an edge with an outcome is not
  triggered by `reopen`: `validate` (`workflow.go:247`) checks outcome and trigger each for
  itself, so an author may write such an edge; no workflow in the repository has one.
* **`StoriesAreGoverned`** (`CloneProofs`). `CmdInv` is what a command under way read of the story
  and of the files, and why it goes on; the files may change under it. A file validates or is
  blank wherever a command gets it from (`GoverningIs`). The reports are functions of
  the state. The first row of a list is what a command resolves because the slots of a tier come
  before those of the next; `check` is sound because the file a command takes for a category is
  among those at its top rank, which a clean report says have one name (`CheckHolds`);
  `--explain` answers as a command does but in the cases of `ExplainMisleads`, edges of one state
  that disagree (`ExplainIs`); this proof made that list shorter than TLC alone had left it.
  `GovernanceBounds` says that the files are workflow files and that slots are ordered by tier,
  as the code reads its directories.
* **`CloneIsSound`** (`CloneProofs`) is about `MCSpec`: the types of all parts and their safety, by
  the theorems of the parts; `FlushesAreTyped` and `CopiesAreTyped` give the types.
* **`RecordsProofs`: `ProjectsAreKept`.** `ProjectsInv`: what a request knows of the project, the
  workspace and the caller at each statement (`Knows`), and that homes and mounts were placed
  after a look at the archive flag. The proof attempt showed that the clause about moved homes
  spoke of any request that moves one; it now speaks of the two that crossed.
* **`RecordsProofs`: `VariablesStand`.** `VariablesInv`: what a set or a get has met so far of the
  layers it walks (`SetKnows`, `GetKnows`, `MetAt`). That a list and a get answer alike is
  `Showing`: each layer adds the names no layer before it answers; the listing recurs over the
  chain, which has at most four layers, so it is unrolled and no induction is needed.
* **`RecordsProofs`: `StoryIsTold`.** `TreeInv` ties the ledger rows of a change to the item they
  are of and what its request had read, `SummaryInv` the summary to the rows its goroutines saw.
  The hypotheses (`TreeBounds`, `SummaryBounds`) say that the marks are neither items nor
  statuses. The proof attempt showed that the model let a request name a story before there was
  one, which no client can; `StoryTree` now has that guard.
* **`RecordsAreSound`, `ServicesAreSound`** (`RecordsProofs`, `ServerProofs`) are about `MCSpec` of
  the two composites: each step of the run is a step of one part and leaves the others alone, so
  the theorems of the parts hold of the run, and with them the types, whose counters need
  invariants of their own (a number handed out is one that was drawn). The hypotheses
  (`RecordBounds`, `ServiceBounds`) collect those of the parts: bounds are numbers, users are
  finitely many, marks are none of the values.
* **`ClientIsSound`, `WhatWasStays`** (`ClientProofs`) are about `MCSpec`: `ClientStep` and
  `PartsStep` say that each step of the composed run is a step of the part or leaves it alone.
  `ClientIsSound` leaves out the part of the doors, see below.

TLC evaluates the hypotheses of these theorems as true for the constants of `Deployment` and of
`Clone`.

The prover expands a CASE with overlapping arms to a CHOOSE; the few that had such arms are now
written so that exactly one arm applies, as in the code.

**Only model-checked:** liveness (`Progress`, `MarkSettles`, `CatchesUp`), which rests on
fairness and ENABLED and is beyond the prover; `StatusTellsPath`, since `ProcessTrace` folds
ledgers; of `ClientSound` what it says of `Doors`, where the answer is what a scan computes word
by word for the commands of the run. No module declares a RECURSIVE operator. Where a recursive
function had to be reasoned about, the proof uses that a set of naturals has a least member, in
place of an induction theorem.

## 6. Not modelled

Portal pages, HTTP encoding, the MCP server, model providers and prompts, ingest and extraction,
the code graph and map, blobs, migrations, log output; reports that only read (search, rollups,
episodes, context budgets). The reason for each is in `PROJECT.json`. Two clones whose stores
count the same (session, story, seq) keys are outside `WorkSync` (`ledger/store.go:205`).
Two lists of one page are taken as whole: the 2000 ledger rows of a story that its summary reads
(`ledger/store.go:228`), and the 200 stories `workflow check` looks at
(`cmd_workflow_check.go:638`; the model's story is one of them).
Wall-clock limits appear only as leases in ticks; the assumption that a run fits in the margin
its lease adds to the two dispatches is stated at `RunBudget`. Text is data: a body is a value,
a file a set of features, a shell command a sequence of words.

## 7. What is left

1. `Engagement` driven by `StoryGate`'s transitions instead of free moves.
2. `WorkSync` and `Inbox` with two clones.
3. Seeds of projects and workspaces; invitations to projects.
4. Theorems about `Doors` for commands of any length; the parts of the refinement that need no
   `OneAtATime` split from those that do.
