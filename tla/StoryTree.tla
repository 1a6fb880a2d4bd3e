----------------------------- MODULE StoryTree -----------------------------
(***************************************************************************)
(* The work items of a project: stories, the epics above them and tasks    *)
(* (internal/verb/document.go, the id-addressed upsert and delete, and the *)
(* hooks behind them).  A request reads the row, checks it, writes it in a *)
(* transaction, and then appends a ledger row of what it changed.  What    *)
(* the hooks start in the background is in StorySummary.                   *)
(***************************************************************************)
EXTENDS Naturals, FiniteSets, Sequences

CONSTANTS
    Items, Tasks,    \* work items, and those of them that are tasks
    NoItem,          \* the empty parent
    Requests,        \* requests under way at once
    Patches,         \* what a patch may ask: [parent, status, text], any of them Keep
    Keep,            \* the field is not in the patch
    MaxRequests,     \* no more requests than this come
    MaxFaults        \* no more calls fail than this

Fields == {"parent", "status", "text"}
Statuses == {"initial", "started", "terminal", "deleted"}

VARIABLES
    item,       \* the rows of documents, a function of the items there are
    ended,      \* items that were removed
    told,       \* per item, what the ledger's last row about each field says
    req,        \* the requests
    excused,    \* history, per item: what went wrong that a promise leaves out
    came,       \* how many requests came
    faults      \* how many calls failed

treeVars == <<item, ended, told, req, excused, came, faults>>

Row == [parent : Items \cup {NoItem}, status : Statuses, text : 0..MaxRequests]
NewRow == [parent |-> NoItem, status |-> "initial", text |-> 0]
Live == DOMAIN item
Stories == Items \ Tasks
Idle == [at |-> "idle", kind |-> "", id |-> NoItem, patch |-> [parent |-> Keep, status |-> Keep, text |-> Keep],
         saw |-> NewRow, wrote |-> NewRow]

Init ==
    /\ item \in UNION {[S -> [parent : (S \ Tasks) \cup {NoItem}, status : Statuses \ {"deleted"}, text : {0}]] : S \in SUBSET Items}
    /\ ended = {}
    /\ told = [i \in Items |-> IF i \in Live THEN item[i] ELSE NewRow]
    /\ req = [q \in Requests |-> Idle]
    /\ excused = [i \in Items |-> {}]
    /\ came = 0
    /\ faults = 0

Set(q, r) == req' = [req EXCEPT ![q] = r]
Go(q, at) == Set(q, [req[q] EXCEPT !.at = at])
Excuse(i, why) == excused' = [excused EXCEPT ![i] = @ \cup why]
Faulty == faults < MaxFaults /\ faults' = faults + 1

\* What a patch makes of a row.
Patched(r, p) == [f \in Fields |-> IF p[f] = Keep THEN r[f] ELSE p[f]]

\* What a write of an item by a request overlaps with: another request on the item, or one
\* that is about to put an item under it.
Overlap(q, i) ==
    {why \in {"raced", "late"} : \E r \in Requests \ {q} :
        req[r].at # "idle" /\ i = IF why = "raced" THEN req[r].id ELSE req[r].patch.parent}
Busy(i) == \E q \in Requests : req[q].at # "idle" /\ req[q].id = i

-----------------------------------------------------------------------------
\* No more requests than the bound.
Come ==
    /\ came < MaxRequests
    /\ came' = came + 1

\* A new text is one no other request has.
Start(q, kind, i, p, at) ==
    /\ req[q].at = "idle" /\ Come
    /\ Set(q, [Idle EXCEPT !.at = at, !.kind = kind, !.id = i,
                           !.saw = IF i \in Live THEN item[i] ELSE @,
                           !.patch = [p EXCEPT !.text = IF @ = Keep THEN Keep ELSE came + 1]])
    /\ UNCHANGED <<item, ended, told, excused, faults>>

\* Mutant: a story is free to move until it ends.
FreeUntilTerminal(saw, p) == p.parent \in {Keep, saw.parent} \/ saw.status # "terminal"

\* epicReparentRefusal: the parent changes only while the story has not started.
MayMove(saw, p) == p.parent \in {Keep, saw.parent} \/ saw.status = "initial"

\* The id of an item is made with its row: nobody names an item that never was.
Named(parent) == parent \in Live \cup ended \cup {NoItem, Keep}

\* upsertByID reads the row; a task is patched with no further question.
LookAt(q) ==
    \E i \in Live : \E p \in Patches :
        /\ Named(p.parent)
        /\ i \in Tasks \/ MayMove(item[i], p)
        /\ Start(q, "patch", i, p,
                 IF i \in Tasks THEN "write"
                 ELSE IF p.parent \in {Keep, NoItem, item[i].parent} THEN "before" ELSE "parent")

\* createStory asks for the epic; a task's parent is looked at when the task is inserted.
Create(q) ==
    \E i \in Items \ (Live \cup ended) : \E p \in Patches :
        /\ Named(p.parent)
        /\ p.text # Keep /\ \A r \in Requests : req[r].id # i
        /\ Start(q, "create", i, p, IF i \in Tasks \/ p.parent \in {Keep, NoItem} THEN "write" ELSE "parent")

Refuses(parent) == parent \in Live /\ item[parent].status = "terminal"

\* refuseTerminalEpicParent: a parent that is not there, or cannot be read, is no objection.
CheckParent(q) ==
    /\ req[q].at = "parent"
    /\ LET next == IF req[q].kind = "create" THEN "write" ELSE "before"
       IN  \/ UNCHANGED <<faults, excused>>
              /\ IF Refuses(req[q].patch.parent) THEN Set(q, Idle) ELSE Go(q, next)
           \/ Faulty /\ Go(q, next) /\ Excuse(req[q].id, {"unchecked"})
    /\ UNCHANGED <<item, ended, told, came>>

\* The text before the patch is read apart from the row.
ReadBefore(q) ==
    /\ req[q].at = "before"
    /\ Set(q, [req[q] EXCEPT !.at = "write",
                             !.saw.text = IF req[q].id \in Live THEN item[req[q].id].text ELSE @])
    /\ UNCHANGED <<item, ended, told, excused, came, faults>>

\* The foreign key of parent_id.
ParentThere(parent) == parent \in Live \cup {NoItem}

\* UpdateStory, one transaction; the foreign key asks for a parent that is there.
Write(q) ==
    LET i == req[q].id
        new == Patched(item[i], req[q].patch)
    IN  /\ req[q].at = "write" /\ req[q].kind = "patch"
        /\ IF i \notin Live \/ ~ ParentThere(new.parent)
           THEN Set(q, Idle) /\ UNCHANGED <<item, excused>>
           ELSE /\ item' = [item EXCEPT ![i] = new]
                /\ Set(q, [req[q] EXCEPT !.at = "after", !.wrote = new])
                /\ Excuse(i, Overlap(q, i))
        /\ UNCHANGED <<ended, told, came, faults>>

\* CreateStory and CreateTask; a task's parent must be a story.
Insert(q) ==
    LET i == req[q].id
        new == Patched([NewRow EXCEPT !.status = "initial"], req[q].patch)
    IN  /\ req[q].at = "write" /\ req[q].kind = "create"
        /\ IF ~ ParentThere(new.parent) \/ (i \in Tasks /\ new.parent \in Tasks)
           THEN Set(q, Idle) /\ UNCHANGED item
           ELSE /\ item' = [j \in Live \cup {i} |-> IF j = i THEN new ELSE item[j]]
                /\ Set(q, [req[q] EXCEPT !.at = "append", !.wrote = new])
        /\ UNCHANGED <<ended, told, excused, came, faults>>

\* The text after the patch is read apart from the row as well.
ReadAfter(q) ==
    /\ req[q].at = "after"
    /\ Set(q, [req[q] EXCEPT !.at = "append",
                             !.wrote.text = IF req[q].id \in Live THEN item[req[q].id].text ELSE @])
    /\ UNCHANGED <<item, ended, told, excused, came, faults>>

\* computeStoryDiff; a new story and a task tell every field (a task its parent and status).
Tells(q) ==
    IF req[q].id \in Tasks THEN {"parent", "status"}
    ELSE IF req[q].kind = "create" THEN Fields
    ELSE {f \in Fields : req[q].saw[f] # req[q].wrote[f]}

Told(i, fs, r) == told' = [told EXCEPT ![i] = [f \in Fields |-> IF f \in fs THEN r[f] ELSE @[f]]]

\* The hooks: the ledger row, whose failure is printed, then the summary and the reviewers.
Finish(q) ==
    LET i == req[q].id fs == Tells(q)
    IN  /\ req[q].at = "append"
        /\ IF fs = {} THEN UNCHANGED <<told, faults, excused>>
           ELSE \/ /\ Told(i, fs, req[q].wrote)
                   /\ UNCHANGED <<faults, excused>>
                \/ Faulty /\ Excuse(i, {"lost"}) /\ UNCHANGED told
        /\ Set(q, Idle)
        /\ UNCHANGED <<item, ended, came>>

\* A status_transition: the row, then its projection, in two transactions.
Transition(q) ==
    /\ req[q].at = "idle" /\ Come
    /\ \E i \in Live : \E s \in {"started", "terminal"} :
          /\ Told(i, {"status"}, [status |-> s])
          /\ Set(q, [Idle EXCEPT !.at = "project", !.kind = "transition", !.id = i,
                                 !.patch = [@ EXCEPT !.status = s]])
          /\ Excuse(i, Overlap(q, i))
    /\ UNCHANGED <<item, ended, faults>>
Project(q) ==
    LET i == req[q].id
    IN  /\ req[q].at = "project"
        /\ \/ /\ i \in Live
              /\ item' = [item EXCEPT ![i] = Patched(@, req[q].patch)]
              /\ Excuse(i, Overlap(q, i))
              /\ UNCHANGED faults
           \/ i \notin Live /\ UNCHANGED <<item, excused, faults>>
           \/ Faulty /\ Excuse(i, {"unprojected"}) /\ UNCHANGED item
        /\ Set(q, Idle)
        /\ UNCHANGED <<ended, told, came>>

\* document_delete: a story is removed and its children lose their parent, which no row
\* tells; a task is marked.
Delete ==
    /\ Come
    /\ \E i \in Live :
          IF i \in Tasks
          THEN /\ item' = [item EXCEPT ![i].status = "deleted"]
               /\ Excuse(i, {"deleted"})
               /\ UNCHANGED ended
          ELSE LET kids == {j \in Live : item[j].parent = i}
               IN  /\ item' = [j \in Live \ {i} |-> IF j \in kids THEN [item[j] EXCEPT !.parent = NoItem] ELSE item[j]]
                   /\ ended' = ended \cup {i}
                   /\ excused' = [j \in Items |-> IF j \in kids THEN excused[j] \cup {"orphaned"} ELSE excused[j]]
    /\ UNCHANGED <<told, req, faults>>

Next ==
    \/ \E q \in Requests :
          \/ LookAt(q) \/ Create(q) \/ CheckParent(q)
          \/ ReadBefore(q) \/ Write(q) \/ Insert(q) \/ ReadAfter(q) \/ Finish(q)
          \/ Transition(q) \/ Project(q)
    \/ Delete

Spec == Init /\ [][Next]_treeVars

-----------------------------------------------------------------------------
TypeOK ==
    /\ Live \subseteq Items \ ended /\ item \in [Live -> Row]
    /\ \A i \in Live : item[i].parent \in Live \cup {NoItem}
    /\ told \in [Items -> Row]
    /\ \A q \in Requests : req[q].at \in {"idle", "parent", "before", "write", "after", "append", "project"}
    /\ came \in 0..MaxRequests /\ faults \in 0..MaxFaults

\* The last ledger row that names a field of an item carries the value the item has, once no
\* request is at it, unless a write overlapped another request on the item, a row was lost,
\* the projection failed, the parent was removed or a task was deleted: those leave no row.
LedgerTells ==
    \A i \in Live : ~ Busy(i) =>
        \A f \in IF i \in Tasks THEN {"parent", "status"} ELSE Fields :
            \/ told[i][f] = item[i][f]
            \/ {"raced", "lost"} \cap excused[i] # {}
            \/ f = "parent" /\ "orphaned" \in excused[i]
            \/ f = "status" /\ {"unprojected", "deleted"} \cap excused[i] # {}

\* A story that has started stays under its epic, unless the epic is removed or the story
\* started while a patch was under way.
MembershipFrozen ==
    [][\A i \in Live \ Tasks :
          i \in DOMAIN item' /\ item'[i].parent # item[i].parent /\ item[i].status # "initial" =>
              item[i].parent \in ended' \/ "raced" \in excused'[i]]_treeVars

\* A finished epic gets no child story, unless it ended after the check, the check could not
\* read it, or two patches of the story raced: one that names the epic the story is under is
\* not checked, and may put the story back where another took it from.
FinishedEpicsClosed ==
    [][\A i \in Stories \cap DOMAIN item' :
          LET p == item'[i].parent
          IN  p \in Live /\ item[p].status = "terminal" /\ (i \in Live => item[i].parent # p) =>
                  "late" \in excused'[p] \/ {"unchecked", "raced"} \cap excused'[i] # {}]_treeVars
=============================================================================
