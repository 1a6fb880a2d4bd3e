------------------------------- MODULE Tasks -------------------------------
(***************************************************************************)
(* The tasks a project takes from the libraries of its publishers:         *)
(* satellites task sync (internal/cli/cmd_task_sync.go), task copy         *)
(* (internal/cli/cmd_task_library.go), task publish                        *)
(* (internal/cli/cmd_task_publish.go) and task edit (internal/cli/         *)
(* cmd_task.go), on the rows that internal/verb/document.go keeps.         *)
(* Commands run at once, and the people of the projects write between      *)
(* their requests.  A command reads one page of each list it asks for.     *)
(***************************************************************************)
EXTENDS Naturals, Sequences, FiniteSets

CONSTANTS
    Publishers,     \* the projects whose libraries are consumed
    Consumer,       \* the project that consumes them, none of these
    Names,          \* in the order they sort
    NoSource,       \* a row with no forked-from tag
    Runs,
    Starting,       \* what library, shelf and rows may be at first
    PageLimit,      \* the rows a list has at most, the newest first: listMaxLimit, 200
    MaxBody, MaxRuns, MaxWrites, MaxFails

VARIABLES
    library,    \* by publisher and name: the body, 0 where there is none
    shelf,      \* the library rows in the order of their making, and how many rows were there before
    row,        \* in the order of their making
    run,
    clashed,    \* history: the sources two runs had in hand, or had a row beyond the page a run read
    untagged,   \* history: the rows whose tag was taken while a run had listed them
    came, writes, fails

tasksVars == <<library, shelf, row, run, clashed, untagged, came, writes, fails>>

At(s) == {s[i] : i \in DOMAIN s}
Sources == Publishers \X At(Names)
\* own: history, the body its people gave a row that has no source; 0 for the others.
Row(project, name, from, body) ==
    [project |-> project, name |-> name, from |-> from, body |-> body,
     own |-> IF from = NoSource THEN body ELSE 0, deleted |-> FALSE]

\* todo: the publishers still to read; names: of the one in hand; lib: the items with their
\* bodies; seen: the rows listed, with the tag they had.
Idle == [at |-> "idle", kind |-> "", name |-> "", only |-> NoSource, todo |-> {}, pub |-> NoSource,
         names |-> {}, lib |-> {}, seen |-> {}, body |-> 0, quiet |-> TRUE]

Init ==
    /\ \E s \in Starting : library = s.library /\ shelf = s.shelf /\ row = s.row
    /\ run = [r \in Runs |-> Idle]
    /\ clashed = {} /\ untagged = {} /\ came = 0 /\ writes = 0 /\ fails = 0

Set(r, to) == run' = [run EXCEPT ![r] = to]
Go(r, at) == Set(r, [run[r] EXCEPT !.at = at])

\* A write by another hand: the runs that are under way are not alone.
Unquiet(to, but) == [q \in Runs |-> IF q = but THEN to[q] ELSE [to[q] EXCEPT !.quiet = FALSE]]
Kept == <<library, shelf, row, clashed, untagged, writes>>

\* The rows of a project, and the library rows of publishers, that are not deleted.
Stock(project) == {i \in DOMAIN row : row[i].project = project /\ ~row[i].deleted}
Shelved(pubs) == {k \in DOMAIN shelf : shelf[k].source[1] \in pubs /\ library[shelf[k].source] # 0}

\* listProjectTasks: one page of the project's rows, of which its library rows take their room
\* before they are dropped (dropForeignLibraryTasks).
Reaches(project, i) ==
    Cardinality({j \in Stock(project) : j > i}) +
        Cardinality({k \in Shelved({project}) : shelf[k].after >= i}) < PageLimit
Listed(project) ==
    {[id |-> i, name |-> row[i].name, from |-> row[i].from] : i \in {j \in Stock(project) : Reaches(project, j)}}

\* The sources a row beyond the page of the consumer has, or had when a run saw it.
CutOff ==
    {s \in Sources : \E i \in Stock(Consumer) :
        /\ ~Reaches(Consumer, i)
        /\ row[i].from = s \/ \E r \in Runs : \E t \in run[r].seen : t.id = i /\ t.from = s}

\* One page of the library rows of publishers.
Page(pubs) ==
    {shelf[k].source : k \in {i \in Shelved(pubs) : Cardinality({j \in Shelved(pubs) : j > i}) < PageLimit}}

\* The library as the lists of its publishers show it.
Shown == [s \in Sources |-> IF s \in Page({s[1]}) THEN library[s] ELSE 0]

-----------------------------------------------------------------------------
\* task sync and task copy.

Start(r, kind, name, only, todo) ==
    /\ run[r].at = "idle" /\ came < MaxRuns /\ came' = came + 1
    /\ Set(r, [Idle EXCEPT !.at = "names", !.kind = kind, !.name = name, !.only = only, !.todo = todo])
    /\ UNCHANGED <<Kept, fails>>

\* syncTasks: every publisher in turn.
Sync(r) == Start(r, "sync", "", NoSource, Publishers)

\* listAllLibraryTaskRefs: the publishers of the name on one page of all, of which --from picks
\* one.
Offered(name, from) == {p \in Publishers : <<p, name>> \in Page(Publishers) /\ from \in {NoSource, p}}

\* copyLibraryTask: one publisher is to be found.
Copy(r) ==
    \E name \in At(Names), from \in Publishers \cup {NoSource} :
        /\ Cardinality(Offered(name, from)) = 1
        /\ Start(r, "copy", name, from, Offered(name, from))

\* listLibraryTasks: the names of a publisher; with none left, the rows of the project, or
\* nothing to do.
ListLibrary(r) ==
    /\ run[r].at = "names" /\ run[r].names = {}
    /\ \E p \in run[r].todo :
          Set(r, [run[r] EXCEPT !.pub = p, !.todo = @ \ {p},
                                !.names = {n \in At(Names) : <<p, n>> \in Page({p})}])
    /\ UNCHANGED <<Kept, came, fails>>

\* One body is read by its name; a name that is gone ends the run.
GetBody(r) ==
    /\ run[r].at = "names"
    /\ \E n \in run[r].names :
          LET body == library[<<run[r].pub, n>>]
          IN Set(r, IF body = 0 THEN Idle
                    ELSE [run[r] EXCEPT !.names = @ \ {n},
                                        !.lib = @ \cup {[pub |-> run[r].pub, name |-> n, body |-> body]}])
    /\ UNCHANGED <<Kept, came, fails>>

\* The items a run goes through: all for a sync, the one named for a copy.
Wanted(v) == {x \in v.lib : v.kind = "sync" \/ x.name = v.name}

ListRows(r) ==
    /\ run[r].at = "names" /\ run[r].names = {} /\ run[r].todo = {}
    /\ IF Wanted(run[r]) = {} THEN Set(r, Idle) /\ UNCHANGED clashed
       ELSE /\ Set(r, [run[r] EXCEPT !.at = "items", !.lib = Wanted(run[r]), !.seen = Listed(Consumer)])
            /\ clashed' = clashed \cup CutOff
    /\ UNCHANGED <<library, shelf, row, untagged, writes, came, fails>>

Source(x) == <<x.pub, x.name>>
Forked(v, x) == {s.id : s \in {t \in v.seen : t.from = Source(x)}}
Locals(v, x) == {s.id : s \in {t \in v.seen : t.from = NoSource /\ t.name = x.name}}
Eldest(ids) == CHOOSE i \in ids : \A j \in ids : i <= j
Newest(ids) == CHOOSE i \in ids : \A j \in ids : i >= j

\* Mutant: a row of the project is known by its name.
PriorByName(v, x) ==
    LET known == Forked(v, x) \cup Locals(v, x)
    IN IF known = {} THEN 0 ELSE Eldest(known)

\* The row to update. A sync maps each source to the last row of the list, which is the
\* eldest; a copy goes through the list from the newest and stops at a local of the name.
Prior(v, x) ==
    LET forked == Forked(v, x)
        rows == forked \cup Locals(v, x)
    IN IF forked = {} THEN 0
       ELSE IF v.kind = "sync" THEN Eldest(forked)
       ELSE IF Newest(rows) \in forked THEN Newest(rows) ELSE 0

\* A local task of the name has precedence.
TakenLocally(v, x) == Locals(v, x) # {}

Others(r, x) ==
    {q \in Runs \ {r} : run[q].at = "items" /\ \E y \in run[q].lib : Source(y) = Source(x)}

\* upsertConsumedTask of a known row: body and tags become the library's, also of a row that
\* was deleted since (upsertTaskByID).
Update(r, x, id) ==
    /\ row' = [row EXCEPT ![id].body = x.body, ![id].from = Source(x)]
    /\ UNCHANGED clashed

\* The same of a name not known (createTask): no constraint keeps two rows of one source apart.
Create(r, x) ==
    /\ row' = Append(row, Row(Consumer, x.name, Source(x), x.body))
    /\ clashed' = IF Others(r, x) = {} THEN clashed ELSE clashed \cup {Source(x)}

\* The next item by name; a run that is through ends, and says so to no one else.
Item(r) ==
    /\ run[r].at = "items"
    /\ \E x \in run[r].lib :
          LET done == [run[r] EXCEPT !.lib = @ \ {x}, !.at = IF run[r].lib = {x} THEN "done" ELSE @]
              prior == Prior(run[r], x)
          IN /\ \A y \in run[r].lib :
                    (CHOOSE i \in DOMAIN Names : Names[i] = x.name)
                        <= (CHOOSE i \in DOMAIN Names : Names[i] = y.name)
             /\ IF prior # 0 THEN /\ Update(r, x, prior)
                                  /\ run' = Unquiet([run EXCEPT ![r] = done], r)
                ELSE IF TakenLocally(run[r], x)
                     THEN /\ Set(r, IF run[r].kind = "copy" THEN Idle ELSE done)
                          /\ UNCHANGED <<row, clashed>>
                ELSE /\ Create(r, x)
                     /\ run' = Unquiet([run EXCEPT ![r] = done], r)
    /\ UNCHANGED <<library, shelf, untagged, came, writes, fails>>

Finish(r) ==
    /\ run[r].at = "done" /\ Set(r, Idle)
    /\ UNCHANGED <<Kept, came, fails>>

-----------------------------------------------------------------------------
\* task publish and task edit: the row is read, then the write is sent.

\* resolveProjectTask: one row of the publisher has the name.
Publish(r) ==
    /\ run[r].at = "idle" /\ came < MaxRuns /\ came' = came + 1
    /\ \E p \in Publishers : \E s \in Listed(p) :
          /\ \A t \in Listed(p) : t.name = s.name => t = s
          /\ Set(r, [Idle EXCEPT !.at = "read", !.kind = "publish", !.pub = p, !.name = s.name, !.names = {s.id}])
    /\ UNCHANGED <<Kept, fails>>

ReadRow(r) ==
    /\ run[r].at = "read"
    /\ \E id \in run[r].names : Set(r, [run[r] EXCEPT !.at = "send", !.body = row[id].body])
    /\ UNCHANGED <<Kept, came, fails>>

\* publishProjectTask: the library has one row of a name, which takes the body; one that was
\* withdrawn keeps its place in the order.
Send(r) ==
    /\ run[r].at = "send"
    /\ LET source == <<run[r].pub, run[r].name>>
       IN shelf' = IF \E k \in DOMAIN shelf : shelf[k].source = source THEN shelf
                   ELSE Append(shelf, [source |-> source, after |-> Len(row)])
    /\ library' = [library EXCEPT ![<<run[r].pub, run[r].name>>] = run[r].body]
    /\ run' = Unquiet([run EXCEPT ![r] = Idle], r)
    /\ UNCHANGED <<row, clashed, untagged, came, writes, fails>>

Write == writes < MaxWrites /\ writes' = writes + 1
Alive(i) == ~row[i].deleted
Written(new) == row' = new /\ run' = Unquiet(run, NoSource)

\* runTaskEdit: only the body, and of a task.
Edit ==
    /\ Write
    /\ \E i \in DOMAIN row : \E body \in 1..MaxBody \ {row[i].body} :
          Alive(i) /\ Written([row EXCEPT ![i].body = body, ![i].own = IF row[i].from = NoSource THEN body ELSE 0])
    /\ UNCHANGED <<library, shelf, clashed, untagged, came, fails>>

\* A person makes the project's task their own: its forked-from tag goes.
Untag ==
    /\ Write
    /\ \E i \in DOMAIN row :
          /\ row[i].from # NoSource /\ Alive(i)
          /\ Written([row EXCEPT ![i].from = NoSource, ![i].own = row[i].body])
          /\ untagged' = IF \E r \in Runs : \E s \in run[r].seen : s.id = i
                         THEN untagged \cup {i} ELSE untagged
    /\ UNCHANGED <<library, shelf, clashed, came, fails>>

\* createTask by a person.
Make ==
    /\ Write
    /\ \E n \in At(Names) : Written(Append(row, Row(Consumer, n, NoSource, 1)))
    /\ UNCHANGED <<library, shelf, clashed, untagged, came, fails>>

\* document_delete by id leaves a row that no list has.
Delete ==
    /\ Write
    /\ \E i \in DOMAIN row : Alive(i) /\ Written([row EXCEPT ![i].deleted = TRUE])
    /\ UNCHANGED <<library, shelf, clashed, untagged, came, fails>>

\* document_delete of a library row, by its name.
Withdraw ==
    /\ Write
    /\ \E s \in Sources :
          /\ library[s] # 0
          /\ library' = [library EXCEPT ![s] = 0]
    /\ run' = Unquiet(run, NoSource)
    /\ UNCHANGED <<shelf, row, clashed, untagged, came, fails>>

\* A request fails and ends its run; what was written stays.
RequestFails(r) ==
    /\ run[r].at \notin {"idle", "done"} /\ fails < MaxFails /\ fails' = fails + 1
    /\ Set(r, Idle)
    /\ UNCHANGED <<Kept, came>>

Next ==
    \/ \E r \in Runs :
          \/ Sync(r) \/ Copy(r) \/ ListLibrary(r) \/ GetBody(r) \/ ListRows(r) \/ Item(r) \/ Finish(r)
          \/ Publish(r) \/ ReadRow(r) \/ Send(r) \/ RequestFails(r)
    \/ Edit \/ Untag \/ Make \/ Delete \/ Withdraw

Spec == Init /\ [][Next]_tasksVars

-----------------------------------------------------------------------------
TypeOK ==
    /\ library \in [Sources -> 0..MaxBody] /\ shelf \in Seq([source : Sources, after : Nat])
    /\ row \in Seq([project : Publishers \cup {Consumer}, name : At(Names),
                    from : Sources \cup {NoSource}, body : 1..MaxBody, own : 0..MaxBody, deleted : BOOLEAN])
    /\ clashed \subseteq Sources /\ untagged \subseteq DOMAIN row
    /\ \A r \in Runs :
          /\ run[r].at \in {"idle", "names", "items", "done", "read", "send"}
          /\ run[r].at \in {"items", "done"} => run[r].kind \in {"sync", "copy"}
    /\ came \in 0..MaxRuns /\ writes \in 0..MaxWrites /\ fails \in 0..MaxFails

\* A task of a project's own stays its own, with the body its people gave it, whatever is
\* published under its name and however the runs overlap; but not one whose tag they took while
\* a run had listed it.
LocalWins ==
    \A i \in DOMAIN row :
        row[i].own # 0 /\ i \notin untagged => row[i].from = NoSource /\ row[i].body = row[i].own

\* A source has one row, whatever failed or was run again, while the rows of a project fit one
\* page. Two runs that had it in hand together may each have made one, since nothing in the store
\* keeps them apart; so may a run alone whose list did not reach the row (listMaxLimit, and no
\* cursor is followed); and a row deleted is made anew.
OneRowPerSource ==
    \A i, j \in DOMAIN row :
        /\ i < j /\ row[i].project = Consumer /\ row[j].project = Consumer
        /\ row[i].from # NoSource /\ row[i].from = row[j].from
        => row[i].deleted \/ row[j].deleted \/ row[i].from \in clashed

\* A run that no other write came between leaves each item it wanted, of those its publisher's
\* page shows, with a row of its source that has the library's body, or with a local task of its
\* name.
CaughtUp ==
    \A r \in Runs :
        run[r].at = "done" /\ run[r].quiet =>
            \A s \in Sources :
                Shown[s] # 0 /\ (run[r].kind = "copy" => s = <<run[r].pub, run[r].name>>) =>
                    \E i \in DOMAIN row :
                        /\ row[i].project = Consumer /\ Alive(i)
                        /\ \/ row[i].from = s /\ row[i].body = Shown[s]
                           \/ run[r].kind = "sync" /\ row[i].from = NoSource /\ row[i].name = s[2]
=============================================================================
