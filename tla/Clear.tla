------------------------------- MODULE Clear -------------------------------
(***************************************************************************)
(* satellites clear (internal/cli/cmd_clear.go): the project's rows of a   *)
(* kind are listed, the operator confirms, and each is tombstoned by its   *)
(* name (document_delete, internal/document/store.go), while the people of *)
(* the project and the client's own syncs write rows.                      *)
(***************************************************************************)
EXTENDS Naturals, Sequences, FiniteSets

CONSTANTS
    Names,          \* in the order they sort
    Starting,       \* the rows at first, eldest first
    PageLimit,      \* how many rows a list has at most
    MaxClears, MaxWrites

VARIABLES
    row,
    clear,          \* the run
    alone,          \* history: no other write came since its first list
    clears, writes

clearVars == <<row, clear, alone, clears, writes>>

Types == {"story", "task", "document", "skill"}
\* A row of the project: its type, and whether it is tagged a principle and a workflow.
AnyRow == [name : {Names[i] : i \in DOMAIN Names}, type : Types, principle : BOOLEAN, workflow : BOOLEAN,
           deleted : BOOLEAN]
Kinds == {"principle", "skill", "workflow", "all"}
Idle == [at |-> "idle", kind |-> "", targets |-> {}, whole |-> TRUE]

Init ==
    /\ row \in Starting
    /\ clear = Idle /\ alone = FALSE /\ clears = 0 /\ writes = 0

-----------------------------------------------------------------------------
\* listProjectScoped: no tombstones, the newest first, one page.
Among(types) == {i \in DOMAIN row : row[i].type \in types /\ ~row[i].deleted}
Page(ids) == {i \in ids : Cardinality({j \in ids : j > i}) < PageLimit}

\* clearTargets drops every story.
Picked(ids, of) == {row[i].name : i \in {j \in ids : of[j] /\ row[j].type # "story"}}

Start ==
    /\ clear.at = "idle" /\ clears < MaxClears /\ clears' = clears + 1
    /\ \E kind \in Kinds :
          clear' = [Idle EXCEPT !.at = IF kind \in {"principle", "all"} THEN "principles" ELSE "skills",
                                !.kind = kind]
    /\ alone' = TRUE
    /\ UNCHANGED <<row, writes>>

\* Principles are known by a tag: the page is of all types, and narrowed afterwards.
ListPrinciples ==
    /\ clear.at = "principles"
    /\ clear' = [clear EXCEPT !.targets = Picked(Page(Among(Types)), [i \in DOMAIN row |-> row[i].principle]),
                              !.whole = Page(Among(Types)) = Among(Types),
                              !.at = IF clear.kind = "all" THEN "skills" ELSE "confirm"]
    /\ UNCHANGED <<row, alone, clears, writes>>

ListSkills ==
    /\ clear.at = "skills"
    /\ LET page == Page(Among({"skill"}))
           of == [i \in DOMAIN row |-> clear.kind # "workflow" \/ row[i].workflow]
       IN clear' = [clear EXCEPT !.targets = @ \cup Picked(page, of),
                                 !.whole = @ /\ page = Among({"skill"}), !.at = "confirm"]
    /\ UNCHANGED <<row, alone, clears, writes>>

\* Nothing to clear, a dry run, no answer or a no: nothing is deleted.
Refuse ==
    /\ clear.at = "confirm" /\ clear' = Idle
    /\ UNCHANGED <<row, alone, clears, writes>>

\* --force, or a yes at the terminal.
Confirm ==
    /\ clear.at = "confirm" /\ clear.targets # {}
    /\ clear' = [clear EXCEPT !.at = "delete"]
    /\ UNCHANGED <<row, alone, clears, writes>>

\* lockDocumentByKey: stories and tasks are not addressed by name. A tombstone is found too.
Keyed(name) == {i \in DOMAIN row : row[i].name = name /\ row[i].type \in {"document", "skill"}}

Rank(name) == CHOOSE i \in DOMAIN Names : Names[i] = name

\* The next target by name; a name that has no row stops the run, and so does a request that
\* fails.
DeleteNext ==
    /\ clear.at = "delete" /\ clear.targets # {}
    /\ LET name == CHOOSE n \in clear.targets : \A m \in clear.targets : Rank(n) <= Rank(m)
       IN \E reached \in BOOLEAN :
             IF reached /\ Keyed(name) # {}
             THEN /\ row' = [i \in DOMAIN row |-> IF i \in Keyed(name) THEN [row[i] EXCEPT !.deleted = TRUE]
                                                  ELSE row[i]]
                  /\ clear' = [clear EXCEPT !.targets = @ \ {name}]
             ELSE /\ clear' = Idle
                  /\ UNCHANGED row
    /\ UNCHANGED <<alone, clears, writes>>

Finish ==
    /\ clear.at = "delete" /\ clear.targets = {}
    /\ clear' = Idle
    /\ UNCHANGED <<row, alone, clears, writes>>

-----------------------------------------------------------------------------
\* Another hand writes: a row of a name that has none, or a row again, with a type and tags.
Write ==
    /\ writes < MaxWrites /\ writes' = writes + 1 /\ alone' = FALSE
    /\ \E to \in {"document", "skill"}, principle, workflow \in BOOLEAN, n \in {Names[i] : i \in DOMAIN Names} :
          LET new == [name |-> n, type |-> to, principle |-> principle, workflow |-> workflow,
                      deleted |-> FALSE]
          IN row' = IF Keyed(n) = {} THEN Append(row, new)
                    ELSE [i \in DOMAIN row |-> IF i \in Keyed(n) THEN new ELSE row[i]]
    /\ UNCHANGED <<clear, clears>>

Next ==
    \/ Start \/ ListPrinciples \/ ListSkills \/ Refuse \/ Confirm \/ DeleteNext \/ Finish
    \/ Write

Spec == Init /\ [][Next]_clearVars

-----------------------------------------------------------------------------
TypeOK ==
    /\ row \in Seq(AnyRow)
    /\ clear.at \in {"idle", "principles", "skills", "confirm", "delete"}
    /\ alone \in BOOLEAN /\ clears \in 0..MaxClears /\ writes \in 0..MaxWrites

\* Stories and tasks outlive every clear, also one of the name of a row that is cleared.
StoriesStay == \A i \in DOMAIN row : row[i].type \in {"story", "task"} => ~row[i].deleted

OfKind(r) ==
    \/ clear.kind \in {"principle", "all"} /\ r.principle /\ r.type \in {"document", "skill"}
    \/ clear.kind \in {"skill", "all"} /\ r.type = "skill"
    \/ clear.kind = "workflow" /\ r.type = "skill" /\ r.workflow

\* A clear that went through, whose lists were whole and in which no one else wrote, leaves no
\* row of its kind; a task that is tagged a principle is listed with them but not deleted.
Cleared ==
    clear.at = "delete" /\ clear.targets = {} /\ clear.whole /\ alone =>
        \A i \in DOMAIN row : OfKind(row[i]) => row[i].deleted
=============================================================================
