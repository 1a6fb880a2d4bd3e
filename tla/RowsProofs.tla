------------------------------ MODULE RowsProofs ------------------------------
(***************************************************************************)
(* The theorems about what the client does to the rows of a project: what  *)
(* a clear deletes (Clear), and the tasks that come from libraries         *)
(* (Tasks), for any rows, libraries and number of runs.                    *)
(***************************************************************************)
EXTENDS DeploymentProofs

\* A project's rows under clear (Clear).
ClearBounds ==
    /\ RowStarts \subseteq Seq(R!AnyRow)
    /\ \A rows \in RowStarts : \A i \in DOMAIN rows : rows[i].type \in {"story", "task"} => ~rows[i].deleted
    /\ Clears \in Nat /\ RowWrites \in Nat

ClearRun ==
    [at : {"idle", "principles", "skills", "confirm", "delete"}, kind : R!Kinds \cup {""},
     targets : SUBSET {RowNames[i] : i \in DOMAIN RowNames}, whole : BOOLEAN]

ClearTyped ==
    /\ record \in Seq(R!AnyRow) /\ clear \in ClearRun
    /\ alone \in BOOLEAN /\ clears \in 0..Clears /\ rowWrites \in 0..RowWrites

Principle(r) == r.principle /\ r.type \in {"document", "skill"}

\* While a clear is alone and its lists were whole, a row of its kind that is still there has its
\* name among the targets; between the two lists of a clear of everything, a principle has.
Targeted ==
    /\ clear.at = "principles" => clear.kind \in {"principle", "all"}
    /\ clear.at = "skills" => clear.kind \in {"skill", "workflow", "all"}
    /\ clear.whole /\ alone =>
          \A i \in DOMAIN record : ~record[i].deleted =>
              /\ clear.at \in {"confirm", "delete"} /\ R!OfKind(record[i]) => record[i].name \in clear.targets
              /\ clear.at = "skills" /\ clear.kind = "all" /\ Principle(record[i]) => record[i].name \in clear.targets

ClearInv == ClearTyped /\ R!StoriesStay /\ Targeted

LEMMA ClearIdle ==
    R!Idle \in ClearRun
<1>1. {} \in SUBSET {RowNames[i] : i \in DOMAIN RowNames}
  OBVIOUS
<1> QED
  BY <1>1 DEF R!Idle, ClearRun

LEMMA ClearInit ==
    ASSUME ClearBounds, R!Init
    PROVE  ClearInv
<1>1. ClearTyped
  <2>1. record \in RowStarts /\ clear = R!Idle
    BY DEF R!Init
  <2>2. record \in Seq(R!AnyRow) /\ clear \in ClearRun
    BY <2>1, ClearIdle DEF ClearBounds
  <2>3. alone \in BOOLEAN /\ clears \in 0..Clears /\ rowWrites \in 0..RowWrites
    <3>1. Clears \in Nat /\ RowWrites \in Nat
      BY DEF ClearBounds
    <3>2. alone = FALSE /\ clears = 0 /\ rowWrites = 0
      BY DEF R!Init
    <3>3. alone \in BOOLEAN
      BY <3>2
    <3>4. clears \in 0..Clears /\ rowWrites \in 0..RowWrites
      BY <3>1, <3>2
    <3> QED
      BY <3>3, <3>4
  <2> QED
    BY <2>2, <2>3 DEF ClearTyped
<1>2. R!StoriesStay
  BY DEF R!Init, R!StoriesStay, ClearBounds
<1>3. Targeted
  BY DEF R!Init, R!Idle, Targeted
<1> QED
  BY <1>1, <1>2, <1>3 DEF ClearInv

LEMMA ClearStart ==
    ASSUME ClearBounds, ClearInv, R!Start
    PROVE  ClearInv'
<1>1. PICK kind \in R!Kinds :
        clear' = [R!Idle EXCEPT !.at = IF kind \in {"principle", "all"} THEN "principles" ELSE "skills", !.kind = kind]
  BY DEF R!Start
<1>2. /\ clear' \in ClearRun /\ clear'.kind = kind
      /\ clear'.at = IF kind \in {"principle", "all"} THEN "principles" ELSE "skills"
  BY <1>1 DEF R!Idle, ClearRun
<1>3. record' = record /\ alone' \in BOOLEAN /\ clears' \in 0..Clears /\ rowWrites' = rowWrites
  BY DEF R!Start, ClearInv, ClearTyped, ClearBounds
<1>4. ClearTyped'
  BY <1>2, <1>3 DEF ClearInv, ClearTyped
<1>5. R!StoriesStay'
  BY <1>3 DEF ClearInv, R!StoriesStay
<1>6. Targeted'
  BY <1>2 DEF Targeted, R!Kinds
<1> QED
  BY <1>4, <1>5, <1>6 DEF ClearInv

\* A list that is whole has every row of its types that is still there.
LEMMA ListedWhole ==
    ASSUME ClearTyped, NEW types, NEW of, R!Page(R!Among(types)) = R!Among(types),
           NEW i \in DOMAIN record, ~record[i].deleted, record[i].type \in types, record[i].type # "story", of[i]
    PROVE  record[i].name \in R!Picked(R!Page(R!Among(types)), of)
<1>1. i \in R!Among(types)
  BY DEF R!Among
<1> QED
  BY <1>1 DEF R!Picked

LEMMA PickedNames ==
    ASSUME ClearTyped, NEW types, NEW of
    PROVE  R!Picked(R!Page(R!Among(types)), of) \subseteq {RowNames[i] : i \in DOMAIN RowNames}
<1>1. ASSUME NEW i \in R!Page(R!Among(types)) PROVE record[i].name \in {RowNames[k] : k \in DOMAIN RowNames}
  <2>1. i \in DOMAIN record
    BY DEF R!Page, R!Among
  <2>2. record[i] \in R!AnyRow
    BY <2>1 DEF ClearTyped
  <2> QED
    BY <2>2 DEF R!AnyRow
<1> QED
  BY <1>1 DEF R!Picked

LEMMA ClearListPrinciples ==
    ASSUME ClearInv, R!ListPrinciples
    PROVE  ClearInv'
<1> DEFINE of == [i \in DOMAIN record |-> record[i].principle]
           targets == R!Picked(R!Page(R!Among(R!Types)), of)
<1>1. /\ clear.at = "principles" /\ record' = record
      /\ clear' = [clear EXCEPT !.targets = targets, !.whole = R!Page(R!Among(R!Types)) = R!Among(R!Types),
                                !.at = IF clear.kind = "all" THEN "skills" ELSE "confirm"]
  BY DEF R!ListPrinciples
<1>2. targets \subseteq {RowNames[i] : i \in DOMAIN RowNames}
  BY PickedNames DEF ClearInv
<1>3. ASSUME R!Page(R!Among(R!Types)) = R!Among(R!Types), NEW i \in DOMAIN record, ~record[i].deleted,
             Principle(record[i])
      PROVE  record[i].name \in targets
  <2>1. record[i].type \in R!Types /\ record[i].type # "story" /\ of[i]
    BY <1>3 DEF Principle, R!Types
  <2> HIDE DEF of
  <2> QED
    BY <1>3, <2>1, ListedWhole DEF ClearInv
<1> HIDE DEF targets
<1>4. clear \in ClearRun
  BY DEF ClearInv, ClearTyped
<1>5. /\ clear'.targets = targets /\ clear'.kind = clear.kind
      /\ clear'.whole = (R!Page(R!Among(R!Types)) = R!Among(R!Types))
      /\ clear'.at = IF clear.kind = "all" THEN "skills" ELSE "confirm"
  BY <1>1, <1>4 DEF ClearRun
<1>6. clear' \in ClearRun
  BY <1>1, <1>2, <1>4 DEF ClearRun
<1>7. UNCHANGED <<alone, clears, rowWrites>>
  BY DEF R!ListPrinciples
<1>8. ClearTyped' /\ R!StoriesStay'
  BY <1>1, <1>6, <1>7 DEF ClearInv, ClearTyped, R!StoriesStay
<1>9. clear.kind \in {"principle", "all"}
  BY <1>1 DEF ClearInv, Targeted
<1>10. Targeted'
  <2>1. ASSUME NEW i \in DOMAIN record, clear'.whole, ~record[i].deleted,
               Principle(record[i]) \/ R!OfKind(record[i])', clear'.kind = "all" => Principle(record[i])
        PROVE  record[i].name \in targets
    <3>1. Principle(record[i])
      BY <1>1, <1>5, <1>9, <2>1 DEF R!OfKind, Principle
    <3> QED
      BY <1>3, <1>5, <2>1, <3>1
  <2>2. ASSUME NEW i \in DOMAIN record, ~record[i].deleted, clear'.whole
        PROVE  /\ clear'.at \in {"confirm", "delete"} /\ R!OfKind(record[i])' => record[i].name \in clear'.targets
               /\ clear'.at = "skills" /\ clear'.kind = "all" /\ Principle(record[i])' => record[i].name \in clear'.targets
    <3>1. clear'.at \in {"confirm", "delete"} => clear'.kind # "all"
      BY <1>5
    <3>2. Principle(record[i])' = Principle(record[i])
      BY <1>1 DEF Principle
    <3> QED
      BY <1>5, <2>1, <2>2, <3>1, <3>2
  <2>3. clear'.at \in {"skills", "confirm"} /\ (clear'.at = "skills" => clear'.kind = "all")
    BY <1>5
  <2> QED
    BY <1>1, <2>2, <2>3 DEF Targeted
<1> QED
  BY <1>8, <1>10 DEF ClearInv

LEMMA ClearListSkills ==
    ASSUME ClearInv, R!ListSkills
    PROVE  ClearInv'
<1> DEFINE page == R!Page(R!Among({"skill"}))
           of == [i \in DOMAIN record |-> clear.kind # "workflow" \/ record[i].workflow]
           picked == R!Picked(page, of)
<1>1. /\ clear.at = "skills" /\ record' = record
      /\ clear' = [clear EXCEPT !.targets = @ \cup picked, !.whole = @ /\ page = R!Among({"skill"}),
                                !.at = "confirm"]
  BY DEF R!ListSkills
<1>2. picked \subseteq {RowNames[i] : i \in DOMAIN RowNames}
  BY PickedNames DEF ClearInv
<1>3. ASSUME page = R!Among({"skill"}), NEW i \in DOMAIN record, ~record[i].deleted, record[i].type = "skill",
             clear.kind # "workflow" \/ record[i].workflow
      PROVE  record[i].name \in picked
  <2>1. of[i] /\ record[i].type \in {"skill"} /\ record[i].type # "story"
    BY <1>3
  <2> HIDE DEF of
  <2> QED
    BY <1>3, <2>1, ListedWhole DEF ClearInv
<1> HIDE DEF picked, page
<1>4. clear \in ClearRun
  BY DEF ClearInv, ClearTyped
<1>5. /\ clear'.targets = clear.targets \cup picked /\ clear'.kind = clear.kind /\ clear'.at = "confirm"
      /\ clear'.whole = (clear.whole /\ page = R!Among({"skill"}))
  BY <1>1, <1>4 DEF ClearRun
<1>6. clear' \in ClearRun
  BY <1>1, <1>2, <1>4 DEF ClearRun
<1>7. UNCHANGED <<alone, clears, rowWrites>>
  BY DEF R!ListSkills
<1>8. ClearTyped' /\ R!StoriesStay'
  BY <1>1, <1>6, <1>7 DEF ClearInv, ClearTyped, R!StoriesStay
<1>9. clear.kind \in {"skill", "workflow", "all"}
  BY <1>1 DEF ClearInv, Targeted
<1>10. ASSUME NEW i \in DOMAIN record, ~record[i].deleted, clear'.whole, alone', R!OfKind(record[i])'
       PROVE  record[i].name \in clear'.targets
  <2>1. clear.whole /\ alone /\ page = R!Among({"skill"})
    BY <1>5, <1>7, <1>10, <1>4 DEF ClearRun
  <2>2. \/ clear.kind = "all" /\ Principle(record[i])
        \/ record[i].type = "skill" /\ (clear.kind # "workflow" \/ record[i].workflow)
    BY <1>1, <1>5, <1>9, <1>10 DEF R!OfKind, Principle
  <2>3. clear.kind = "all" /\ Principle(record[i]) => record[i].name \in clear.targets
    BY <1>1, <1>10, <2>1 DEF ClearInv, Targeted
  <2> QED
    BY <1>3, <1>5, <1>10, <2>1, <2>2, <2>3
<1>11. Targeted'
  BY <1>1, <1>5, <1>10 DEF Targeted
<1> QED
  BY <1>8, <1>11 DEF ClearInv

LEMMA ClearLeaves ==
    ASSUME ClearInv, R!Refuse \/ R!Confirm \/ R!Finish
    PROVE  ClearInv'
<1>1. UNCHANGED <<record, alone, clears, rowWrites>>
  BY DEF R!Refuse, R!Confirm, R!Finish
<1>2. clear \in ClearRun
  BY DEF ClearInv, ClearTyped
<1>3. \/ clear' = R!Idle
      \/ clear.at = "confirm" /\ clear' = [clear EXCEPT !.at = "delete"]
  BY DEF R!Refuse, R!Confirm, R!Finish
<1>4. clear' \in ClearRun
  BY <1>2, <1>3, ClearIdle DEF ClearRun
<1>5. ClearTyped' /\ R!StoriesStay'
  BY <1>1, <1>4 DEF ClearInv, ClearTyped, R!StoriesStay
<1>6. CASE clear' = R!Idle
  <2>1. Targeted'
    BY <1>6 DEF R!Idle, Targeted
  <2> QED
    BY <1>5, <2>1 DEF ClearInv
<1>7. CASE clear.at = "confirm" /\ clear' = [clear EXCEPT !.at = "delete"]
  <2>1. /\ clear'.at = "delete" /\ clear'.kind = clear.kind /\ clear'.targets = clear.targets
        /\ clear'.whole = clear.whole
    BY <1>2, <1>7 DEF ClearRun
  <2>2. \A i \in DOMAIN record : R!OfKind(record[i])' = R!OfKind(record[i])
    BY <1>1, <2>1 DEF R!OfKind
  <2>3. Targeted'
    BY <1>1, <1>7, <2>1, <2>2 DEF ClearInv, Targeted
  <2> QED
    BY <1>5, <2>3 DEF ClearInv
<1> QED
  BY <1>3, <1>6, <1>7

\* The rows addressed by a name change, and none of them is a story or a task.
LEMMA KeyedChanges ==
    ASSUME ClearInv, NEW n, NEW f,
           \A i \in R!Keyed(n) : f[i] \in R!AnyRow /\ f[i].type \in {"document", "skill"},
           record' = [i \in DOMAIN record |-> IF i \in R!Keyed(n) THEN f[i] ELSE record[i]]
    PROVE  /\ record' \in Seq(R!AnyRow) /\ R!StoriesStay' /\ DOMAIN record' = DOMAIN record
           /\ \A i \in DOMAIN record : i \in R!Keyed(n) => record'[i] = f[i]
           /\ \A i \in DOMAIN record : i \notin R!Keyed(n) => record'[i] = record[i]
<1>1. record \in Seq(R!AnyRow)
  BY DEF ClearInv, ClearTyped
<1>2. PICK m \in Nat : DOMAIN record = 1..m /\ record \in [1..m -> R!AnyRow]
  BY <1>1
<1>3. record' \in [1..m -> R!AnyRow]
  BY <1>2
<1>4. record' \in Seq(R!AnyRow)
  BY <1>2, <1>3
<1>5. R!StoriesStay'
  BY DEF ClearInv, R!StoriesStay
<1> QED
  BY <1>4, <1>5

LEMMA ClearDeleteNext ==
    ASSUME ClearInv, R!DeleteNext
    PROVE  ClearInv'
<1> DEFINE n == CHOOSE x \in clear.targets : \A m \in clear.targets : R!Rank(x) <= R!Rank(m)
           f == [i \in DOMAIN record |-> [record[i] EXCEPT !.deleted = TRUE]]
<1>1. /\ clear.at = "delete"
      /\ \/ /\ record' = [i \in DOMAIN record |-> IF i \in R!Keyed(n) THEN [record[i] EXCEPT !.deleted = TRUE]
                                                  ELSE record[i]]
            /\ clear' = [clear EXCEPT !.targets = @ \ {n}]
         \/ clear' = R!Idle /\ record' = record
  BY DEF R!DeleteNext
<1>2. UNCHANGED <<alone, clears, rowWrites>>
  BY DEF R!DeleteNext
<1> HIDE DEF n
<1>3. clear \in ClearRun /\ record \in Seq(R!AnyRow)
  BY DEF ClearInv, ClearTyped
<1>4. CASE clear' = R!Idle /\ record' = record
  <2>1. ClearTyped' /\ R!StoriesStay'
    BY <1>2, <1>4, ClearIdle DEF ClearInv, ClearTyped, R!StoriesStay
  <2>2. Targeted'
    BY <1>4 DEF R!Idle, Targeted
  <2> QED
    BY <2>1, <2>2 DEF ClearInv
<1>5. CASE /\ record' = [i \in DOMAIN record |-> IF i \in R!Keyed(n) THEN [record[i] EXCEPT !.deleted = TRUE]
                                                 ELSE record[i]]
           /\ clear' = [clear EXCEPT !.targets = @ \ {n}]
  <2>1. \A i \in R!Keyed(n) : i \in DOMAIN record /\ record[i].type \in {"document", "skill"}
    BY DEF R!Keyed
  <2>2. \A i \in DOMAIN record : f[i] \in R!AnyRow /\ f[i].type = record[i].type /\ f[i].deleted
    <3> SUFFICES ASSUME NEW i \in DOMAIN record
                 PROVE  f[i] \in R!AnyRow /\ f[i].type = record[i].type /\ f[i].deleted
      OBVIOUS
    <3>1. record[i] \in R!AnyRow /\ f[i] = [record[i] EXCEPT !.deleted = TRUE]
      BY <1>3
    <3> QED
      BY <3>1 DEF R!AnyRow
  <2>3. record' = [i \in DOMAIN record |-> IF i \in R!Keyed(n) THEN f[i] ELSE record[i]]
    BY <1>5, <2>1
  <2> HIDE DEF f
  <2>4. /\ record' \in Seq(R!AnyRow) /\ R!StoriesStay' /\ DOMAIN record' = DOMAIN record
        /\ \A i \in DOMAIN record : i \in R!Keyed(n) => record'[i] = f[i]
        /\ \A i \in DOMAIN record : i \notin R!Keyed(n) => record'[i] = record[i]
    BY <2>1, <2>2, <2>3, KeyedChanges
  <2>5. /\ clear' \in ClearRun /\ clear'.at = "delete" /\ clear'.kind = clear.kind /\ clear'.whole = clear.whole
        /\ clear'.targets = clear.targets \ {n}
    BY <1>1, <1>3, <1>5 DEF ClearRun
  <2>6. ASSUME NEW i \in DOMAIN record, clear.whole, alone, ~record'[i].deleted, R!OfKind(record[i])
        PROVE  record[i].name \in clear.targets \ {n} /\ record'[i] = record[i]
    <3>1. i \notin R!Keyed(n) /\ record'[i] = record[i]
      BY <2>2, <2>4, <2>6
    <3>2. record[i].type \in {"document", "skill"}
      BY <2>6 DEF R!OfKind
    <3>3. record[i].name # n
      BY <3>1, <3>2 DEF R!Keyed
    <3>4. record[i].name \in clear.targets
      BY <1>1, <2>6, <3>1 DEF ClearInv, Targeted
    <3> QED
      BY <3>1, <3>3, <3>4
  <2>7. ASSUME NEW i \in DOMAIN record, clear.whole, alone, ~record'[i].deleted, R!OfKind(record[i])'
        PROVE  record'[i].name \in clear.targets \ {n}
    <3>1. record'[i] = record[i]
      BY <2>2, <2>4, <2>7
    <3>2. R!OfKind(record[i])
      BY <2>5, <2>7, <3>1 DEF R!OfKind
    <3> QED
      BY <2>6, <2>7, <3>1, <3>2
  <2>8. Targeted'
    BY <1>2, <2>4, <2>5, <2>7 DEF Targeted
  <2>9. ClearTyped'
    BY <1>2, <2>4, <2>5 DEF ClearInv, ClearTyped
  <2> QED
    BY <2>4, <2>8, <2>9 DEF ClearInv
<1> QED
  BY <1>1, <1>4, <1>5

LEMMA ClearWrite ==
    ASSUME ClearBounds, ClearInv, R!Write
    PROVE  ClearInv'
<1>1. PICK to \in {"document", "skill"}, principle \in BOOLEAN, workflow \in BOOLEAN,
           n \in {RowNames[i] : i \in DOMAIN RowNames} :
        record' = IF R!Keyed(n) = {}
                  THEN Append(record, [name |-> n, type |-> to, principle |-> principle, workflow |-> workflow,
                                       deleted |-> FALSE])
                  ELSE [i \in DOMAIN record |->
                          IF i \in R!Keyed(n)
                          THEN [name |-> n, type |-> to, principle |-> principle, workflow |-> workflow,
                                deleted |-> FALSE]
                          ELSE record[i]]
  BY DEF R!Write
<1> DEFINE new == [name |-> n, type |-> to, principle |-> principle, workflow |-> workflow, deleted |-> FALSE]
<1>2. new \in R!AnyRow /\ new.type \in {"document", "skill"}
  BY DEF R!AnyRow, R!Types
<1>3. record' = IF R!Keyed(n) = {} THEN Append(record, new)
                ELSE [i \in DOMAIN record |-> IF i \in R!Keyed(n) THEN new ELSE record[i]]
  BY <1>1
<1> HIDE DEF new
<1>4. record \in Seq(R!AnyRow)
  BY DEF ClearInv, ClearTyped
<1>5. record' \in Seq(R!AnyRow) /\ R!StoriesStay'
  <2>1. CASE R!Keyed(n) = {}
    <3>1. record' = Append(record, new)
      BY <1>3, <2>1
    <3>2. /\ record' \in Seq(R!AnyRow) /\ DOMAIN record' = DOMAIN record \cup {Len(record) + 1}
          /\ \A i \in DOMAIN record : record'[i] = record[i]
          /\ record'[Len(record) + 1] = new
      BY <1>2, <1>4, <3>1
    <3> QED
      BY <1>2, <3>2 DEF ClearInv, R!StoriesStay
  <2>2. CASE R!Keyed(n) # {}
    <3> DEFINE f == [i \in DOMAIN record |-> new]
    <3>1. \A i \in R!Keyed(n) : f[i] = new /\ f[i] \in R!AnyRow /\ f[i].type \in {"document", "skill"}
      BY <1>2 DEF R!Keyed
    <3>2. record' = [i \in DOMAIN record |-> IF i \in R!Keyed(n) THEN f[i] ELSE record[i]]
      BY <1>3, <2>2, <3>1
    <3> HIDE DEF f
    <3> QED
      BY <3>1, <3>2, KeyedChanges
  <2> QED
    BY <2>1, <2>2
<1>6. clear' = clear /\ alone' = FALSE /\ clears' = clears /\ rowWrites' \in 0..RowWrites
  BY DEF R!Write, ClearInv, ClearTyped, ClearBounds
<1>7. ClearTyped' /\ Targeted'
  BY <1>5, <1>6 DEF ClearInv, ClearTyped, Targeted
<1> QED
  BY <1>5, <1>7 DEF ClearInv

LEMMA ClearStep ==
    ASSUME ClearBounds, ClearInv, R!Next
    PROVE  ClearInv'
  BY ClearStart, ClearListPrinciples, ClearListSkills, ClearLeaves, ClearDeleteNext, ClearWrite DEF R!Next

LEMMA ClearStutters ==
    ASSUME ClearInv, UNCHANGED clearVars
    PROVE  ClearInv'
  BY DEF ClearInv, ClearTyped, Targeted, R!StoriesStay, R!OfKind, Principle, clearVars

LEMMA ClearSound ==
    ASSUME ClearInv
    PROVE  R!TypeOK /\ R!StoriesStay /\ R!Cleared
<1>1. R!TypeOK
  BY DEF ClearInv, ClearTyped, ClearRun, R!TypeOK
<1>2. R!Cleared
  BY DEF ClearInv, Targeted, R!Cleared
<1> QED
  BY <1>1, <1>2 DEF ClearInv

\* A clear deletes no story (StoriesStay), and one that went through alone leaves nothing of
\* its kind (Cleared), though the list it deletes by comes page by page.
THEOREM ClearsAreSound == ClearBounds => (R!Spec => [](R!TypeOK /\ R!StoriesStay /\ R!Cleared))
<1> SUFFICES ASSUME ClearBounds PROVE R!Spec => [](R!TypeOK /\ R!StoriesStay /\ R!Cleared)
  OBVIOUS
<1>1. R!Init => ClearInv
  BY ClearInit
<1>2. ClearInv /\ [R!Next]_R!clearVars => ClearInv'
  BY ClearStep, ClearStutters DEF R!clearVars, clearVars
<1>3. ClearInv => R!TypeOK /\ R!StoriesStay /\ R!Cleared
  BY ClearSound
<1> QED
  BY <1>1, <1>2, <1>3, PTL DEF R!Spec

-----------------------------------------------------------------------------
\* The tasks of a project and of its publishers (Tasks).
TaskName == L!At(TaskNames)
AnyTask ==
    [project : Publishers \cup {Consumer}, name : TaskName, from : L!Sources \cup {NoSource},
     body : 1..TaskBodies, own : 0..TaskBodies, deleted : BOOLEAN]

OnShelf == [source : L!Sources, after : Nat]

TaskBounds ==
    /\ NoSource \notin L!Sources /\ NoSource \notin Publishers /\ NoSource \notin Requests
    /\ TaskBodies \in Nat /\ 1 <= TaskBodies /\ TaskRuns \in Nat /\ TaskWrites \in Nat
    /\ \A s \in TaskStarts :
          /\ s.library \in [L!Sources -> 0..TaskBodies] /\ s.shelf \in Seq(OnShelf) /\ s.row \in Seq(AnyTask)
          /\ \A i \in DOMAIN s.row :
                /\ s.row[i].own = IF s.row[i].from = NoSource THEN s.row[i].body ELSE 0
                /\ s.row[i].project = Consumer /\ s.row[i].from # NoSource => s.row[i].name = s.row[i].from[2]
          /\ \A i, j \in DOMAIN s.row :
                /\ s.row[i].project = Consumer /\ ~s.row[i].deleted /\ s.row[j].project = Consumer /\ ~s.row[j].deleted
                /\ s.row[i].from # NoSource /\ s.row[i].from = s.row[j].from
                => i = j

TaskItem == [pub : Publishers, name : TaskName, body : 1..TaskBodies]
TaskSeen == [id : Nat, name : TaskName, from : L!Sources \cup {NoSource}]
TaskRun ==
    [at : {"idle", "names", "items", "done", "read", "send"}, kind : {"", "sync", "copy", "publish"},
     name : TaskName \cup {""}, only : Publishers \cup {NoSource}, todo : SUBSET Publishers,
     pub : Publishers \cup {NoSource}, names : SUBSET (TaskName \cup Nat), lib : SUBSET TaskItem,
     seen : SUBSET TaskSeen, body : 0..TaskBodies, quiet : BOOLEAN]

TasksTyped ==
    /\ library \in [L!Sources -> 0..TaskBodies] /\ shelf \in Seq(OnShelf) /\ task \in Seq(AnyTask) /\ taskRun \in [Requests -> TaskRun]
    /\ taskClash \in SUBSET L!Sources /\ untagged \in SUBSET (DOMAIN task)
    /\ taskCame \in 0..TaskRuns /\ taskWrites \in 0..TaskWrites /\ taskFails \in 0..1

\* A row without a source has a body its people gave it, and one with a source its name.
RowFits(row, own) ==
    /\ row.from = NoSource => row.own # 0
    /\ row.project = Consumer /\ row.from # NoSource => row.name = row.from[2]
    /\ row.own # 0 /\ own => row.from = NoSource /\ row.body = row.own

\* What a run saw: a tag stays what it was or goes, and then the row is one of those untagged.
SeenFits(t, rows, un) ==
    /\ t.id \in DOMAIN rows /\ rows[t.id].project = Consumer /\ t.name = rows[t.id].name
    /\ t.from # NoSource =>
          /\ t.from[2] = t.name /\ rows[t.id].from \in {NoSource, t.from}
          /\ rows[t.id].own = 0 \/ t.id \in un

TaskFits(k, rows, un) ==
    /\ k.at \in {"names", "items", "done"} => k.kind \in {"sync", "copy"}
    /\ k.at = "names" =>
          /\ k.names \subseteq TaskName /\ (k.names # {} => k.pub \in Publishers) /\ k.pub \notin k.todo
          /\ \A x \in k.lib : x.pub \notin k.todo /\ (x.pub = k.pub => x.name \notin k.names)
    /\ \A x, y \in k.lib : L!Source(x) = L!Source(y) => x = y
    /\ k.at \notin {"items", "done"} => k.seen = {}
    /\ \A t \in k.seen : SeenFits(t, rows, un)
    /\ k.at = "read" => k.names \subseteq DOMAIN rows
    /\ k.at \in {"read", "send"} => k.pub \in Publishers /\ k.name \in TaskName
    /\ k.at = "send" => k.body # 0

SeensAgree(runs) ==
    \A q, r \in Requests : \A s \in runs[q].seen, t \in runs[r].seen :
        s.id = t.id /\ s.from # NoSource /\ t.from # NoSource => s.from = t.from

\* A row is claimed for a source while it has its tag, or a run that is to write the source saw
\* it with that tag: then it may come to have it again.
Wants(k, s) == k.at = "items" /\ \E x \in k.lib : L!Source(x) = s
Claimed(i, s, rows, runs) ==
    /\ i \in DOMAIN rows /\ rows[i].project = Consumer /\ ~rows[i].deleted
    /\ \/ rows[i].from = s
       \/ \E r \in Requests : Wants(runs[r], s) /\ \E t \in runs[r].seen : t.id = i /\ t.from = s

\* One row is claimed for a source that did not clash, and each run that is to write it saw it.
ClaimsApart(rows, runs, clash) ==
    \A s \in L!Sources \ clash :
        /\ \A i, j \in DOMAIN rows : Claimed(i, s, rows, runs) /\ Claimed(j, s, rows, runs) => i = j
        /\ \A r \in Requests, i \in DOMAIN rows :
              Wants(runs[r], s) /\ Claimed(i, s, rows, runs) => \E t \in runs[r].seen : t.id = i

\* A row that answers an item: the library's body under its source, or for a sync a task of the
\* project's own.
Served(s, kind, rows, books) ==
    \E i \in DOMAIN rows :
        /\ rows[i].project = Consumer /\ ~rows[i].deleted
        /\ \/ rows[i].from = s /\ rows[i].body = books[s]
           \/ kind = "sync" /\ rows[i].from = NoSource /\ rows[i].name = s[2]

\* A run that no other write came between has read what the library shows, and seen what the
\* project has; what it has not in hand any more is answered.
QuietFits(k, rows, books) ==
    k.quiet =>
        /\ k.at \in {"names", "items"} => \A x \in k.lib : x.body = books[L!Source(x)]
        /\ k.at = "names" => \A n \in k.names : books[<<k.pub, n>>] # 0
        /\ k.at = "names" =>
              \A s \in L!Sources :
                  /\ books[s] # 0 /\ s[1] \notin k.todo /\ (k.kind = "copy" => s[1] = k.pub)
                  /\ s[1] = k.pub => s[2] \notin k.names
                  => \E x \in k.lib : L!Source(x) = s
        /\ k.at \in {"items", "done"} =>
              \A s \in L!Sources :
                  books[s] # 0 /\ (k.kind = "copy" => s = <<k.pub, k.name>>) =>
                      Wants(k, s) \/ Served(s, k.kind, rows, books)
        /\ k.at = "items" => \A t \in k.seen : ~rows[t.id].deleted /\ rows[t.id].from = t.from

TasksInv ==
    /\ TasksTyped /\ SeensAgree(taskRun) /\ ClaimsApart(task, taskRun, taskClash)
    /\ \A i \in DOMAIN task : RowFits(task[i], i \notin untagged)
    /\ \A r \in Requests : TaskFits(taskRun[r], task, untagged) /\ QuietFits(taskRun[r], task, L!Shown)

LEMMA TaskIdle ==
    ASSUME TaskBounds
    PROVE  /\ L!Idle \in TaskRun /\ L!Idle.at = "idle" /\ L!Idle.seen = {} /\ L!Idle.lib = {} /\ L!Idle.names = {}
           /\ L!Idle.pub = NoSource /\ L!Idle.quiet = TRUE
           /\ \A rows, un, books : TaskFits(L!Idle, rows, un) /\ QuietFits(L!Idle, rows, books)
           /\ \A s : ~Wants(L!Idle, s)
<1>1. 0 \in 0..TaskBodies
  BY DEF TaskBounds
<1>2. {} \in SUBSET (TaskName \cup Nat) /\ {} \in SUBSET TaskItem /\ {} \in SUBSET TaskSeen /\ {} \in SUBSET Publishers
  OBVIOUS
<1>3. L!Idle \in TaskRun
  BY <1>1, <1>2 DEF L!Idle, TaskRun
<1>4. /\ L!Idle.at = "idle" /\ L!Idle.seen = {} /\ L!Idle.lib = {} /\ L!Idle.names = {}
      /\ L!Idle.pub = NoSource /\ L!Idle.quiet = TRUE
  BY DEF L!Idle
<1> QED
  BY <1>3, <1>4 DEF TaskFits, QuietFits, Wants

LEMMA TasksInit ==
    ASSUME TaskBounds, L!Init
    PROVE  TasksInv
<1>1. PICK s \in TaskStarts : library = s.library /\ shelf = s.shelf /\ task = s.row
  BY DEF L!Init
<1>2. /\ taskRun = [r \in Requests |-> L!Idle] /\ taskClash = {} /\ untagged = {}
      /\ taskCame = 0 /\ taskWrites = 0 /\ taskFails = 0
  BY DEF L!Init
<1>3. library \in [L!Sources -> 0..TaskBodies] /\ shelf \in Seq(OnShelf) /\ task \in Seq(AnyTask)
  BY <1>1 DEF TaskBounds
<1>4. TasksTyped
  <2>1. taskRun \in [Requests -> TaskRun] /\ taskClash \in SUBSET L!Sources /\ untagged \in SUBSET (DOMAIN task)
    BY <1>2, TaskIdle
  <2>2. TaskRuns \in Nat /\ TaskWrites \in Nat
    BY DEF TaskBounds
  <2>3. taskCame \in 0..TaskRuns /\ taskWrites \in 0..TaskWrites /\ taskFails \in 0..1
    BY <1>2, <2>2
  <2> QED
    BY <1>3, <2>1, <2>3 DEF TasksTyped
<1>5. \A r \in Requests :
        /\ taskRun[r].seen = {} /\ (\A x : ~Wants(taskRun[r], x))
        /\ TaskFits(taskRun[r], task, untagged) /\ QuietFits(taskRun[r], task, L!Shown)
  BY <1>2, TaskIdle
<1>6. SeensAgree(taskRun)
  BY <1>5 DEF SeensAgree
<1>7. ClaimsApart(task, taskRun, taskClash)
  <2> SUFFICES ASSUME NEW x \in L!Sources, NEW i \in DOMAIN task, NEW j \in DOMAIN task,
                      Claimed(i, x, task, taskRun), Claimed(j, x, task, taskRun)
               PROVE  i = j
    BY <1>5 DEF ClaimsApart
  <2>1. /\ task[i].project = Consumer /\ ~task[i].deleted /\ task[i].from = x
        /\ task[j].project = Consumer /\ ~task[j].deleted /\ task[j].from = x
    BY <1>5 DEF Claimed
  <2>2. x # NoSource
    BY DEF TaskBounds
  <2> QED
    BY <1>1, <2>1, <2>2 DEF TaskBounds
<1>8. ASSUME NEW i \in DOMAIN task PROVE RowFits(task[i], i \notin untagged)
  <2>1. /\ task[i].own = IF task[i].from = NoSource THEN task[i].body ELSE 0
        /\ task[i].project = Consumer /\ task[i].from # NoSource => task[i].name = task[i].from[2]
    BY <1>1 DEF TaskBounds
  <2>2. task[i].body \in 1..TaskBodies
    <3>1. task[i] \in AnyTask
      BY <1>3
    <3> QED
      BY <3>1 DEF AnyTask
  <2>3. task[i].body # 0
    BY <2>2
  <2> QED
    BY <2>1, <2>3 DEF RowFits
<1> QED
  BY <1>4, <1>5, <1>6, <1>7, <1>8 DEF TasksInv

-----------------------------------------------------------------------------
\* Claims that no step adds to stay apart: each run that is to write a source was to before, and
\* saw the same; or it has seen every row that is claimed.
LEMMA ClaimsKept ==
    ASSUME NEW rows, NEW runs, NEW clash, NEW rows2, NEW runs2, NEW clash2,
           ClaimsApart(rows, runs, clash), clash \subseteq clash2, DOMAIN rows \subseteq DOMAIN rows2,
           \A s \in L!Sources \ clash2 : \A i \in DOMAIN rows2 :
               Claimed(i, s, rows2, runs2) => i \in DOMAIN rows /\ Claimed(i, s, rows, runs),
           \A s \in L!Sources \ clash2 : \A r \in Requests : Wants(runs2[r], s) =>
               \/ Wants(runs[r], s) /\ runs2[r].seen = runs[r].seen
               \/ \A i \in DOMAIN rows : Claimed(i, s, rows, runs) => \E t \in runs2[r].seen : t.id = i
    PROVE  ClaimsApart(rows2, runs2, clash2)
<1> SUFFICES ASSUME NEW s \in L!Sources \ clash2
             PROVE  /\ \A i, j \in DOMAIN rows2 : Claimed(i, s, rows2, runs2) /\ Claimed(j, s, rows2, runs2) => i = j
                    /\ \A r \in Requests, i \in DOMAIN rows2 :
                          Wants(runs2[r], s) /\ Claimed(i, s, rows2, runs2) => \E t \in runs2[r].seen : t.id = i
  BY DEF ClaimsApart
<1>1. s \in L!Sources \ clash
  OBVIOUS
<1>2. \A i, j \in DOMAIN rows2 : Claimed(i, s, rows2, runs2) /\ Claimed(j, s, rows2, runs2) => i = j
  BY <1>1 DEF ClaimsApart
<1>3. ASSUME NEW r \in Requests, NEW i \in DOMAIN rows2, Wants(runs2[r], s), Claimed(i, s, rows2, runs2)
      PROVE  \E t \in runs2[r].seen : t.id = i
  <2>1. i \in DOMAIN rows /\ Claimed(i, s, rows, runs)
    BY <1>3
  <2>2. CASE Wants(runs[r], s) /\ runs2[r].seen = runs[r].seen
    <3>1. \E t \in runs[r].seen : t.id = i
      BY <1>1, <2>1, <2>2 DEF ClaimsApart
    <3> QED
      BY <2>2, <3>1
  <2>3. CASE \A j \in DOMAIN rows : Claimed(j, s, rows, runs) => \E t \in runs2[r].seen : t.id = j
    BY <2>1, <2>3
  <2> QED
    BY <1>3, <2>2, <2>3
<1> QED
  BY <1>2, <1>3

\* What a list has of the rows: those its page reaches.
LEMMA ListedIs ==
    ASSUME TaskBounds, TasksInv, NEW project
    PROVE  /\ L!Listed(project) \in SUBSET TaskSeen
           /\ \A t \in L!Listed(project) :
                 /\ t.id \in DOMAIN task /\ task[t.id].project = project /\ ~task[t.id].deleted
                 /\ t.name = task[t.id].name /\ t.from = task[t.id].from
           /\ \A i \in L!Stock(project) : L!Reaches(project, i) => \E t \in L!Listed(project) : t.id = i
<1>1. task \in Seq(AnyTask)
  BY DEF TasksInv, TasksTyped
<1>2. ASSUME NEW t \in L!Listed(project)
      PROVE  /\ t \in TaskSeen /\ t.id \in DOMAIN task /\ task[t.id].project = project /\ ~task[t.id].deleted
             /\ t.name = task[t.id].name /\ t.from = task[t.id].from
  <2>1. PICK i \in L!Stock(project) : t = [id |-> i, name |-> task[i].name, from |-> task[i].from]
    BY DEF L!Listed
  <2>2. i \in DOMAIN task /\ task[i].project = project /\ ~task[i].deleted
    BY DEF L!Stock
  <2>3. task[i] \in AnyTask /\ i \in Nat
    BY <1>1, <2>2
  <2> QED
    BY <2>1, <2>2, <2>3 DEF AnyTask, TaskSeen
<1>3. ASSUME NEW i \in L!Stock(project), L!Reaches(project, i)
      PROVE  \E t \in L!Listed(project) : t.id = i
  <2>1. [id |-> i, name |-> task[i].name, from |-> task[i].from] \in L!Listed(project)
    BY <1>3 DEF L!Listed
  <2> QED
    BY <2>1
<1> QED
  BY <1>2, <1>3

\* A row that is claimed for a source is on the list of the project, or the source is one the
\* page cuts off.
LEMMA ListReaches ==
    ASSUME TaskBounds, TasksInv, NEW s \in L!Sources \ L!CutOff, NEW i, Claimed(i, s, task, taskRun)
    PROVE  \E t \in L!Listed(Consumer) : t.id = i
<1>1. i \in L!Stock(Consumer)
  BY DEF Claimed, L!Stock
<1>2. task[i].from = s \/ \E r \in Requests : \E t \in taskRun[r].seen : t.id = i /\ t.from = s
  BY DEF Claimed
<1>3. L!Reaches(Consumer, i)
  BY <1>1, <1>2 DEF L!CutOff
<1> QED
  BY <1>1, <1>3, ListedIs

\* What the lists show of the library is what it holds.
LEMMA ShownIs ==
    ASSUME NEW s \in L!Sources
    PROVE  /\ L!Shown[s] # 0 => L!Shown[s] = library[s]
           /\ s \in L!Page({s[1]}) <=> L!Shown[s] # 0
<1>1. L!Shown[s] = IF s \in L!Page({s[1]}) THEN library[s] ELSE 0
  BY DEF L!Shown
<1>2. s \in L!Page({s[1]}) => library[s] # 0
  BY DEF L!Page, L!Shelved
<1> QED
  BY <1>1, <1>2

LEMMA ShelfStays ==
    ASSUME TasksInv, UNCHANGED <<library, shelf>>
    PROVE  library' \in [L!Sources -> 0..TaskBodies] /\ shelf' \in Seq(OnShelf) /\ L!Shown' = L!Shown
<1>1. library \in [L!Sources -> 0..TaskBodies] /\ shelf \in Seq(OnShelf)
  BY DEF TasksInv, TasksTyped
<1>2. L!Shown' = L!Shown
  BY DEF L!Shown, L!Page, L!Shelved
<1> QED
  BY <1>1, <1>2

LEMMA TaskRunIs ==
    ASSUME TasksInv, NEW r \in Requests
    PROVE  /\ taskRun[r] \in TaskRun /\ TaskFits(taskRun[r], task, untagged) /\ QuietFits(taskRun[r], task, L!Shown)
           /\ library \in [L!Sources -> 0..TaskBodies] /\ task \in Seq(AnyTask) /\ taskRun \in [Requests -> TaskRun]
           /\ taskCame \in 0..TaskRuns /\ taskWrites \in 0..TaskWrites /\ taskFails \in 0..1
  BY DEF TasksInv, TasksTyped

LEMMA TaskTyping ==
    ASSUME TasksInv
    PROVE  /\ library \in [L!Sources -> 0..TaskBodies] /\ task \in Seq(AnyTask) /\ taskRun \in [Requests -> TaskRun]
           /\ taskCame \in 0..TaskRuns /\ taskWrites \in 0..TaskWrites /\ taskFails \in 0..1
           /\ taskClash \in SUBSET L!Sources /\ untagged \in SUBSET (DOMAIN task) /\ shelf \in Seq(OnShelf)
  BY DEF TasksInv, TasksTyped

\* A step of one run that writes nothing: it goes on with what it saw, or sees the page of the
\* project's rows.
LEMMA TaskReads ==
    ASSUME TaskBounds, TasksInv, NEW r \in Requests, NEW k \in TaskRun, taskRun' = [taskRun EXCEPT ![r] = k],
           UNCHANGED <<library, shelf, task, untagged, taskWrites>>,
           taskClash \subseteq taskClash', taskClash' \in SUBSET L!Sources,
           taskCame' \in 0..TaskRuns, taskFails' \in 0..1,
           TaskFits(k, task, untagged), QuietFits(k, task, L!Shown),
           k.seen = {} \/ k.seen = taskRun[r].seen \/ k.seen = L!Listed(Consumer),
           \A s \in L!Sources : Wants(k, s) =>
               \/ Wants(taskRun[r], s) /\ k.seen = taskRun[r].seen
               \/ k.seen = L!Listed(Consumer) /\ L!CutOff \subseteq taskClash'
    PROVE  TasksInv'
<1>1. taskRun \in [Requests -> TaskRun] /\ task \in Seq(AnyTask)
  BY TaskRunIs
<1>2. PICK runs \in [Requests -> TaskRun] : runs = [taskRun EXCEPT ![r] = k]
  BY <1>1
<1>3. taskRun' = runs /\ runs[r] = k /\ \A q \in Requests \ {r} : runs[q] = taskRun[q]
  BY <1>1, <1>2
<1>4. TasksTyped'
  BY <1>3 DEF TasksInv, TasksTyped
<1>5. ASSUME NEW t \in k.seen
      PROVE  \/ t \in taskRun[r].seen
             \/ t \in L!Listed(Consumer) /\ t.id \in DOMAIN task /\ task[t.id].from = t.from
  BY <1>5, ListedIs
<1>6. SeensAgree(runs)
  <2> SUFFICES ASSUME NEW p \in Requests, NEW q \in Requests, NEW s \in runs[p].seen, NEW t \in runs[q].seen,
                      s.id = t.id, s.from # NoSource, t.from # NoSource
               PROVE  s.from = t.from
    BY DEF SeensAgree
  <2>1. \/ \E b \in Requests : s \in taskRun[b].seen
        \/ task[s.id].from = s.from
    BY <1>3, <1>5
  <2>2. \/ \E b \in Requests : t \in taskRun[b].seen
        \/ task[t.id].from = t.from
    BY <1>3, <1>5
  <2>3. (\E b \in Requests : s \in taskRun[b].seen) => task[s.id].from \in {NoSource, s.from}
    BY TaskRunIs DEF TaskFits, SeenFits
  <2>4. (\E b \in Requests : t \in taskRun[b].seen) => task[t.id].from \in {NoSource, t.from}
    BY TaskRunIs DEF TaskFits, SeenFits
  <2>5. (\E b \in Requests : s \in taskRun[b].seen) /\ (\E b \in Requests : t \in taskRun[b].seen) => s.from = t.from
    BY DEF TasksInv, SeensAgree
  <2> QED
    BY <2>1, <2>2, <2>3, <2>4, <2>5
<1>7. ClaimsApart(task, runs, taskClash')
  <2>1. ASSUME NEW s \in L!Sources, NEW i \in DOMAIN task, Claimed(i, s, task, runs)
        PROVE  Claimed(i, s, task, taskRun)
    <3>1. task[i].project = Consumer /\ ~task[i].deleted
      BY <2>1 DEF Claimed
    <3>2. ASSUME NEW q \in Requests, Wants(runs[q], s), NEW t \in runs[q].seen, t.id = i, t.from = s, task[i].from # s
          PROVE  Claimed(i, s, task, taskRun)
      <4>1. CASE q # r
        BY <1>3, <3>1, <3>2, <4>1 DEF Claimed
      <4>2. CASE q = r
        <5>1. t \in taskRun[r].seen
          BY <1>3, <1>5, <3>2, <4>2
        <5>2. k.seen # L!Listed(Consumer)
          BY <1>3, <3>2, <4>2, ListedIs
        <5>3. Wants(taskRun[r], s)
          BY <1>3, <3>2, <4>2, <5>2
        <5> QED
          BY <3>1, <3>2, <5>1, <5>3 DEF Claimed
      <4> QED
        BY <4>1, <4>2
    <3>3. CASE task[i].from = s
      BY <3>1, <3>3 DEF Claimed
    <3>4. CASE task[i].from # s
      <4>1. \E q \in Requests : Wants(runs[q], s) /\ \E t \in runs[q].seen : t.id = i /\ t.from = s
        BY <2>1, <3>4 DEF Claimed
      <4> QED
        BY <3>2, <3>4, <4>1
    <3> QED
      BY <3>3, <3>4
  <2>2. ASSUME NEW s \in L!Sources \ taskClash', NEW q \in Requests, Wants(runs[q], s)
        PROVE  \/ Wants(taskRun[q], s) /\ runs[q].seen = taskRun[q].seen
               \/ \A i \in DOMAIN task : Claimed(i, s, task, taskRun) => \E t \in runs[q].seen : t.id = i
    <3>1. CASE q # r
      BY <1>3, <2>2, <3>1
    <3>2. CASE q = r
      <4>1. CASE k.seen = L!Listed(Consumer) /\ L!CutOff \subseteq taskClash'
        <5>1. s \in L!Sources \ L!CutOff
          BY <4>1
        <5> QED
          BY <1>3, <3>2, <4>1, <5>1, ListReaches
      <4>2. CASE Wants(taskRun[r], s) /\ k.seen = taskRun[r].seen
        BY <1>3, <3>2, <4>2
      <4> QED
        BY <1>3, <2>2, <3>2, <4>1, <4>2
    <3> QED
      BY <3>1, <3>2
  <2>3. ClaimsApart(task, taskRun, taskClash)
    BY DEF TasksInv
  <2> QED
    BY <2>1, <2>2, <2>3, ClaimsKept
<1>8. ASSUME NEW q \in Requests PROVE TaskFits(runs[q], task, untagged) /\ QuietFits(runs[q], task, L!Shown)
  BY <1>3, TaskRunIs
<1>9. \A i \in DOMAIN task : RowFits(task[i], i \notin untagged)
  BY DEF TasksInv
<1> HIDE DEF TasksInv
<1>10. UNCHANGED <<task, untagged>> /\ L!Shown' = L!Shown
  BY ShelfStays
<1>11. SeensAgree(taskRun') /\ ClaimsApart(task', taskRun', taskClash')
  BY <1>3, <1>6, <1>7, <1>10
<1>12. \A q \in Requests : TaskFits(taskRun'[q], task', untagged') /\ QuietFits(taskRun'[q], task', L!Shown')
  BY <1>3, <1>8, <1>10
<1>13. \A i \in DOMAIN task' : RowFits(task'[i], i \notin untagged')
  BY <1>9, <1>10
<1> QED
  BY <1>4, <1>11, <1>12, <1>13 DEF TasksInv

LEMMA TaskTurns ==
    ASSUME TaskBounds, TasksInv, NEW r \in Requests, NEW k \in TaskRun, taskRun' = [taskRun EXCEPT ![r] = k],
           UNCHANGED <<library, shelf, task, taskClash, untagged, taskWrites>>,
           taskCame' \in 0..TaskRuns, taskFails' \in 0..1,
           TaskFits(k, task, untagged), QuietFits(k, task, L!Shown),
           k.seen = {} \/ k.seen = taskRun[r].seen,
           \A s \in L!Sources : Wants(k, s) => Wants(taskRun[r], s) /\ k.seen = taskRun[r].seen
    PROVE  TasksInv'
<1>1. taskClash \subseteq taskClash' /\ taskClash' \in SUBSET L!Sources
  BY TaskTyping
<1> HIDE DEF TasksInv
<1> QED
  BY <1>1, TaskReads

-----------------------------------------------------------------------------
\* The steps that write nothing.
LEMMA TaskCount ==
    ASSUME NEW n \in Nat, NEW c \in 0..n, c < n
    PROVE  c + 1 \in 0..n
  OBVIOUS

LEMMA TaskStart ==
    ASSUME TaskBounds, TasksInv, NEW r \in Requests, L!Sync(r) \/ L!Copy(r)
    PROVE  TasksInv'
<1>1. PICK kind \in {"sync", "copy"}, name \in TaskName \cup {""}, only \in Publishers \cup {NoSource},
           todo \in SUBSET Publishers :
        /\ taskRun' = [taskRun EXCEPT ![r] = [L!Idle EXCEPT !.at = "names", !.kind = kind, !.name = name,
                                                            !.only = only, !.todo = todo]]
        /\ kind = "sync" => todo = Publishers
        /\ taskCame' = taskCame + 1 /\ taskCame < TaskRuns
        /\ UNCHANGED <<library, shelf, task, taskClash, untagged, taskWrites, taskFails>>
  <2>1. CASE L!Sync(r)
    <3>1. L!Start(r, "sync", "", NoSource, Publishers)
      BY <2>1 DEF L!Sync
    <3>2. /\ taskRun' = [taskRun EXCEPT ![r] = [L!Idle EXCEPT !.at = "names", !.kind = "sync", !.name = "",
                                                              !.only = NoSource, !.todo = Publishers]]
          /\ taskCame' = taskCame + 1 /\ taskCame < TaskRuns
          /\ UNCHANGED <<library, shelf, task, taskClash, untagged, taskWrites, taskFails>>
      BY <3>1 DEF L!Start, L!Set, L!Kept
    <3>3. "" \in TaskName \cup {""} /\ NoSource \in Publishers \cup {NoSource} /\ Publishers \in SUBSET Publishers
      OBVIOUS
    <3>4. "sync" \in {"sync", "copy"}
      OBVIOUS
    <3> QED
      BY <3>2, <3>3, <3>4
  <2>2. CASE L!Copy(r)
    <3>1. PICK name \in TaskName, from \in Publishers \cup {NoSource} :
            L!Start(r, "copy", name, from, L!Offered(name, from))
      BY <2>2 DEF L!Copy, TaskName
    <3>2. L!Offered(name, from) \in SUBSET Publishers
      BY DEF L!Offered
    <3>3. /\ taskRun' = [taskRun EXCEPT ![r] = [L!Idle EXCEPT !.at = "names", !.kind = "copy", !.name = name,
                                                              !.only = from, !.todo = L!Offered(name, from)]]
          /\ taskCame' = taskCame + 1 /\ taskCame < TaskRuns
          /\ UNCHANGED <<library, shelf, task, taskClash, untagged, taskWrites, taskFails>>
      BY <3>1 DEF L!Start, L!Set, L!Kept
    <3>4. "copy" \in {"sync", "copy"} /\ "copy" # "sync" /\ name \in TaskName \cup {""}
      OBVIOUS
    <3> QED
      BY <3>2, <3>3, <3>4
  <2> QED
    BY <2>1, <2>2
<1> DEFINE k == [L!Idle EXCEPT !.at = "names", !.kind = kind, !.name = name, !.only = only, !.todo = todo]
<1>2. k \in TaskRun
  BY TaskIdle DEF TaskRun
<1>3. /\ k.at = "names" /\ k.kind = kind /\ k.todo = todo /\ k.seen = {} /\ k.lib = {} /\ k.names = {}
      /\ k.pub = NoSource
  BY DEF L!Idle
<1>4. taskRun' = [taskRun EXCEPT ![r] = k]
  BY <1>1
<1> HIDE DEF k
<1>5. TaskFits(k, task, untagged) /\ ~Wants(k, NoSource) /\ \A s : ~Wants(k, s)
  BY <1>3 DEF TaskFits, TaskBounds, Wants
<1>6. \A s \in L!Sources : s[1] \in Publishers
  BY DEF L!Sources
<1>7. QuietFits(k, task, L!Shown)
  BY <1>1, <1>3, <1>6 DEF QuietFits, TaskBounds
<1>8. taskCame' \in 0..TaskRuns /\ taskFails' \in 0..1
  <2>1. taskCame \in 0..TaskRuns /\ taskFails \in 0..1 /\ TaskRuns \in Nat
    BY TaskRunIs DEF TaskBounds
  <2>2. taskCame' = taskCame + 1 /\ taskCame < TaskRuns
    BY <1>1
  <2>3. taskCame' \in 0..TaskRuns
    BY <2>1, <2>2, TaskCount
  <2>4. taskFails' = taskFails
    BY <1>1
  <2> QED
    BY <2>1, <2>3, <2>4
<1> QED
  BY <1>1, <1>2, <1>3, <1>4, <1>5, <1>7, <1>8, TaskTurns

\* A run ends without a write.
LEMMA TaskEnds ==
    ASSUME TaskBounds, TasksInv, NEW r \in Requests, taskRun' = [taskRun EXCEPT ![r] = L!Idle],
           UNCHANGED <<library, shelf, task, taskClash, untagged, taskWrites, taskCame>>, taskFails' \in 0..1
    PROVE  TasksInv'
<1>1. taskCame' \in 0..TaskRuns
  BY TaskRunIs
<1> QED
  BY <1>1, TaskIdle, TaskTurns

LEMMA TaskStops ==
    ASSUME TaskBounds, TasksInv, NEW r \in Requests, L!Finish(r) \/ L!RequestFails(r)
    PROVE  TasksInv'
<1>1. /\ taskRun' = [taskRun EXCEPT ![r] = L!Idle]
      /\ UNCHANGED <<library, shelf, task, taskClash, untagged, taskWrites, taskCame>>
  BY DEF L!Finish, L!RequestFails, L!Set, L!Kept
<1>2. taskFails' \in 0..1
  <2>1. taskFails \in 0..1
    BY TaskRunIs
  <2> QED
    BY <2>1 DEF L!Finish, L!RequestFails
<1> QED
  BY <1>1, <1>2, TaskEnds

LEMMA TaskListLibrary ==
    ASSUME TaskBounds, TasksInv, NEW r \in Requests, L!ListLibrary(r)
    PROVE  TasksInv'
<1>1. PICK p \in taskRun[r].todo :
        taskRun' = [taskRun EXCEPT ![r] = [taskRun[r] EXCEPT !.pub = p, !.todo = @ \ {p},
                                           !.names = {n \in TaskName : <<p, n>> \in L!Page({p})}]]
  BY Zenon DEF L!ListLibrary, L!Set, TaskName
<1>2. /\ taskRun[r].at = "names" /\ taskRun[r].names = {}
      /\ UNCHANGED <<library, shelf, task, taskClash, untagged, taskWrites, taskCame, taskFails>>
  BY DEF L!ListLibrary, L!Kept
<1>3. /\ taskRun[r] \in TaskRun /\ TaskFits(taskRun[r], task, untagged) /\ QuietFits(taskRun[r], task, L!Shown)
      /\ taskCame \in 0..TaskRuns /\ taskFails \in 0..1
  BY TaskRunIs
<1>4. PICK c \in TaskRun : c = taskRun[r]
  BY <1>3
<1> DEFINE names == {n \in TaskName : <<p, n>> \in L!Page({p})}
           k == [c EXCEPT !.pub = p, !.todo = @ \ {p}, !.names = names]
<1>5. p \in Publishers /\ p \in c.todo
  BY <1>4 DEF TaskRun
<1>6. names \in SUBSET (TaskName \cup Nat)
  OBVIOUS
<1>7. \A n \in TaskName : n \in names <=> L!Shown[<<p, n>>] # 0
  <2>1. ASSUME NEW n \in TaskName PROVE <<p, n>> \in L!Sources /\ <<p, n>>[1] = p
    BY <1>5 DEF L!Sources, TaskName
  <2> QED
    BY <2>1, ShownIs
<1>8. names \subseteq TaskName
  OBVIOUS
<1>9. taskRun' = [taskRun EXCEPT ![r] = k]
  BY <1>1, <1>4
<1> HIDE DEF names
<1>10. /\ k \in TaskRun /\ k.at = c.at /\ k.kind = c.kind /\ k.pub = p /\ k.todo = c.todo \ {p} /\ k.names = names
       /\ k.lib = c.lib /\ k.seen = c.seen /\ k.quiet = c.quiet
  BY <1>5, <1>6 DEF TaskRun
<1> HIDE DEF k
<1>11. TaskFits(k, task, untagged)
  BY <1>2, <1>3, <1>4, <1>5, <1>8, <1>10 DEF TaskFits
<1>12. QuietFits(k, task, L!Shown)
  <2> SUFFICES ASSUME c.quiet PROVE QuietFits(k, task, L!Shown)
    BY <1>10 DEF QuietFits
  <2>1. \A x \in k.lib : x.body = L!Shown[L!Source(x)]
    BY <1>2, <1>3, <1>4, <1>10 DEF QuietFits
  <2>2. ASSUME NEW s \in L!Sources, L!Shown[s] # 0, s[1] \notin k.todo, k.kind = "copy" => s[1] = k.pub,
               s[1] = k.pub => s[2] \notin k.names
        PROVE  \E x \in k.lib : L!Source(x) = s
    <3>1. s[2] \in TaskName /\ s = <<s[1], s[2]>>
      BY DEF L!Sources, TaskName
    <3>2. s[1] # p
      BY <1>7, <1>10, <2>2, <3>1
    <3>3. s[1] \notin c.todo /\ c.kind # "copy"
      BY <1>10, <2>2, <3>2
    <3> QED
      BY <1>2, <1>3, <1>4, <1>10, <2>2, <3>3 DEF QuietFits
  <2> QED
    BY <1>2, <1>4, <1>7, <1>8, <1>10, <2>1, <2>2 DEF QuietFits
<1>13. k.seen = taskRun[r].seen /\ \A s : ~Wants(k, s)
  BY <1>2, <1>4, <1>10 DEF Wants
<1> QED
  BY <1>2, <1>3, <1>9, <1>10, <1>11, <1>12, <1>13, TaskTurns

LEMMA TaskGetBody ==
    ASSUME TaskBounds, TasksInv, NEW r \in Requests, L!GetBody(r)
    PROVE  TasksInv'
<1>1. PICK n \in taskRun[r].names : \E body :
        /\ body = library[<<taskRun[r].pub, n>>]
        /\ taskRun' = [taskRun EXCEPT ![r] =
                IF body = 0 THEN L!Idle
                ELSE [taskRun[r] EXCEPT !.names = @ \ {n},
                                        !.lib = @ \cup {[pub |-> taskRun[r].pub, name |-> n, body |-> body]}]]
  BY DEF L!GetBody, L!Set
<1>2. /\ taskRun[r].at = "names"
      /\ UNCHANGED <<library, shelf, task, taskClash, untagged, taskWrites, taskCame, taskFails>>
  BY DEF L!GetBody, L!Kept
<1>3. /\ taskRun[r] \in TaskRun /\ TaskFits(taskRun[r], task, untagged) /\ QuietFits(taskRun[r], task, L!Shown)
      /\ taskCame \in 0..TaskRuns /\ taskFails \in 0..1 /\ library \in [L!Sources -> 0..TaskBodies]
  BY TaskRunIs
<1>4. PICK c \in TaskRun : c = taskRun[r]
  BY <1>3
<1>5. PICK body :
        /\ body = library[<<c.pub, n>>]
        /\ taskRun' = [taskRun EXCEPT ![r] =
                IF body = 0 THEN L!Idle
                ELSE [c EXCEPT !.names = @ \ {n}, !.lib = @ \cup {[pub |-> c.pub, name |-> n, body |-> body]}]]
  BY <1>1, <1>4
<1>6. c.pub \in Publishers /\ n \in TaskName /\ n \in c.names
  BY <1>2, <1>3, <1>4 DEF TaskFits
<1>7. <<c.pub, n>> \in L!Sources
  BY <1>6 DEF L!Sources, TaskName
<1>8. body \in 0..TaskBodies
  BY <1>3, <1>5, <1>7
<1>9. CASE body = 0
  <2>1. taskRun' = [taskRun EXCEPT ![r] = L!Idle]
    BY <1>5, <1>9
  <2> QED
    BY <1>2, <1>3, <2>1, TaskEnds
<1>10. CASE body # 0
  <2> DEFINE item == [pub |-> c.pub, name |-> n, body |-> body]
             k == [c EXCEPT !.names = @ \ {n}, !.lib = @ \cup {item}]
  <2>1. taskRun' = [taskRun EXCEPT ![r] = k]
    BY <1>5, <1>10
  <2>2. body \in 1..TaskBodies
    BY <1>8, <1>10
  <2>3. /\ item \in TaskItem /\ item.pub = c.pub /\ item.name = n /\ item.body = body
        /\ L!Source(item) = <<c.pub, n>>
    BY <1>6, <2>2 DEF TaskItem, L!Source
  <2> HIDE DEF item
  <2>4. /\ k \in TaskRun /\ k.at = c.at /\ k.kind = c.kind /\ k.pub = c.pub /\ k.todo = c.todo /\ k.names = c.names \ {n}
        /\ k.lib = c.lib \cup {item} /\ k.seen = c.seen /\ k.quiet = c.quiet
    BY <2>3 DEF TaskRun
  <2> HIDE DEF k
  <2>5. \A x \in c.lib : L!Source(x) # <<c.pub, n>>
    BY <1>2, <1>3, <1>4, <1>6 DEF TaskFits, L!Source
  <2>6. TaskFits(k, task, untagged)
    <3>1. \A x, y \in k.lib : L!Source(x) = L!Source(y) => x = y
      BY <1>3, <1>4, <2>3, <2>4, <2>5 DEF TaskFits
    <3>2. \A x \in k.lib : x.pub \notin k.todo /\ (x.pub = k.pub => x.name \notin k.names)
      BY <1>2, <1>3, <1>4, <2>3, <2>4 DEF TaskFits
    <3> QED
      BY <1>2, <1>3, <1>4, <1>6, <2>4, <3>1, <3>2 DEF TaskFits
  <2>7. QuietFits(k, task, L!Shown)
    <3> SUFFICES ASSUME c.quiet PROVE QuietFits(k, task, L!Shown)
      BY <2>4 DEF QuietFits
    <3>0. L!Shown[<<c.pub, n>>] # 0
      BY <1>2, <1>3, <1>4, <1>6 DEF QuietFits
    <3>1. \A x \in k.lib : x.body = L!Shown[L!Source(x)]
      <4>1. \A x \in c.lib : x.body = L!Shown[L!Source(x)]
        BY <1>2, <1>3, <1>4 DEF QuietFits
      <4>2. L!Shown[<<c.pub, n>>] = library[<<c.pub, n>>]
        BY <1>7, <3>0, ShownIs
      <4>3. item.body = L!Shown[L!Source(item)]
        BY <1>5, <2>3, <4>2
      <4> QED
        BY <2>4, <4>1, <4>3
    <3>4. \A m \in k.names : L!Shown[<<k.pub, m>>] # 0
      BY <1>2, <1>3, <1>4, <2>4 DEF QuietFits
    <3>2. ASSUME NEW s \in L!Sources, L!Shown[s] # 0, s[1] \notin k.todo, k.kind = "copy" => s[1] = k.pub,
                 s[1] = k.pub => s[2] \notin k.names
          PROVE  \E x \in k.lib : L!Source(x) = s
      <4>1. CASE s = <<c.pub, n>>
        BY <2>3, <2>4, <4>1
      <4>2. CASE s # <<c.pub, n>>
        <5>1. s = <<s[1], s[2]>>
          BY DEF L!Sources
        <5>2. s[1] = c.pub => s[2] \notin c.names
          BY <2>4, <3>2, <4>2, <5>1
        <5>3. \E x \in c.lib : L!Source(x) = s
          BY <1>2, <1>3, <1>4, <2>4, <3>2, <5>2 DEF QuietFits
        <5> QED
          BY <2>4, <5>3
      <4> QED
        BY <4>1, <4>2
    <3> QED
      BY <1>2, <1>4, <2>4, <3>1, <3>2, <3>4 DEF QuietFits
  <2>8. k.seen = taskRun[r].seen /\ \A s : ~Wants(k, s)
    BY <1>2, <1>4, <2>4 DEF Wants
  <2> QED
    BY <1>2, <1>3, <2>1, <2>4, <2>6, <2>7, <2>8, TaskTurns
<1> QED
  BY <1>9, <1>10

LEMMA TaskListRows ==
    ASSUME TaskBounds, TasksInv, NEW r \in Requests, L!ListRows(r)
    PROVE  TasksInv'
<1> DEFINE wanted == L!Wanted(taskRun[r])
<1>1. /\ taskRun[r].at = "names" /\ taskRun[r].names = {} /\ taskRun[r].todo = {}
      /\ taskRun' = [taskRun EXCEPT ![r] = IF wanted = {} THEN L!Idle
                        ELSE [taskRun[r] EXCEPT !.at = "items", !.lib = wanted, !.seen = L!Listed(Consumer)]]
      /\ taskClash' = IF wanted = {} THEN taskClash ELSE taskClash \cup L!CutOff
      /\ UNCHANGED <<library, shelf, task, untagged, taskWrites, taskCame, taskFails>>
  BY DEF L!ListRows, L!Set
<1>2. /\ taskRun[r] \in TaskRun /\ TaskFits(taskRun[r], task, untagged) /\ QuietFits(taskRun[r], task, L!Shown)
      /\ taskCame \in 0..TaskRuns /\ taskFails \in 0..1 /\ task \in Seq(AnyTask)
  BY TaskRunIs
<1>3. PICK c \in TaskRun : c = taskRun[r]
  BY <1>2
<1>4. wanted = {x \in c.lib : c.kind = "sync" \/ x.name = c.name}
  BY <1>3 DEF L!Wanted
<1> HIDE DEF wanted
<1>5. CASE wanted = {}
  <2>1. taskRun' = [taskRun EXCEPT ![r] = L!Idle]
    BY <1>1, <1>5
  <2> QED
    BY <1>1, <1>2, <1>5, <2>1, TaskEnds
<1>6. CASE wanted # {}
  <2> DEFINE k == [c EXCEPT !.at = "items", !.lib = wanted, !.seen = L!Listed(Consumer)]
  <2>1. taskRun' = [taskRun EXCEPT ![r] = k]
    BY <1>1, <1>3, <1>6
  <2>2. L!Listed(Consumer) \in SUBSET TaskSeen /\ wanted \in SUBSET TaskItem
    BY <1>4, ListedIs DEF TaskRun
  <2>3. /\ k \in TaskRun /\ k.at = "items" /\ k.kind = c.kind /\ k.pub = c.pub /\ k.name = c.name
        /\ k.lib = wanted /\ k.seen = L!Listed(Consumer) /\ k.quiet = c.quiet
    BY <2>2 DEF TaskRun
  <2> HIDE DEF k
  <2>4. \A t \in k.seen : SeenFits(t, task, untagged)
    <3> SUFFICES ASSUME NEW t \in L!Listed(Consumer) PROVE SeenFits(t, task, untagged)
      BY <2>3
    <3>1. /\ t.id \in DOMAIN task /\ task[t.id].project = Consumer
          /\ t.name = task[t.id].name /\ t.from = task[t.id].from
      BY ListedIs
    <3>2. RowFits(task[t.id], t.id \notin untagged)
      BY <3>1 DEF TasksInv
    <3> QED
      BY <3>1, <3>2 DEF SeenFits, RowFits
  <2>5. TaskFits(k, task, untagged)
    <3>1. \A x, y \in k.lib : L!Source(x) = L!Source(y) => x = y
      BY <1>2, <1>3, <1>4, <2>3 DEF TaskFits
    <3>2. k.kind \in {"sync", "copy"}
      BY <1>1, <1>2, <1>3, <2>3 DEF TaskFits
    <3> QED
      BY <2>3, <2>4, <3>1, <3>2 DEF TaskFits
  <2>6. QuietFits(k, task, L!Shown)
    <3> SUFFICES ASSUME c.quiet PROVE QuietFits(k, task, L!Shown)
      BY <2>3 DEF QuietFits
    <3>1. \A x \in k.lib : x.body = L!Shown[L!Source(x)]
      BY <1>1, <1>2, <1>3, <1>4, <2>3 DEF QuietFits
    <3>2. \A t \in k.seen : ~task[t.id].deleted /\ task[t.id].from = t.from
      BY <2>3, ListedIs
    <3>3. ASSUME NEW s \in L!Sources, L!Shown[s] # 0, k.kind = "copy" => s = <<k.pub, k.name>>
          PROVE  Wants(k, s)
      <4>1. PICK x \in c.lib : L!Source(x) = s
        BY <1>1, <1>2, <1>3, <2>3, <3>3 DEF QuietFits
      <4>2. c.kind = "sync" \/ x.name = c.name
        <5>1. c.kind \in {"sync", "copy"}
          BY <1>1, <1>2, <1>3 DEF TaskFits
        <5>2. c.kind = "copy" => x.name = c.name
          BY <2>3, <3>3, <4>1 DEF L!Source
        <5> QED
          BY <5>1, <5>2
      <4> QED
        BY <1>4, <2>3, <4>1, <4>2 DEF Wants
    <3> QED
      BY <2>3, <3>1, <3>2, <3>3 DEF QuietFits
  <2>7. taskClash' = taskClash \cup L!CutOff /\ L!CutOff \subseteq L!Sources
    BY <1>1, <1>6 DEF L!CutOff
  <2>8. taskClash \subseteq taskClash' /\ taskClash' \in SUBSET L!Sources /\ L!CutOff \subseteq taskClash'
    BY <2>7, TaskTyping
  <2> HIDE DEF TasksInv
  <2> QED
    BY <1>1, <1>2, <2>1, <2>3, <2>5, <2>6, <2>8, TaskReads
<1> QED
  BY <1>5, <1>6

LEMMA TaskPublish ==
    ASSUME TaskBounds, TasksInv, NEW r \in Requests, L!Publish(r)
    PROVE  TasksInv'
<1>1. PICK p \in Publishers : \E s \in L!Listed(p) :
        taskRun' = [taskRun EXCEPT ![r] = [L!Idle EXCEPT !.at = "read", !.kind = "publish", !.pub = p,
                                           !.name = s.name, !.names = {s.id}]]
  BY DEF L!Publish, L!Set
<1>0. PICK s \in L!Listed(p) :
        taskRun' = [taskRun EXCEPT ![r] = [L!Idle EXCEPT !.at = "read", !.kind = "publish", !.pub = p,
                                           !.name = s.name, !.names = {s.id}]]
  BY <1>1
<1>2. /\ taskCame' = taskCame + 1 /\ taskCame < TaskRuns
      /\ UNCHANGED <<library, shelf, task, taskClash, untagged, taskWrites, taskFails>>
  BY DEF L!Publish, L!Kept
<1>3. s \in TaskSeen /\ s.id \in DOMAIN task
  BY ListedIs
<1> DEFINE k == [L!Idle EXCEPT !.at = "read", !.kind = "publish", !.pub = p, !.name = s.name, !.names = {s.id}]
<1>4. s.name \in TaskName /\ {s.id} \in SUBSET (TaskName \cup Nat)
  BY <1>3 DEF TaskSeen
<1>5. /\ k \in TaskRun /\ k.at = "read" /\ k.pub = p /\ k.name = s.name /\ k.names = {s.id} /\ k.seen = {} /\ k.lib = {}
  BY <1>4, TaskIdle DEF TaskRun
<1>6. taskRun' = [taskRun EXCEPT ![r] = k]
  BY <1>0
<1> HIDE DEF k
<1>7. TaskFits(k, task, untagged) /\ QuietFits(k, task, L!Shown) /\ \A x : ~Wants(k, x)
  BY <1>3, <1>4, <1>5 DEF TaskFits, QuietFits, Wants
<1>8. taskCame' \in 0..TaskRuns /\ taskFails' \in 0..1
  <2>1. taskCame \in 0..TaskRuns /\ taskFails \in 0..1 /\ TaskRuns \in Nat
    BY TaskRunIs DEF TaskBounds
  <2>2. taskCame' = taskCame + 1 /\ taskCame < TaskRuns /\ taskFails' = taskFails
    BY <1>2
  <2> QED
    BY <2>1, <2>2
<1> QED
  BY <1>2, <1>5, <1>6, <1>7, <1>8, TaskTurns

LEMMA TaskReadRow ==
    ASSUME TaskBounds, TasksInv, NEW r \in Requests, L!ReadRow(r)
    PROVE  TasksInv'
<1>1. PICK id \in taskRun[r].names :
        taskRun' = [taskRun EXCEPT ![r] = [taskRun[r] EXCEPT !.at = "send", !.body = task[id].body]]
  BY DEF L!ReadRow, L!Set
<1>2. /\ taskRun[r].at = "read"
      /\ UNCHANGED <<library, shelf, task, taskClash, untagged, taskWrites, taskCame, taskFails>>
  BY DEF L!ReadRow, L!Kept
<1>3. /\ taskRun[r] \in TaskRun /\ TaskFits(taskRun[r], task, untagged)
      /\ taskCame \in 0..TaskRuns /\ taskFails \in 0..1 /\ task \in Seq(AnyTask)
  BY TaskRunIs
<1>4. PICK c \in TaskRun : c = taskRun[r]
  BY <1>3
<1>5. id \in DOMAIN task
  BY <1>2, <1>3 DEF TaskFits
<1>6. PICK body \in 1..TaskBodies : body = task[id].body
  <2>1. task[id] \in AnyTask
    BY <1>3, <1>5
  <2> QED
    BY <2>1 DEF AnyTask
<1> DEFINE k == [c EXCEPT !.at = "send", !.body = body]
<1>7. taskRun' = [taskRun EXCEPT ![r] = k]
  BY <1>1, <1>4, <1>6
<1>8. body \in 0..TaskBodies /\ body # 0
  BY <1>6
<1>9. /\ k \in TaskRun /\ k.at = "send" /\ k.pub = c.pub /\ k.name = c.name /\ k.body = body
      /\ k.seen = c.seen /\ k.lib = c.lib
  BY <1>8 DEF TaskRun
<1> HIDE DEF k
<1>10. c.seen = {}
  BY <1>2, <1>3, <1>4 DEF TaskFits
<1>11. TaskFits(k, task, untagged) /\ QuietFits(k, task, L!Shown) /\ \A x : ~Wants(k, x)
  BY <1>2, <1>3, <1>4, <1>8, <1>9, <1>10 DEF TaskFits, QuietFits, Wants
<1> QED
  BY <1>2, <1>3, <1>7, <1>9, <1>10, <1>11, TaskTurns

-----------------------------------------------------------------------------
\* What others write disturbs a run, and leaves it what it has.
Disturbs(runs, to, but) ==
    /\ to \in [Requests -> TaskRun]
    /\ \A q \in Requests \ {but} :
          /\ ~to[q].quiet
          /\ to[q] = [runs[q] EXCEPT !.quiet = FALSE]
          /\ to[q].at = runs[q].at /\ to[q].kind = runs[q].kind /\ to[q].name = runs[q].name
          /\ to[q].todo = runs[q].todo /\ to[q].pub = runs[q].pub /\ to[q].names = runs[q].names
          /\ to[q].lib = runs[q].lib /\ to[q].seen = runs[q].seen /\ to[q].body = runs[q].body

LEMMA UnquietIs ==
    ASSUME NEW runs \in [Requests -> TaskRun], NEW but
    PROVE  /\ Disturbs(runs, L!Unquiet(runs, but), but)
           /\ but \in Requests => L!Unquiet(runs, but)[but] = runs[but]
<1>1. ASSUME NEW q \in Requests
      PROVE  [runs[q] EXCEPT !.quiet = FALSE] \in TaskRun
  BY DEF TaskRun
<1>2. L!Unquiet(runs, but) \in [Requests -> TaskRun]
  BY <1>1 DEF L!Unquiet
<1>3. ASSUME NEW q \in Requests \ {but}, NEW k, k = L!Unquiet(runs, but)[q]
      PROVE  /\ ~k.quiet /\ k = [runs[q] EXCEPT !.quiet = FALSE]
             /\ k.at = runs[q].at /\ k.kind = runs[q].kind /\ k.name = runs[q].name
             /\ k.todo = runs[q].todo /\ k.pub = runs[q].pub /\ k.names = runs[q].names
             /\ k.lib = runs[q].lib /\ k.seen = runs[q].seen /\ k.body = runs[q].body
  <2>1. k = [runs[q] EXCEPT !.quiet = FALSE]
    BY <1>3 DEF L!Unquiet
  <2>2. runs[q] \in TaskRun
    OBVIOUS
  <2> QED
    BY <2>1, <2>2 DEF TaskRun
<1>4. but \in Requests => L!Unquiet(runs, but)[but] = runs[but]
  BY DEF L!Unquiet
<1> QED
  BY <1>2, <1>3, <1>4 DEF Disturbs

\* A write: what a run of another has seen keeps its tag or loses it.
TaskPut(but, rows, runs, shown, clash, un) ==
    /\ rows \in Seq(AnyTask)
    /\ clash \in SUBSET L!Sources /\ un \in SUBSET (DOMAIN rows)
    /\ Disturbs(taskRun, runs, but) /\ untagged \subseteq un /\ DOMAIN task \subseteq DOMAIN rows
    /\ \A i \in DOMAIN rows : RowFits(rows[i], i \notin un)
    /\ \A i \in DOMAIN task : rows[i].project = task[i].project /\ rows[i].name = task[i].name
    /\ \A q \in Requests : \A t \in taskRun[q].seen : t.from # NoSource =>
          rows[t.id].from \in {NoSource, t.from} /\ (rows[t.id].own = 0 \/ t.id \in un)
    /\ ClaimsApart(rows, runs, clash)
    /\ but \in Requests =>
          /\ runs[but].seen = {} \/ runs[but].seen = taskRun[but].seen
          /\ TaskFits(runs[but], rows, un) /\ QuietFits(runs[but], rows, shown)

LEMMA TaskPuts ==
    ASSUME TaskBounds, TasksInv, NEW but, NEW rows, NEW runs, NEW shown, NEW clash, NEW un,
           TaskPut(but, rows, runs, shown, clash, un),
           task' = rows, taskRun' = runs, taskClash' = clash, untagged' = un,
           library' \in [L!Sources -> 0..TaskBodies], shelf' \in Seq(OnShelf), L!Shown' = shown,
           taskCame' \in 0..TaskRuns, taskWrites' \in 0..TaskWrites, taskFails' \in 0..1
    PROVE  TasksInv'
<1>0. /\ rows \in Seq(AnyTask)
      /\ clash \in SUBSET L!Sources /\ un \in SUBSET (DOMAIN rows)
      /\ Disturbs(taskRun, runs, but) /\ untagged \subseteq un /\ DOMAIN task \subseteq DOMAIN rows
      /\ \A i \in DOMAIN rows : RowFits(rows[i], i \notin un)
      /\ \A i \in DOMAIN task : rows[i].project = task[i].project /\ rows[i].name = task[i].name
      /\ \A q \in Requests : \A t \in taskRun[q].seen : t.from # NoSource =>
            rows[t.id].from \in {NoSource, t.from} /\ (rows[t.id].own = 0 \/ t.id \in un)
      /\ ClaimsApart(rows, runs, clash)
      /\ but \in Requests =>
            /\ runs[but].seen = {} \/ runs[but].seen = taskRun[but].seen
            /\ TaskFits(runs[but], rows, un) /\ QuietFits(runs[but], rows, shown)
  BY DEF TaskPut
<1>1. /\ runs \in [Requests -> TaskRun]
      /\ \A q \in Requests \ {but} :
            /\ ~runs[q].quiet /\ runs[q].at = taskRun[q].at /\ runs[q].kind = taskRun[q].kind
            /\ runs[q].name = taskRun[q].name /\ runs[q].todo = taskRun[q].todo /\ runs[q].pub = taskRun[q].pub
            /\ runs[q].names = taskRun[q].names /\ runs[q].lib = taskRun[q].lib /\ runs[q].seen = taskRun[q].seen
            /\ runs[q].body = taskRun[q].body
  BY <1>0 DEF Disturbs
<1>2. TasksTyped'
  BY <1>0, <1>1 DEF TasksTyped
<1>3. \A q \in Requests : runs[q].seen = {} \/ runs[q].seen = taskRun[q].seen
  BY <1>0, <1>1
<1>4. SeensAgree(runs)
  <2> SUFFICES ASSUME NEW p \in Requests, NEW q \in Requests, NEW s \in runs[p].seen, NEW t \in runs[q].seen,
                      s.id = t.id, s.from # NoSource, t.from # NoSource
               PROVE  s.from = t.from
    BY DEF SeensAgree
  <2>1. s \in taskRun[p].seen /\ t \in taskRun[q].seen
    BY <1>3
  <2>2. SeensAgree(taskRun)
    BY DEF TasksInv
  <2> QED
    BY <2>1, <2>2 DEF SeensAgree
<1>5. ASSUME NEW q \in Requests \ {but} PROVE TaskFits(runs[q], rows, un)
  <2>1. TaskFits(taskRun[q], task, untagged)
    BY TaskRunIs
  <2>2. ASSUME NEW t \in taskRun[q].seen PROVE SeenFits(t, rows, un)
    <3>1. SeenFits(t, task, untagged)
      BY <2>1 DEF TaskFits
    <3> QED
      BY <1>0, <3>1 DEF SeenFits
  <2>3. DOMAIN task \subseteq DOMAIN rows
    BY <1>0
  <2> QED
    BY <1>1, <2>1, <2>2, <2>3 DEF TaskFits
<1>6. ASSUME NEW q \in Requests \ {but} PROVE QuietFits(runs[q], rows, shown)
  BY <1>1 DEF QuietFits
<1>7. \A q \in Requests : TaskFits(runs[q], rows, un) /\ QuietFits(runs[q], rows, shown)
  BY <1>0, <1>5, <1>6
<1> HIDE DEF TasksInv
<1>8. SeensAgree(taskRun') /\ ClaimsApart(task', taskRun', taskClash')
  BY <1>0, <1>4
<1>9. \A q \in Requests : TaskFits(taskRun'[q], task', untagged') /\ QuietFits(taskRun'[q], task', L!Shown')
  BY <1>7
<1>10. \A i \in DOMAIN task' : RowFits(task'[i], i \notin untagged')
  BY <1>0
<1> QED
  BY <1>2, <1>8, <1>9, <1>10 DEF TasksInv

\* What a write to one row leaves of the claims: none is added.
TaskRowAs(i, row, un) ==
    /\ i \in DOMAIN task /\ row \in AnyTask /\ un \in SUBSET (DOMAIN task) /\ untagged \subseteq un
    /\ RowFits(row, i \notin un) /\ row.project = task[i].project /\ row.name = task[i].name
    /\ (task[i].deleted => row.deleted) /\ row.from \in {NoSource, task[i].from}
    /\ \A q \in Requests : \A t \in taskRun[q].seen : t.id = i /\ t.from # NoSource => row.own = 0 \/ i \in un

LEMMA TaskRowPut ==
    ASSUME TaskBounds, TasksInv, NEW i, NEW row, NEW un, TaskRowAs(i, row, un),
           task' = [task EXCEPT ![i] = row], taskRun' = L!Unquiet(taskRun, NoSource), untagged' = un,
           UNCHANGED <<library, shelf, taskClash, taskCame, taskFails>>,
           taskWrites < TaskWrites, taskWrites' = taskWrites + 1
    PROVE  TasksInv'
<1>0. /\ i \in DOMAIN task /\ row \in AnyTask /\ un \in SUBSET (DOMAIN task) /\ untagged \subseteq un
      /\ RowFits(row, i \notin un) /\ row.project = task[i].project /\ row.name = task[i].name
      /\ (task[i].deleted => row.deleted) /\ row.from \in {NoSource, task[i].from}
      /\ \A q \in Requests : \A t \in taskRun[q].seen : t.id = i /\ t.from # NoSource => row.own = 0 \/ i \in un
  BY DEF TaskRowAs
<1>1. /\ task \in Seq(AnyTask) /\ taskRun \in [Requests -> TaskRun]
      /\ taskCame \in 0..TaskRuns /\ taskFails \in 0..1 /\ library \in [L!Sources -> 0..TaskBodies]
  BY TaskTyping
<1>2. PICK rows \in Seq(AnyTask) : rows = [task EXCEPT ![i] = row]
  <2>1. i \in 1..Len(task) /\ row \in AnyTask
    BY <1>0, <1>1
  <2>2. [task EXCEPT ![i] = row] \in Seq(AnyTask)
    BY <1>1, <2>1, ExceptSeq
  <2> QED
    BY <2>2
<1>3. DOMAIN rows = DOMAIN task /\ rows[i] = row /\ \A j \in DOMAIN task \ {i} : rows[j] = task[j]
  BY <1>0, <1>1, <1>2
<1>4. PICK runs : runs = L!Unquiet(taskRun, NoSource)
  OBVIOUS
<1>5. Disturbs(taskRun, runs, NoSource) /\ NoSource \notin Requests
  BY <1>1, <1>4, UnquietIs DEF TaskBounds
<1>6. \A q \in Requests : runs[q].at = taskRun[q].at /\ runs[q].lib = taskRun[q].lib /\ runs[q].seen = taskRun[q].seen
  BY <1>5 DEF Disturbs
<1>7. ASSUME NEW j \in DOMAIN rows PROVE RowFits(rows[j], j \notin un)
  <2>1. CASE j = i
    BY <1>0, <1>3, <2>1
  <2>2. CASE j # i
    <3>1. RowFits(task[j], j \notin untagged)
      BY <1>3 DEF TasksInv
    <3> QED
      BY <1>0, <1>3, <2>2, <3>1 DEF RowFits
  <2> QED
    BY <2>1, <2>2
<1>8. \A j \in DOMAIN task : rows[j].project = task[j].project /\ rows[j].name = task[j].name
  BY <1>0, <1>3
<1>9. ASSUME NEW q \in Requests, NEW t \in taskRun[q].seen, t.from # NoSource
      PROVE  rows[t.id].from \in {NoSource, t.from} /\ (rows[t.id].own = 0 \/ t.id \in un)
  <2>1. SeenFits(t, task, untagged)
    BY TaskRunIs DEF TaskFits
  <2>2. CASE t.id = i
    BY <1>0, <1>3, <1>9, <2>1, <2>2 DEF SeenFits
  <2>3. CASE t.id # i
    BY <1>0, <1>3, <1>9, <2>1, <2>3 DEF SeenFits
  <2> QED
    BY <2>2, <2>3
<1>10. ClaimsApart(rows, runs, taskClash)
  <2>1. ASSUME NEW s \in L!Sources, NEW j \in DOMAIN rows, Claimed(j, s, rows, runs)
        PROVE  Claimed(j, s, task, taskRun)
    <3>1. s # NoSource
      BY DEF TaskBounds
    <3>2. j \in DOMAIN task /\ rows[j].project = task[j].project /\ rows[j].from \in {NoSource, task[j].from}
          /\ (~rows[j].deleted => ~task[j].deleted)
      BY <1>0, <1>3
    <3>3. \A q \in Requests : Wants(runs[q], s) => Wants(taskRun[q], s)
      BY <1>6 DEF Wants
    <3> QED
      BY <1>6, <2>1, <3>1, <3>2, <3>3 DEF Claimed
  <2>2. \A s \in L!Sources : \A q \in Requests :
          Wants(runs[q], s) => Wants(taskRun[q], s) /\ runs[q].seen = taskRun[q].seen
    BY <1>6 DEF Wants
  <2>3. ClaimsApart(task, taskRun, taskClash)
    BY DEF TasksInv
  <2> QED
    BY <1>3, <2>1, <2>2, <2>3, ClaimsKept
<1>11. taskClash \in SUBSET L!Sources /\ un \in SUBSET (DOMAIN rows) /\ DOMAIN task \subseteq DOMAIN rows
  BY <1>0, <1>3, TaskTyping
<1>12. task' = rows /\ taskRun' = runs /\ taskClash' = taskClash /\ untagged' = un
  BY <1>2, <1>4
<1>13. taskCame' \in 0..TaskRuns /\ taskFails' \in 0..1
  BY <1>1
<1>15. taskWrites' \in 0..TaskWrites
  BY TaskCount, TaskTyping DEF TaskBounds
<1>16. untagged \subseteq un
  BY <1>0
<1> HIDE DEF TasksInv
<1>14. TaskPut(NoSource, rows, runs, L!Shown, taskClash, un)
  BY <1>1, <1>2, <1>5, <1>7, <1>8, <1>9, <1>10, <1>11, <1>16 DEF TaskPut
<1> QED
  BY <1>12, <1>13, <1>14, <1>15, ShelfStays, TaskPuts

LEMMA TaskEdit ==
    ASSUME TaskBounds, TasksInv, L!Edit
    PROVE  TasksInv'
<1>1. PICK i \in DOMAIN task : \E body \in 1..TaskBodies \ {task[i].body} :
        L!Written([task EXCEPT ![i].body = body, ![i].own = IF task[i].from = NoSource THEN body ELSE 0])
  BY DEF L!Edit
<1>2. PICK body \in 1..TaskBodies :
        /\ task' = [task EXCEPT ![i].body = body, ![i].own = IF task[i].from = NoSource THEN body ELSE 0]
        /\ taskRun' = L!Unquiet(taskRun, NoSource)
  BY <1>1 DEF L!Written
<1>3. UNCHANGED <<library, shelf, taskClash, untagged, taskCame, taskFails>> /\ taskWrites < TaskWrites /\ taskWrites' = taskWrites + 1
  BY DEF L!Edit, L!Write
<1>4. task[i] \in AnyTask /\ task \in Seq(AnyTask)
  BY TaskTyping
<1>5. PICK old \in AnyTask : old = task[i]
  BY <1>4
<1> DEFINE row == [old EXCEPT !.body = body, !.own = IF old.from = NoSource THEN body ELSE 0]
<1>6. /\ row \in AnyTask /\ row.project = old.project /\ row.name = old.name /\ row.from = old.from
      /\ row.deleted = old.deleted /\ row.body = body /\ row.own = IF old.from = NoSource THEN body ELSE 0
  <2>1. 0 \in 0..TaskBodies /\ body \in 0..TaskBodies
    BY DEF TaskBounds
  <2> QED
    BY <2>1 DEF AnyTask
<1>7. task' = [task EXCEPT ![i] = row]
  BY <1>2, <1>4, <1>5
<1> HIDE DEF row
<1>8. RowFits(old, i \notin untagged) /\ body # 0
  BY <1>5 DEF TasksInv
<1>9. RowFits(row, i \notin untagged)
  BY <1>6, <1>8 DEF RowFits
<1>10. ASSUME NEW q \in Requests, NEW t \in taskRun[q].seen, t.id = i, t.from # NoSource
       PROVE  row.own = 0 \/ i \in untagged
  <2>1. SeenFits(t, task, untagged)
    BY TaskRunIs DEF TaskFits
  <2> QED
    BY <1>5, <1>6, <1>8, <1>10, <2>1 DEF SeenFits, RowFits
<1>12. untagged \in SUBSET (DOMAIN task)
  BY TaskTyping
<1> HIDE DEF TasksInv
<1>13. TaskRowAs(i, row, untagged)
  BY <1>5, <1>6, <1>9, <1>10, <1>12 DEF TaskRowAs
<1> QED
  BY <1>2, <1>3, <1>7, <1>13, TaskRowPut

LEMMA TaskUntag ==
    ASSUME TaskBounds, TasksInv, L!Untag
    PROVE  TasksInv'
<1>1. PICK i \in DOMAIN task :
        /\ task' = [task EXCEPT ![i].from = NoSource, ![i].own = task[i].body]
        /\ taskRun' = L!Unquiet(taskRun, NoSource)
        /\ untagged' = IF \E r \in Requests : \E s \in taskRun[r].seen : s.id = i
                       THEN untagged \cup {i} ELSE untagged
  BY DEF L!Untag, L!Written
<1>2. UNCHANGED <<library, shelf, taskClash, taskCame, taskFails>> /\ taskWrites < TaskWrites /\ taskWrites' = taskWrites + 1
  BY DEF L!Untag, L!Write
<1>3. task[i] \in AnyTask /\ task \in Seq(AnyTask)
  BY TaskTyping
<1>4. PICK old \in AnyTask : old = task[i]
  BY <1>3
<1>5. PICK un \in SUBSET (DOMAIN task) :
        /\ un = untagged' /\ untagged \subseteq un
        /\ (\E r \in Requests : \E s \in taskRun[r].seen : s.id = i) => i \in un
  <2>1. untagged \in SUBSET (DOMAIN task) /\ untagged \cup {i} \in SUBSET (DOMAIN task)
    BY TaskTyping
  <2>2. CASE \E r \in Requests : \E s \in taskRun[r].seen : s.id = i
    <3>1. untagged' = untagged \cup {i}
      BY <1>1, <2>2
    <3> QED
      BY <2>1, <3>1
  <2>3. CASE ~\E r \in Requests : \E s \in taskRun[r].seen : s.id = i
    <3>1. untagged' = untagged
      BY <1>1, <2>3
    <3> QED
      BY <2>1, <2>3, <3>1
  <2> QED
    BY <2>2, <2>3
<1> DEFINE row == [old EXCEPT !.from = NoSource, !.own = old.body]
<1>6. /\ row \in AnyTask /\ row.project = old.project /\ row.name = old.name /\ row.from = NoSource
      /\ row.deleted = old.deleted /\ row.body = old.body /\ row.own = old.body
  <2>1. old.body \in 0..TaskBodies
    BY DEF AnyTask, TaskBounds
  <2> QED
    BY <2>1 DEF AnyTask
<1>7. task' = [task EXCEPT ![i] = row]
  BY <1>1, <1>3, <1>4
<1> HIDE DEF row
<1>8. old.body # 0
  BY DEF AnyTask
<1>9. RowFits(row, i \notin un)
  BY <1>6, <1>8 DEF RowFits
<1>10. \A q \in Requests : \A t \in taskRun[q].seen : t.id = i /\ t.from # NoSource => row.own = 0 \/ i \in un
  BY <1>5
<1>12. untagged' = un
  BY <1>5
<1> HIDE DEF TasksInv
<1>13. TaskRowAs(i, row, un)
  BY <1>4, <1>5, <1>6, <1>9, <1>10 DEF TaskRowAs
<1> QED
  BY <1>1, <1>2, <1>7, <1>12, <1>13, TaskRowPut

LEMMA TaskDelete ==
    ASSUME TaskBounds, TasksInv, L!Delete
    PROVE  TasksInv'
<1>1. PICK i \in DOMAIN task :
        /\ task' = [task EXCEPT ![i].deleted = TRUE]
        /\ taskRun' = L!Unquiet(taskRun, NoSource)
  BY DEF L!Delete, L!Written
<1>2. UNCHANGED <<library, shelf, taskClash, untagged, taskCame, taskFails>> /\ taskWrites < TaskWrites /\ taskWrites' = taskWrites + 1
  BY DEF L!Delete, L!Write
<1>3. task[i] \in AnyTask /\ task \in Seq(AnyTask)
  BY TaskTyping
<1>4. PICK old \in AnyTask : old = task[i]
  BY <1>3
<1> DEFINE row == [old EXCEPT !.deleted = TRUE]
<1>6. /\ row \in AnyTask /\ row.project = old.project /\ row.name = old.name /\ row.from = old.from
      /\ row.deleted = TRUE /\ row.body = old.body /\ row.own = old.own
  BY DEF AnyTask
<1>7. task' = [task EXCEPT ![i] = row]
  BY <1>1, <1>3, <1>4
<1> HIDE DEF row
<1>8. RowFits(old, i \notin untagged)
  BY <1>4 DEF TasksInv
<1>9. RowFits(row, i \notin untagged)
  BY <1>6, <1>8 DEF RowFits
<1>10. ASSUME NEW q \in Requests, NEW t \in taskRun[q].seen, t.id = i, t.from # NoSource
       PROVE  row.own = 0 \/ i \in untagged
  <2>1. SeenFits(t, task, untagged)
    BY TaskRunIs DEF TaskFits
  <2> QED
    BY <1>4, <1>6, <1>10, <2>1 DEF SeenFits
<1>12. untagged \in SUBSET (DOMAIN task)
  BY TaskTyping
<1> HIDE DEF TasksInv
<1>13. TaskRowAs(i, row, untagged)
  BY <1>4, <1>6, <1>9, <1>10, <1>12 DEF TaskRowAs
<1> QED
  BY <1>1, <1>2, <1>7, <1>13, TaskRowPut

TurnsTo(runs, r, k, new) == Disturbs(runs, new, r) /\ new[r] = k

LEMMA UnquietBut ==
    ASSUME NEW runs \in [Requests -> TaskRun], NEW r \in Requests, NEW k \in TaskRun
    PROVE  TurnsTo(runs, r, k, L!Unquiet([runs EXCEPT ![r] = k], r))
<1>1. PICK to \in [Requests -> TaskRun] : to = [runs EXCEPT ![r] = k]
  OBVIOUS
<1>2. to[r] = k /\ \A q \in Requests \ {r} : to[q] = runs[q]
  BY <1>1
<1>3. PICK new : new = L!Unquiet(to, r)
  OBVIOUS
<1>4. Disturbs(to, new, r) /\ new[r] = to[r]
  BY <1>3, UnquietIs
<1>5. Disturbs(runs, new, r)
  BY <1>2, <1>4 DEF Disturbs
<1> QED
  BY <1>1, <1>2, <1>3, <1>4, <1>5 DEF TurnsTo

\* A write to the library alone.
LEMMA TaskBooks ==
    ASSUME TaskBounds, TasksInv, NEW but, NEW runs,
           library' \in [L!Sources -> 0..TaskBodies], shelf' \in Seq(OnShelf), taskRun' = runs, Disturbs(taskRun, runs, but),
           but \in Requests => runs[but] = L!Idle,
           UNCHANGED <<task, taskClash, untagged, taskCame, taskFails>>, taskWrites' \in 0..TaskWrites
    PROVE  TasksInv'
<1>1. /\ task \in Seq(AnyTask) /\ taskClash \in SUBSET L!Sources /\ untagged \in SUBSET (DOMAIN task)
      /\ taskCame \in 0..TaskRuns /\ taskFails \in 0..1
  BY TaskTyping
<1>2. \A i \in DOMAIN task : RowFits(task[i], i \notin untagged)
  BY DEF TasksInv
<1>3. ASSUME NEW q \in Requests, NEW t \in taskRun[q].seen, t.from # NoSource
      PROVE  task[t.id].from \in {NoSource, t.from} /\ (task[t.id].own = 0 \/ t.id \in untagged)
  BY <1>3, TaskRunIs DEF TaskFits, SeenFits
<1>4. ASSUME NEW q \in Requests
      PROVE  /\ runs[q].seen = {} \/ runs[q].seen = taskRun[q].seen
             /\ \A s : Wants(runs[q], s) => Wants(taskRun[q], s) /\ runs[q].seen = taskRun[q].seen
  <2>1. CASE q = but
    BY <2>1, TaskIdle
  <2>2. CASE q # but
    BY <2>2 DEF Disturbs, Wants
  <2> QED
    BY <2>1, <2>2
<1>5. ClaimsApart(task, runs, taskClash)
  <2>1. ASSUME NEW s \in L!Sources, NEW j \in DOMAIN task, Claimed(j, s, task, runs)
        PROVE  Claimed(j, s, task, taskRun)
    BY <1>4, <2>1 DEF Claimed
  <2>2. ClaimsApart(task, taskRun, taskClash)
    BY DEF TasksInv
  <2> QED
    BY <1>4, <2>1, <2>2, ClaimsKept
<1>9. PICK shown : shown = L!Shown'
  OBVIOUS
<1>6. but \in Requests =>
        /\ runs[but].seen = {} \/ runs[but].seen = taskRun[but].seen
        /\ TaskFits(runs[but], task, untagged) /\ QuietFits(runs[but], task, shown)
  BY <1>4, TaskIdle
<1>7. TaskPut(but, task, runs, shown, taskClash, untagged)
  BY <1>1, <1>2, <1>3, <1>5, <1>6 DEF TaskPut
<1> HIDE DEF TasksInv
<1>8. /\ task' = task /\ taskClash' = taskClash /\ untagged' = untagged
      /\ taskCame' \in 0..TaskRuns /\ taskFails' \in 0..1
  BY <1>1
<1> QED
  BY <1>7, <1>8, <1>9, TaskPuts

LEMMA TaskSend ==
    ASSUME TaskBounds, TasksInv, NEW r \in Requests, L!Send(r)
    PROVE  TasksInv'
<1>1. /\ taskRun[r].at = "send"
      /\ library' = [library EXCEPT ![<<taskRun[r].pub, taskRun[r].name>>] = taskRun[r].body]
      /\ shelf' \in {shelf, Append(shelf, [source |-> <<taskRun[r].pub, taskRun[r].name>>, after |-> Len(task)])}
      /\ taskRun' = L!Unquiet([taskRun EXCEPT ![r] = L!Idle], r)
      /\ UNCHANGED <<task, taskClash, untagged, taskCame, taskWrites, taskFails>>
  BY DEF L!Send
<1>2. /\ taskRun \in [Requests -> TaskRun] /\ taskRun[r] \in TaskRun /\ library \in [L!Sources -> 0..TaskBodies]
      /\ taskWrites \in 0..TaskWrites
  BY TaskTyping, TaskRunIs
<1>3. taskRun[r].body \in 0..TaskBodies
  BY <1>2 DEF TaskRun
<1>4. PICK books \in [L!Sources -> 0..TaskBodies] : books = library'
  BY <1>1, <1>2, <1>3
<1>5. PICK runs : runs = L!Unquiet([taskRun EXCEPT ![r] = L!Idle], r)
  OBVIOUS
<1>6. Disturbs(taskRun, runs, r) /\ runs[r] = L!Idle
  <2>1. taskRun \in [Requests -> TaskRun]
    BY TaskTyping
  <2>2. L!Idle \in TaskRun
    BY TaskIdle
  <2>3. TurnsTo(taskRun, r, L!Idle, runs)
    BY Zenon, <1>5, <2>1, <2>2, UnquietBut
  <2> QED
    BY <2>3 DEF TurnsTo
<1>7. taskRun' = runs /\ library' \in [L!Sources -> 0..TaskBodies] /\ taskWrites' \in 0..TaskWrites
  BY <1>1, <1>2, <1>4, <1>5
<1>8. shelf' \in Seq(OnShelf)
  <2>1. taskRun[r].pub \in Publishers /\ taskRun[r].name \in TaskName
    BY <1>1, TaskRunIs DEF TaskFits
  <2>2. <<taskRun[r].pub, taskRun[r].name>> \in L!Sources
    BY <2>1 DEF L!Sources, TaskName
  <2>3. Len(task) \in Nat /\ shelf \in Seq(OnShelf)
    BY TaskTyping
  <2>4. [source |-> <<taskRun[r].pub, taskRun[r].name>>, after |-> Len(task)] \in OnShelf
    BY <2>2, <2>3 DEF OnShelf
  <2> DEFINE item == [source |-> <<taskRun[r].pub, taskRun[r].name>>, after |-> Len(task)]
  <2>5. item \in OnShelf
    BY <2>4
  <2>6. shelf' = shelf \/ shelf' = Append(shelf, item)
    BY <1>1
  <2> HIDE DEF item
  <2>7. Append(shelf, item) \in Seq(OnShelf)
    BY <2>3, <2>5
  <2> QED
    BY <2>3, <2>6, <2>7
<1> HIDE DEF TasksInv
<1> QED
  BY <1>1, <1>6, <1>7, <1>8, TaskBooks

LEMMA TaskWithdraw ==
    ASSUME TaskBounds, TasksInv, L!Withdraw
    PROVE  TasksInv'
<1>1. PICK s \in L!Sources : library' = [library EXCEPT ![s] = 0]
  BY DEF L!Withdraw
<1>2. /\ taskRun' = L!Unquiet(taskRun, NoSource) /\ taskWrites < TaskWrites /\ taskWrites' = taskWrites + 1
      /\ UNCHANGED <<shelf, task, taskClash, untagged, taskCame, taskFails>>
  BY DEF L!Withdraw, L!Write
<1>3. taskRun \in [Requests -> TaskRun] /\ library \in [L!Sources -> 0..TaskBodies]
  BY TaskTyping
<1>4. PICK books \in [L!Sources -> 0..TaskBodies] : books = library'
  <2>1. 0 \in 0..TaskBodies
    BY DEF TaskBounds
  <2> QED
    BY <1>1, <1>3, <2>1
<1>5. PICK runs : runs = L!Unquiet(taskRun, NoSource)
  OBVIOUS
<1>6. Disturbs(taskRun, runs, NoSource) /\ NoSource \notin Requests
  BY <1>3, <1>5, UnquietIs DEF TaskBounds
<1>7. taskRun' = runs /\ library' \in [L!Sources -> 0..TaskBodies]
  BY <1>2, <1>4, <1>5
<1>8. taskWrites' \in 0..TaskWrites
  BY <1>2, TaskCount, TaskTyping DEF TaskBounds
<1>9. shelf' \in Seq(OnShelf)
  BY <1>2, TaskTyping
<1> HIDE DEF TasksInv
<1> QED
  BY <1>2, <1>6, <1>7, <1>8, <1>9, TaskBooks

\* A row that is new answers no claim but of its own source.
LEMMA TaskAppends ==
    ASSUME TasksInv, NEW row \in AnyTask
    PROVE  \E rows \in Seq(AnyTask) :
              /\ rows = Append(task, row) /\ DOMAIN rows = DOMAIN task \cup {Len(task) + 1}
              /\ Len(task) + 1 \notin DOMAIN task /\ rows[Len(task) + 1] = row
              /\ \A j \in DOMAIN task : rows[j] = task[j]
<1>1. task \in Seq(AnyTask)
  BY TaskTyping
<1>2. PICK rows : rows = Append(task, row)
  OBVIOUS
<1>3. /\ rows \in Seq(AnyTask) /\ Len(rows) = Len(task) + 1 /\ rows[Len(task) + 1] = row
      /\ \A j \in 1..Len(task) : rows[j] = task[j]
  BY <1>1, <1>2, AppendProperties
<1>4. DOMAIN rows = 1..(Len(task) + 1) /\ DOMAIN task = 1..Len(task) /\ Len(task) \in Nat
  BY <1>1, <1>3
<1>5. DOMAIN rows = DOMAIN task \cup {Len(task) + 1} /\ Len(task) + 1 \notin DOMAIN task
  BY <1>4
<1> QED
  BY <1>2, <1>3, <1>4, <1>5

LEMMA TaskMake ==
    ASSUME TaskBounds, TasksInv, L!Make
    PROVE  TasksInv'
<1>1. PICK n \in TaskName : task' = Append(task, L!Row(Consumer, n, NoSource, 1)) /\ taskRun' = L!Unquiet(taskRun, NoSource)
  BY DEF L!Make, L!Written, TaskName
<1>2. /\ taskWrites < TaskWrites /\ taskWrites' = taskWrites + 1
      /\ UNCHANGED <<library, shelf, taskClash, untagged, taskCame, taskFails>>
  BY DEF L!Make, L!Write
<1>3. PICK row \in AnyTask : row = L!Row(Consumer, n, NoSource, 1) /\ row.from = NoSource /\ row.own = 1 /\ row.body = 1
  <2>1. 1 \in 1..TaskBodies /\ 1 \in 0..TaskBodies /\ Consumer \in Publishers \cup {Consumer}
    BY DEF TaskBounds
  <2> DEFINE row == [project |-> Consumer, name |-> n, from |-> NoSource, body |-> 1, own |-> 1, deleted |-> FALSE]
  <2>2. L!Row(Consumer, n, NoSource, 1) = row
    BY DEF L!Row
  <2>3. row \in AnyTask
    BY <2>1 DEF AnyTask
  <2>4. row.from = NoSource /\ row.own = 1 /\ row.body = 1
    OBVIOUS
  <2> QED
    BY <2>2, <2>3, <2>4
<1>4. PICK rows \in Seq(AnyTask) :
        /\ rows = Append(task, row) /\ DOMAIN rows = DOMAIN task \cup {Len(task) + 1}
        /\ Len(task) + 1 \notin DOMAIN task /\ rows[Len(task) + 1] = row
        /\ \A j \in DOMAIN task : rows[j] = task[j]
  BY TaskAppends
<1>5. PICK runs : runs = L!Unquiet(taskRun, NoSource)
  OBVIOUS
<1>6. Disturbs(taskRun, runs, NoSource) /\ NoSource \notin Requests
  BY <1>5, UnquietIs, TaskTyping DEF TaskBounds
<1>7. \A q \in Requests : runs[q].at = taskRun[q].at /\ runs[q].lib = taskRun[q].lib /\ runs[q].seen = taskRun[q].seen
  BY <1>6 DEF Disturbs
<1>8. ASSUME NEW j \in DOMAIN rows PROVE RowFits(rows[j], j \notin untagged)
  <2>1. CASE j = Len(task) + 1
    BY <1>3, <1>4, <2>1 DEF RowFits
  <2>2. CASE j \in DOMAIN task
    BY <1>4, <2>2 DEF TasksInv
  <2> QED
    BY <1>4, <2>1, <2>2
<1>9. ASSUME NEW q \in Requests, NEW t \in taskRun[q].seen
      PROVE  /\ t.id \in DOMAIN task
             /\ t.from # NoSource =>
                   rows[t.id].from \in {NoSource, t.from} /\ (rows[t.id].own = 0 \/ t.id \in untagged)
  BY <1>4, TaskRunIs DEF TaskFits, SeenFits
<1>10. ClaimsApart(rows, runs, taskClash)
  <2>1. ASSUME NEW s \in L!Sources, NEW j \in DOMAIN rows, Claimed(j, s, rows, runs)
        PROVE  j \in DOMAIN task /\ Claimed(j, s, task, taskRun)
    <3>1. s # NoSource
      BY DEF TaskBounds
    <3>2. \A q \in Requests : Wants(runs[q], s) => Wants(taskRun[q], s)
      BY <1>7 DEF Wants
    <3>3. j \in DOMAIN task
      BY <1>3, <1>4, <1>7, <1>9, <2>1, <3>1 DEF Claimed
    <3> QED
      BY <1>4, <1>7, <2>1, <3>2, <3>3 DEF Claimed
  <2>2. \A s \in L!Sources : \A q \in Requests :
          Wants(runs[q], s) => Wants(taskRun[q], s) /\ runs[q].seen = taskRun[q].seen
    BY <1>7 DEF Wants
  <2>3. ClaimsApart(task, taskRun, taskClash) /\ DOMAIN task \subseteq DOMAIN rows
    BY <1>4 DEF TasksInv
  <2> QED
    BY <2>1, <2>2, <2>3, ClaimsKept
<1>11. /\ library \in [L!Sources -> 0..TaskBodies] /\ taskClash \in SUBSET L!Sources
       /\ untagged \in SUBSET (DOMAIN rows) /\ DOMAIN task \subseteq DOMAIN rows
       /\ \A i \in DOMAIN task : rows[i].project = task[i].project /\ rows[i].name = task[i].name
  BY <1>4, TaskTyping
<1>12. TaskPut(NoSource, rows, runs, L!Shown, taskClash, untagged)
  BY <1>6, <1>8, <1>9, <1>10, <1>11 DEF TaskPut
<1>13. /\ task' = rows /\ taskRun' = runs /\ taskClash' = taskClash /\ untagged' = untagged
       /\ taskCame' \in 0..TaskRuns /\ taskFails' \in 0..1
  BY <1>1, <1>2, <1>3, <1>4, <1>5, TaskTyping
<1>14. taskWrites' \in 0..TaskWrites
  BY <1>2, TaskCount, TaskTyping DEF TaskBounds
<1> HIDE DEF TasksInv
<1> QED
  BY <1>2, <1>12, <1>13, <1>14, ShelfStays, TaskPuts

-----------------------------------------------------------------------------
\* The next item of a run.
LEMMA GreatestIndex ==
    ASSUME NEW n \in Nat, NEW these \in SUBSET (1..n), these # {}
    PROVE  \E i \in these : \A j \in these : i >= j
<1> DEFINE below == {n - i : i \in these}
<1>1. below \in SUBSET Nat /\ below # {}
  <2>1. \A i \in these : n - i \in Nat
    OBVIOUS
  <2>2. below \in SUBSET Nat
    BY <2>1
  <2>3. below # {}
    OBVIOUS
  <2> QED
    BY <2>2, <2>3
<1>2. PICK b \in below : \A c \in below : b <= c
  BY <1>1, LeastIndex
<1>3. PICK i \in these : b = n - i
  OBVIOUS
<1>4. ASSUME NEW j \in these PROVE i >= j
  <2>1. n - j \in below
    OBVIOUS
  <2>2. b <= n - j
    BY <1>2, <2>1
  <2> QED
    BY <1>3, <2>2
<1> QED
  BY <1>4

\* The row that is updated was seen with the tag of the item; where nothing is and no local task
\* of the name was seen, none was seen with it.
LEMMA PriorIs ==
    ASSUME NEW v, NEW x, NEW n \in Nat, \A t \in v.seen : t.id \in 1..n
    PROVE  /\ L!Prior(v, x) # 0 => L!Prior(v, x) \in L!Forked(v, x)
           /\ L!Prior(v, x) = 0 /\ L!Locals(v, x) = {} => L!Forked(v, x) = {}
           /\ \A i \in L!Forked(v, x) : \E t \in v.seen : t.id = i /\ t.from = L!Source(x)
           /\ \A t \in v.seen : t.from = L!Source(x) => t.id \in L!Forked(v, x)
           /\ \A t \in v.seen : t.from = NoSource /\ t.name = x.name => t.id \in L!Locals(v, x)
           /\ \A i \in L!Locals(v, x) : \E t \in v.seen : t.id = i /\ t.from = NoSource /\ t.name = x.name
<1>1. PICK forked : forked = L!Forked(v, x)
  OBVIOUS
<1>2. PICK loc : loc = L!Locals(v, x)
  OBVIOUS
<1>3. /\ \A i \in forked : \E t \in v.seen : t.id = i /\ t.from = L!Source(x)
      /\ \A t \in v.seen : t.from = L!Source(x) => t.id \in forked
  BY <1>1 DEF L!Forked
<1>4. /\ \A t \in v.seen : t.from = NoSource /\ t.name = x.name => t.id \in loc
      /\ \A i \in loc : \E t \in v.seen : t.id = i /\ t.from = NoSource /\ t.name = x.name
  BY <1>2 DEF L!Locals
<1>5. forked \in SUBSET (1..n) /\ loc \in SUBSET (1..n)
  BY <1>3, <1>4
<1>6. L!Prior(v, x) = IF forked = {} THEN 0
                      ELSE IF v.kind = "sync" THEN L!Eldest(forked)
                      ELSE IF L!Newest(forked \cup loc) \in forked THEN L!Newest(forked \cup loc) ELSE 0
  BY <1>1, <1>2 DEF L!Prior
<1>7. forked # {} => L!Eldest(forked) \in forked
  <2>1. forked \in SUBSET Nat
    BY <1>5
  <2>2. forked # {} => \E i \in forked : \A j \in forked : i <= j
    BY <2>1, LeastIndex
  <2> QED
    BY <2>2 DEF L!Eldest
<1>8. forked # {} => L!Newest(forked \cup loc) \in forked \cup loc
  <2>1. forked \cup loc \in SUBSET (1..n)
    BY <1>5
  <2>2. forked # {} => \E i \in forked \cup loc : \A j \in forked \cup loc : i >= j
    BY <2>1, GreatestIndex
  <2> QED
    BY <2>2 DEF L!Newest
<1>9. 0 \notin forked
  BY <1>5
<1>10. L!Prior(v, x) # 0 => L!Prior(v, x) \in forked
  BY <1>6, <1>7
<1>11. L!Prior(v, x) = 0 /\ loc = {} => forked = {}
  BY <1>6, <1>7, <1>8, <1>9
<1> QED
  BY <1>1, <1>2, <1>3, <1>4, <1>10, <1>11

\* What a run has in hand after an item.
TaskDone(c, x) == [c EXCEPT !.lib = @ \ {x}, !.at = IF c.lib = {x} THEN "done" ELSE @]

LEMMA ItemDone ==
    ASSUME NEW c \in TaskRun, NEW x \in c.lib, c.at = "items",
           NEW k, k = TaskDone(c, x),
           \A y, z \in c.lib : L!Source(y) = L!Source(z) => y = z
    PROVE  /\ k \in TaskRun /\ k.kind = c.kind /\ k.name = c.name /\ k.pub = c.pub /\ k.seen = c.seen
           /\ k.quiet = c.quiet /\ k.names = c.names /\ k.lib = c.lib \ {x} /\ k.at \in {"items", "done"}
           /\ \A s : Wants(k, s) => Wants(c, s) /\ s # L!Source(x)
           /\ \A s : Wants(c, s) /\ s # L!Source(x) => Wants(k, s)
<1>1. /\ k.kind = c.kind /\ k.name = c.name /\ k.pub = c.pub /\ k.seen = c.seen
      /\ k.quiet = c.quiet /\ k.names = c.names /\ k.lib = c.lib \ {x}
      /\ k.at = IF c.lib = {x} THEN "done" ELSE "items"
  BY DEF TaskRun, TaskDone
<1>2. k \in TaskRun
  <2>1. (IF c.lib = {x} THEN "done" ELSE c.at) \in {"idle", "names", "items", "done", "read", "send"}
    OBVIOUS
  <2>2. c.lib \ {x} \in SUBSET TaskItem
    BY DEF TaskRun
  <2> QED
    BY <2>1, <2>2 DEF TaskRun, TaskDone
<1>3. \A s : Wants(k, s) => Wants(c, s) /\ s # L!Source(x)
  BY <1>1 DEF Wants
<1>4. \A s : Wants(c, s) /\ s # L!Source(x) => Wants(k, s)
  BY <1>1 DEF Wants
<1> QED
  BY <1>1, <1>2, <1>3, <1>4

\* What an item leaves a run that no other write came between: the source it had in hand is
\* answered, and the others as before.
LEMMA ItemQuiet ==
    ASSUME TaskBounds, TasksInv, NEW r \in Requests, taskRun[r].at = "items", NEW x \in taskRun[r].lib, NEW rows,
           NEW k, k = TaskDone(taskRun[r], x),
           taskRun[r].quiet => Served(L!Source(x), k.kind, rows, L!Shown),
           taskRun[r].quiet => \A i \in DOMAIN task : i \in DOMAIN rows /\
               (rows[i] = task[i] \/ (task[i].from = L!Source(x) /\ rows[i].from = L!Source(x) /\ ~rows[i].deleted))
    PROVE  QuietFits(k, rows, L!Shown)
<1>1. PICK c \in TaskRun : c = taskRun[r]
  BY TaskRunIs
<1>2. TaskFits(c, task, untagged) /\ QuietFits(c, task, L!Shown)
  BY <1>1, TaskRunIs
<1>3. c.at = "items" /\ x \in c.lib /\ k = TaskDone(c, x)
  BY <1>1
<1>4. \A y, z \in c.lib : L!Source(y) = L!Source(z) => y = z
  BY <1>2 DEF TaskFits
<1>5. /\ k.kind = c.kind /\ k.name = c.name /\ k.pub = c.pub /\ k.seen = c.seen
      /\ k.quiet = c.quiet /\ k.names = c.names /\ k.lib = c.lib \ {x} /\ k.at \in {"items", "done"}
      /\ \A s : Wants(c, s) /\ s # L!Source(x) => Wants(k, s)
  BY <1>3, <1>4, ItemDone
<1> SUFFICES ASSUME c.quiet PROVE QuietFits(k, rows, L!Shown)
  BY <1>5 DEF QuietFits
<1>6. /\ Served(L!Source(x), k.kind, rows, L!Shown)
      /\ \A i \in DOMAIN task : i \in DOMAIN rows /\
             (rows[i] = task[i] \/ (task[i].from = L!Source(x) /\ rows[i].from = L!Source(x) /\ ~rows[i].deleted))
  BY <1>1
<1> HIDE DEF TasksInv
<1>7. \A y \in k.lib : y.body = L!Shown[L!Source(y)]
  BY <1>2, <1>3, <1>5 DEF QuietFits
<1>8. ASSUME NEW s \in L!Sources, L!Shown[s] # 0, k.kind = "copy" => s = <<k.pub, k.name>>
      PROVE  Wants(k, s) \/ Served(s, k.kind, rows, L!Shown)
  <2>1. CASE s = L!Source(x)
    BY <1>6, <2>1
  <2>2. CASE s # L!Source(x)
    <3>1. Wants(c, s) \/ Served(s, c.kind, task, L!Shown)
      BY <1>2, <1>3, <1>5, <1>8 DEF QuietFits
    <3>2. CASE Wants(c, s)
      BY <1>5, <2>2, <3>2
    <3>3. CASE Served(s, c.kind, task, L!Shown)
      <4>1. PICK i \in DOMAIN task :
              /\ task[i].project = Consumer /\ ~task[i].deleted
              /\ \/ task[i].from = s /\ task[i].body = L!Shown[s]
                 \/ c.kind = "sync" /\ task[i].from = NoSource /\ task[i].name = s[2]
        BY <3>3 DEF Served
      <4>2. L!Source(x) # NoSource
        <5>1. x \in TaskItem
          BY <1>3 DEF TaskRun
        <5>2. L!Source(x) \in L!Sources
          BY <5>1 DEF TaskItem, L!Source, L!Sources, TaskName
        <5> QED
          BY <5>2 DEF TaskBounds
      <4>3. task[i].from # L!Source(x)
        BY <2>2, <4>1, <4>2
      <4>4. i \in DOMAIN rows /\ rows[i] = task[i]
        BY <1>6, <4>3
      <4> QED
        BY <1>5, <4>1, <4>4 DEF Served
    <3> QED
      BY <3>1, <3>2, <3>3
  <2> QED
    BY <2>1, <2>2
<1>9. ASSUME NEW t \in k.seen PROVE ~rows[t.id].deleted /\ rows[t.id].from = t.from
  <2>1. ~task[t.id].deleted /\ task[t.id].from = t.from /\ t.id \in DOMAIN task
    BY <1>2, <1>3, <1>5, <1>9 DEF QuietFits, TaskFits, SeenFits
  <2> QED
    BY <1>6, <2>1
<1> QED
  BY <1>5, <1>7, <1>8, <1>9 DEF QuietFits

\* The run r has the item x in hand.
ItemFacts(r, x, c, k) ==
    /\ c = taskRun[r] /\ c \in TaskRun /\ x \in c.lib /\ c.at = "items" /\ k = TaskDone(c, x)
    /\ TaskFits(c, task, untagged) /\ QuietFits(c, task, L!Shown)
    /\ x \in TaskItem /\ L!Source(x) \in L!Sources /\ L!Source(x) # NoSource /\ L!Source(x)[2] = x.name
    /\ k \in TaskRun /\ k.kind = c.kind /\ k.kind \in {"sync", "copy"} /\ k.name = c.name /\ k.pub = c.pub
    /\ k.seen = c.seen /\ k.quiet = c.quiet /\ k.names = c.names /\ k.lib = c.lib \ {x} /\ k.at \in {"items", "done"}
    /\ \A s : Wants(k, s) => Wants(c, s) /\ s # L!Source(x)
    /\ Wants(c, L!Source(x))

LEMMA ItemHas ==
    ASSUME TaskBounds, TasksInv, NEW r \in Requests, taskRun[r].at = "items", NEW x \in taskRun[r].lib
    PROVE  \E c, k : ItemFacts(r, x, c, k)
<1>1. PICK c \in TaskRun : c = taskRun[r]
  BY TaskRunIs
<1>2. PICK k : k = TaskDone(c, x)
  OBVIOUS
<1>3. TaskFits(c, task, untagged) /\ QuietFits(c, task, L!Shown)
  BY <1>1, TaskRunIs
<1>4. c.at = "items" /\ x \in c.lib
  BY <1>1
<1>5. \A y, z \in c.lib : L!Source(y) = L!Source(z) => y = z
  BY <1>3 DEF TaskFits
<1>6. /\ k \in TaskRun /\ k.kind = c.kind /\ k.name = c.name /\ k.pub = c.pub /\ k.seen = c.seen
      /\ k.quiet = c.quiet /\ k.names = c.names /\ k.lib = c.lib \ {x} /\ k.at \in {"items", "done"}
      /\ \A s : Wants(k, s) => Wants(c, s) /\ s # L!Source(x)
  BY <1>2, <1>4, <1>5, ItemDone
<1>7. x \in TaskItem
  BY <1>4 DEF TaskRun
<1>8. L!Source(x) \in L!Sources /\ L!Source(x)[2] = x.name
  BY <1>7 DEF TaskItem, L!Source, L!Sources, TaskName
<1>9. L!Source(x) # NoSource
  BY <1>8 DEF TaskBounds
<1>10. k.kind \in {"sync", "copy"}
  BY <1>3, <1>4, <1>6 DEF TaskFits
<1>11. Wants(c, L!Source(x))
  BY <1>4 DEF Wants
<1>12. ItemFacts(r, x, c, k)
  BY <1>1, <1>2, <1>3, <1>4, <1>6, <1>7, <1>8, <1>9, <1>10, <1>11 DEF ItemFacts
<1> QED
  BY <1>12

\* A local task has precedence: nothing is written.
LEMMA ItemSkips ==
    ASSUME TaskBounds, TasksInv, NEW r \in Requests, NEW x, NEW c, NEW k, ItemFacts(r, x, c, k),
           L!Locals(c, x) # {}, k.kind = "sync", taskRun' = [taskRun EXCEPT ![r] = k],
           UNCHANGED <<library, shelf, task, taskClash, untagged, taskCame, taskWrites, taskFails>>
    PROVE  TasksInv'
<1>1. /\ c = taskRun[r] /\ x \in c.lib /\ c.at = "items" /\ k = TaskDone(c, x)
      /\ TaskFits(c, task, untagged) /\ QuietFits(c, task, L!Shown)
      /\ L!Source(x)[2] = x.name /\ k \in TaskRun /\ k.kind = c.kind /\ k.kind \in {"sync", "copy"}
      /\ k.seen = c.seen /\ k.quiet = c.quiet /\ k.lib = c.lib \ {x} /\ k.at \in {"items", "done"}
      /\ \A s : Wants(k, s) => Wants(c, s)
  BY DEF ItemFacts
<1>2. PICK t \in c.seen : t.from = NoSource /\ t.name = x.name
  BY DEF L!Locals
<1>3. SeenFits(t, task, untagged)
  BY <1>1, <1>2 DEF TaskFits
<1>4. c.quiet => Served(L!Source(x), k.kind, task, L!Shown)
  <2> SUFFICES ASSUME c.quiet PROVE Served(L!Source(x), k.kind, task, L!Shown)
    OBVIOUS
  <2>1. ~task[t.id].deleted /\ task[t.id].from = t.from
    BY <1>1, <1>2 DEF QuietFits
  <2> QED
    BY <1>1, <1>2, <1>3, <2>1 DEF Served, SeenFits
<1>5. QuietFits(k, task, L!Shown)
  <2>1. taskRun[r].at = "items" /\ x \in taskRun[r].lib /\ k = TaskDone(taskRun[r], x)
        /\ (taskRun[r].quiet => Served(L!Source(x), k.kind, task, L!Shown))
    BY <1>1, <1>4
  <2> HIDE DEF TasksInv
  <2> QED
    BY <2>1, ItemQuiet
<1>6. TaskFits(k, task, untagged)
  BY <1>1 DEF TaskFits
<1>7. \A s \in L!Sources : Wants(k, s) => Wants(taskRun[r], s) /\ k.seen = taskRun[r].seen
  BY <1>1
<1>8. taskCame' \in 0..TaskRuns /\ taskFails' \in 0..1
  BY TaskTyping
<1> HIDE DEF TasksInv
<1> QED
  BY <1>1, <1>5, <1>6, <1>7, <1>8, TaskTurns

\* The row that was seen with the tag takes the library's body.
LEMMA ItemUpdates ==
    ASSUME TaskBounds, TasksInv, NEW r \in Requests, NEW x, NEW c, NEW k, ItemFacts(r, x, c, k),
           NEW t \in c.seen, t.from = L!Source(x),
           task' = [task EXCEPT ![t.id].body = x.body, ![t.id].from = L!Source(x)],
           taskRun' = L!Unquiet([taskRun EXCEPT ![r] = k], r),
           UNCHANGED <<library, shelf, taskClash, untagged, taskCame, taskWrites, taskFails>>
    PROVE  TasksInv'
<1>1. /\ c = taskRun[r] /\ x \in c.lib /\ c.at = "items" /\ k = TaskDone(c, x)
      /\ TaskFits(c, task, untagged) /\ QuietFits(c, task, L!Shown)
      /\ x \in TaskItem /\ L!Source(x) \in L!Sources /\ L!Source(x) # NoSource /\ L!Source(x)[2] = x.name
      /\ k \in TaskRun /\ k.kind = c.kind /\ k.kind \in {"sync", "copy"}
      /\ k.seen = c.seen /\ k.quiet = c.quiet /\ k.lib = c.lib \ {x} /\ k.at \in {"items", "done"}
      /\ \A s : Wants(k, s) => Wants(c, s)
      /\ Wants(c, L!Source(x))
  BY DEF ItemFacts
<1>2. PICK i : i = t.id
  OBVIOUS
<1>3. SeenFits(t, task, untagged)
  BY <1>1 DEF TaskFits
<1>4. /\ i \in DOMAIN task /\ task[i].project = Consumer /\ task[i].name = L!Source(x)[2]
      /\ task[i].from \in {NoSource, L!Source(x)} /\ (task[i].own = 0 \/ i \in untagged)
  BY <1>1, <1>2, <1>3 DEF SeenFits
<1>5. PICK old \in AnyTask : old = task[i]
  BY <1>4, TaskTyping
<1> DEFINE row == [old EXCEPT !.body = x.body, !.from = L!Source(x)]
<1>6. /\ row \in AnyTask /\ row.project = old.project /\ row.name = old.name /\ row.from = L!Source(x)
      /\ row.deleted = old.deleted /\ row.body = x.body /\ row.own = old.own
  BY <1>1 DEF AnyTask, TaskItem
<1>7. task' = [task EXCEPT ![i] = row]
  BY <1>2, <1>4, <1>5, TaskTyping
<1> HIDE DEF row
<1>8. PICK rows \in Seq(AnyTask) : rows = [task EXCEPT ![i] = row]
  <2>1. i \in 1..Len(task) /\ task \in Seq(AnyTask)
    BY <1>4, TaskTyping
  <2>2. [task EXCEPT ![i] = row] \in Seq(AnyTask)
    BY <1>6, <2>1, ExceptSeq
  <2> QED
    BY <2>2
<1>9. DOMAIN rows = DOMAIN task /\ rows[i] = row /\ \A j \in DOMAIN task \ {i} : rows[j] = task[j]
  BY <1>4, <1>8, TaskTyping
<1>10. PICK runs : runs = L!Unquiet([taskRun EXCEPT ![r] = k], r)
  OBVIOUS
<1>11. Disturbs(taskRun, runs, r) /\ runs[r] = k
  <2>1. taskRun \in [Requests -> TaskRun]
    BY TaskTyping
  <2>2. k \in TaskRun
    BY <1>1
  <2>3. TurnsTo(taskRun, r, k, runs)
    BY Zenon, <1>10, <2>1, <2>2, UnquietBut
  <2> QED
    BY <2>3 DEF TurnsTo
<1>12. ASSUME NEW j \in DOMAIN rows PROVE RowFits(rows[j], j \notin untagged)
  <2>1. CASE j = i
    BY <1>1, <1>4, <1>5, <1>6, <1>9, <2>1 DEF RowFits
  <2>2. CASE j # i
    BY <1>9, <2>2 DEF TasksInv
  <2> QED
    BY <2>1, <2>2
<1>13. \A j \in DOMAIN task : rows[j].project = task[j].project /\ rows[j].name = task[j].name
  BY <1>5, <1>6, <1>9
<1>14. ASSUME NEW q \in Requests, NEW s \in taskRun[q].seen, s.from # NoSource
       PROVE  rows[s.id].from \in {NoSource, s.from} /\ (rows[s.id].own = 0 \/ s.id \in untagged)
  <2>1. SeenFits(s, task, untagged)
    BY TaskRunIs DEF TaskFits
  <2>2. CASE s.id = i
    <3>1. s.from = t.from
      BY <1>1, <1>2, <1>14, <2>2 DEF TasksInv, SeensAgree
    <3> QED
      BY <1>4, <1>5, <1>6, <1>9, <2>2, <3>1
  <2>3. CASE s.id # i
    BY <1>9, <1>14, <2>1, <2>3 DEF SeenFits
  <2> QED
    BY <2>2, <2>3
<1>15. \A q \in Requests : \A s : Wants(runs[q], s) => Wants(taskRun[q], s) /\ runs[q].seen = taskRun[q].seen
  <2>1. \A s : Wants(runs[r], s) => Wants(taskRun[r], s) /\ runs[r].seen = taskRun[r].seen
    BY <1>1, <1>11
  <2>2. \A q \in Requests \ {r} : \A s : Wants(runs[q], s) => Wants(taskRun[q], s) /\ runs[q].seen = taskRun[q].seen
    BY <1>11 DEF Disturbs, Wants
  <2> QED
    BY <2>1, <2>2
<1>16. ClaimsApart(rows, runs, taskClash)
  <2>1. ASSUME NEW s \in L!Sources, NEW j \in DOMAIN rows, Claimed(j, s, rows, runs)
        PROVE  Claimed(j, s, task, taskRun)
    <3>1. j \in DOMAIN task /\ task[j].project = Consumer /\ ~task[j].deleted
      BY <1>5, <1>6, <1>9, <2>1 DEF Claimed
    <3>2. CASE rows[j].from # s
      <4>1. PICK q \in Requests : Wants(runs[q], s) /\ \E u \in runs[q].seen : u.id = j /\ u.from = s
        BY <2>1, <3>2 DEF Claimed
      <4>2. Wants(taskRun[q], s) /\ \E u \in taskRun[q].seen : u.id = j /\ u.from = s
        BY <1>15, <4>1
      <4> QED
        BY <3>1, <4>2 DEF Claimed
    <3>3. CASE rows[j].from = s /\ j = i
      <4>1. Wants(taskRun[r], s) /\ t \in taskRun[r].seen /\ t.id = j /\ t.from = s
        BY <1>1, <1>2, <1>6, <1>9, <3>3
      <4> QED
        BY <3>1, <4>1 DEF Claimed
    <3>4. CASE rows[j].from = s /\ j # i
      <4>1. task[j].from = s
        BY <1>9, <3>1, <3>4
      <4> QED
        BY <3>1, <4>1 DEF Claimed
    <3> QED
      BY <3>2, <3>3, <3>4
  <2>2. ClaimsApart(task, taskRun, taskClash)
    BY DEF TasksInv
  <2> QED
    BY <1>9, <1>15, <2>1, <2>2, ClaimsKept
<1>17. c.quiet => ~task[i].deleted /\ task[i].from = L!Source(x)
  BY <1>1, <1>2 DEF QuietFits
<1>18. QuietFits(k, rows, L!Shown)
  <2>1. c.quiet => Served(L!Source(x), k.kind, rows, L!Shown)
    <3>1. c.quiet => x.body = L!Shown[L!Source(x)]
      BY <1>1 DEF QuietFits
    <3> QED
      BY <1>4, <1>5, <1>6, <1>9, <1>17, <3>1 DEF Served
  <2>2. c.quiet => \A j \in DOMAIN task : j \in DOMAIN rows /\
            (rows[j] = task[j] \/ (task[j].from = L!Source(x) /\ rows[j].from = L!Source(x) /\ ~rows[j].deleted))
    BY <1>5, <1>6, <1>9, <1>17
  <2>3. taskRun[r].at = "items" /\ x \in taskRun[r].lib /\ k = TaskDone(taskRun[r], x)
    BY <1>1
  <2> HIDE DEF TasksInv
  <2> QED
    BY <1>1, <2>1, <2>2, <2>3, ItemQuiet
<1>19. TaskFits(k, rows, untagged)
  <2>1. ASSUME NEW s \in k.seen PROVE SeenFits(s, rows, untagged)
    <3>1. SeenFits(s, task, untagged)
      BY <1>1, <2>1 DEF TaskFits
    <3> QED
      BY <1>1, <1>9, <1>13, <1>14, <2>1, <3>1 DEF SeenFits
  <2>2. \A y, z \in k.lib : L!Source(y) = L!Source(z) => y = z
    BY <1>1 DEF TaskFits
  <2> QED
    BY <1>1, <2>1, <2>2 DEF TaskFits
<1>20. /\ library \in [L!Sources -> 0..TaskBodies] /\ taskClash \in SUBSET L!Sources
       /\ untagged \in SUBSET (DOMAIN rows) /\ DOMAIN task \subseteq DOMAIN rows
  BY <1>9, TaskTyping
<1>21. runs[r].seen = taskRun[r].seen
  BY <1>1, <1>11
<1>22. TaskPut(r, rows, runs, L!Shown, taskClash, untagged)
  BY <1>11, <1>12, <1>13, <1>14, <1>16, <1>18, <1>19, <1>20, <1>21 DEF TaskPut
<1>23. /\ task' = rows /\ taskRun' = runs /\ taskClash' = taskClash /\ untagged' = untagged
       /\ taskCame' \in 0..TaskRuns /\ taskWrites' \in 0..TaskWrites /\ taskFails' \in 0..1
  BY <1>7, <1>8, <1>10, TaskTyping
<1> HIDE DEF TasksInv
<1> QED
  BY <1>22, <1>23, ShelfStays, TaskPuts

\* No row that there was is claimed for a source that no other run has in hand, of which a run
\* that has it in hand saw neither a row nor a local task.
LEMMA NoneClaimed ==
    ASSUME TaskBounds, TasksInv, NEW r \in Requests, NEW x, NEW c, NEW k, ItemFacts(r, x, c, k),
           L!Forked(c, x) = {}, L!Locals(c, x) = {}, L!Source(x) \notin taskClash,
           NEW i \in DOMAIN task, task[i].project = Consumer, ~task[i].deleted, task[i].from = L!Source(x)
    PROVE  FALSE
<1>1. /\ c = taskRun[r] /\ TaskFits(c, task, untagged)
      /\ L!Source(x) \in L!Sources /\ L!Source(x) # NoSource /\ L!Source(x)[2] = x.name
      /\ Wants(c, L!Source(x))
  BY DEF ItemFacts
<1>2. Claimed(i, L!Source(x), task, taskRun)
  BY DEF Claimed
<1>3. PICK t \in c.seen : t.id = i
  <2>1. ClaimsApart(task, taskRun, taskClash)
    BY DEF TasksInv
  <2> QED
    BY <1>1, <1>2, <2>1 DEF ClaimsApart
<1>4. SeenFits(t, task, untagged)
  BY <1>1 DEF TaskFits
<1>5. CASE t.from = NoSource
  <2>1. task[i].name = x.name
    BY <1>1 DEF TasksInv, RowFits
  <2>2. t.name = x.name
    BY <1>3, <1>4, <2>1 DEF SeenFits
  <2> QED
    BY <1>5, <2>2 DEF L!Locals
<1>6. CASE t.from # NoSource
  <2>1. t.from = L!Source(x)
    BY <1>1, <1>3, <1>4, <1>6 DEF SeenFits
  <2> QED
    BY <2>1 DEF L!Forked
<1> QED
  BY <1>5, <1>6

\* A source of which the run saw nothing gets a row.
LEMMA ItemCreates ==
    ASSUME TaskBounds, TasksInv, NEW r \in Requests, NEW x, NEW c, NEW k, ItemFacts(r, x, c, k),
           L!Forked(c, x) = {}, L!Locals(c, x) = {}, L!Create(r, x),
           taskRun' = L!Unquiet([taskRun EXCEPT ![r] = k], r),
           UNCHANGED <<library, shelf, untagged, taskCame, taskWrites, taskFails>>
    PROVE  TasksInv'
<1>1. /\ c = taskRun[r] /\ x \in c.lib /\ c.at = "items" /\ k = TaskDone(c, x)
      /\ TaskFits(c, task, untagged) /\ QuietFits(c, task, L!Shown)
      /\ x \in TaskItem /\ L!Source(x) \in L!Sources /\ L!Source(x) # NoSource /\ L!Source(x)[2] = x.name
      /\ k \in TaskRun /\ k.kind = c.kind /\ k.kind \in {"sync", "copy"}
      /\ k.seen = c.seen /\ k.quiet = c.quiet /\ k.lib = c.lib \ {x} /\ k.at \in {"items", "done"}
      /\ \A s : Wants(k, s) => Wants(c, s) /\ s # L!Source(x)
  BY DEF ItemFacts
<1>2. /\ task' = Append(task, L!Row(Consumer, x.name, L!Source(x), x.body))
      /\ taskClash' = IF L!Others(r, x) = {} THEN taskClash ELSE taskClash \cup {L!Source(x)}
  BY DEF L!Create
<1>3. PICK row \in AnyTask : /\ row = L!Row(Consumer, x.name, L!Source(x), x.body) /\ row.project = Consumer
                             /\ row.from = L!Source(x) /\ row.own = 0 /\ row.body = x.body /\ ~row.deleted
                             /\ row.name = x.name
  <2>1. x.body \in 1..TaskBodies /\ x.name \in TaskName /\ 0 \in 0..TaskBodies /\ Consumer \in Publishers \cup {Consumer}
    BY <1>1 DEF TaskBounds, TaskItem
  <2> DEFINE row == [project |-> Consumer, name |-> x.name, from |-> L!Source(x), body |-> x.body,
                     own |-> 0, deleted |-> FALSE]
  <2>2. L!Row(Consumer, x.name, L!Source(x), x.body) = row
    BY <1>1 DEF L!Row
  <2>3. row \in AnyTask
    BY <1>1, <2>1 DEF AnyTask
  <2>4. /\ row.project = Consumer /\ row.from = L!Source(x) /\ row.own = 0 /\ row.body = x.body /\ ~row.deleted
        /\ row.name = x.name
    OBVIOUS
  <2> QED
    BY <2>2, <2>3, <2>4
<1>4. PICK n : n = Len(task) + 1
  OBVIOUS
<1>5. PICK rows \in Seq(AnyTask) :
        /\ rows = Append(task, row) /\ DOMAIN rows = DOMAIN task \cup {n}
        /\ n \notin DOMAIN task /\ rows[n] = row
        /\ \A j \in DOMAIN task : rows[j] = task[j]
  BY <1>4, TaskAppends
<1>6. PICK runs : runs = L!Unquiet([taskRun EXCEPT ![r] = k], r)
  OBVIOUS
<1>7. Disturbs(taskRun, runs, r) /\ runs[r] = k
  <2>1. taskRun \in [Requests -> TaskRun]
    BY TaskTyping
  <2>2. k \in TaskRun
    BY <1>1
  <2>3. TurnsTo(taskRun, r, k, runs)
    BY Zenon, <1>6, <2>1, <2>2, UnquietBut
  <2> QED
    BY <2>3 DEF TurnsTo
<1>8. ASSUME NEW j \in DOMAIN rows PROVE RowFits(rows[j], j \notin untagged)
  <2>1. CASE j = n
    BY <1>1, <1>3, <1>5, <2>1 DEF RowFits
  <2>2. CASE j \in DOMAIN task
    BY <1>5, <2>2 DEF TasksInv
  <2> QED
    BY <1>5, <2>1, <2>2
<1>9. ASSUME NEW q \in Requests, NEW t \in taskRun[q].seen
      PROVE  /\ t.id \in DOMAIN task
             /\ t.from # NoSource =>
                   rows[t.id].from \in {NoSource, t.from} /\ (rows[t.id].own = 0 \/ t.id \in untagged)
  BY <1>5, TaskRunIs DEF TaskFits, SeenFits
<1>10. \A q \in Requests : \A s : Wants(runs[q], s) => Wants(taskRun[q], s) /\ runs[q].seen = taskRun[q].seen
  <2>1. \A s : Wants(runs[r], s) => Wants(taskRun[r], s) /\ runs[r].seen = taskRun[r].seen
    BY <1>1, <1>7
  <2>2. \A q \in Requests \ {r} : \A s : Wants(runs[q], s) => Wants(taskRun[q], s) /\ runs[q].seen = taskRun[q].seen
    BY <1>7 DEF Disturbs, Wants
  <2> QED
    BY <2>1, <2>2
<1>11. \A q \in Requests : \A t \in runs[q].seen : t.id \in DOMAIN task
  <2>1. \A q \in Requests : runs[q].seen = taskRun[q].seen
    <3>1. runs[r].seen = taskRun[r].seen
      BY <1>1, <1>7
    <3> QED
      BY <1>7, <3>1 DEF Disturbs
  <2> QED
    BY <1>9, <2>1
<1>12. PICK clash : clash = taskClash'
  OBVIOUS
<1>13. clash \in SUBSET L!Sources /\ taskClash \subseteq clash
  BY <1>1, <1>2, <1>12, TaskTyping
<1>14. ClaimsApart(rows, runs, clash \cup {L!Source(x)})
  <2>1. ASSUME NEW s \in L!Sources \ (clash \cup {L!Source(x)}), NEW j \in DOMAIN rows, Claimed(j, s, rows, runs)
        PROVE  j \in DOMAIN task /\ Claimed(j, s, task, taskRun)
    <3>1. j \in DOMAIN task
      <4>1. rows[n].from # s
        BY <1>3, <1>5
      <4> QED
        BY <1>5, <1>11, <2>1, <4>1 DEF Claimed
    <3> QED
      BY <1>5, <1>10, <2>1, <3>1 DEF Claimed
  <2>2. ClaimsApart(task, taskRun, taskClash) /\ DOMAIN task \subseteq DOMAIN rows
        /\ taskClash \subseteq clash \cup {L!Source(x)}
    BY <1>5, <1>13 DEF TasksInv
  <2> QED
    BY <1>10, <2>1, <2>2, ClaimsKept
<1>15. ASSUME L!Source(x) \notin clash
       PROVE  /\ \A q \in Requests : ~Wants(runs[q], L!Source(x))
              /\ \A j \in DOMAIN rows : Claimed(j, L!Source(x), rows, runs) => j = n
  <2>1. L!Others(r, x) = {} /\ L!Source(x) \notin taskClash
    BY <1>2, <1>12, <1>15
  <2>2. \A q \in Requests \ {r} : ~Wants(taskRun[q], L!Source(x))
    BY <2>1 DEF L!Others, Wants
  <2>3. \A q \in Requests : ~Wants(runs[q], L!Source(x))
    BY <1>1, <1>7, <1>10, <2>2
  <2>4. ASSUME NEW j \in DOMAIN task, Claimed(j, L!Source(x), rows, runs) PROVE FALSE
    <3>1. task[j].project = Consumer /\ ~task[j].deleted /\ task[j].from = L!Source(x)
      BY <1>5, <2>3, <2>4 DEF Claimed
    <3> HIDE DEF TasksInv
    <3> QED
      BY <2>1, <3>1, NoneClaimed
  <2> QED
    BY <1>5, <2>3, <2>4
<1>16. ClaimsApart(rows, runs, clash)
  <2> SUFFICES ASSUME NEW s \in L!Sources \ clash
               PROVE  /\ \A i, j \in DOMAIN rows : Claimed(i, s, rows, runs) /\ Claimed(j, s, rows, runs) => i = j
                      /\ \A q \in Requests, i \in DOMAIN rows :
                            Wants(runs[q], s) /\ Claimed(i, s, rows, runs) => \E t \in runs[q].seen : t.id = i
    BY DEF ClaimsApart
  <2>1. CASE s = L!Source(x)
    BY <1>15, <2>1
  <2>2. CASE s # L!Source(x)
    BY <1>14, <2>2 DEF ClaimsApart
  <2> QED
    BY <2>1, <2>2
<1>17. QuietFits(k, rows, L!Shown)
  <2>1. c.quiet => Served(L!Source(x), k.kind, rows, L!Shown)
    <3>1. c.quiet => x.body = L!Shown[L!Source(x)]
      BY <1>1 DEF QuietFits
    <3> QED
      BY <1>3, <1>5, <3>1 DEF Served
  <2>2. c.quiet => \A j \in DOMAIN task : j \in DOMAIN rows /\
            (rows[j] = task[j] \/ (task[j].from = L!Source(x) /\ rows[j].from = L!Source(x) /\ ~rows[j].deleted))
    BY <1>5
  <2>3. taskRun[r].at = "items" /\ x \in taskRun[r].lib /\ k = TaskDone(taskRun[r], x)
    BY <1>1
  <2> HIDE DEF TasksInv
  <2> QED
    BY <1>1, <2>1, <2>2, <2>3, ItemQuiet
<1>18. TaskFits(k, rows, untagged)
  <2>1. ASSUME NEW s \in k.seen PROVE SeenFits(s, rows, untagged)
    <3>1. SeenFits(s, task, untagged)
      BY <1>1, <2>1 DEF TaskFits
    <3> QED
      BY <1>5, <3>1 DEF SeenFits
  <2>2. \A y, z \in k.lib : L!Source(y) = L!Source(z) => y = z
    BY <1>1 DEF TaskFits
  <2> QED
    BY <1>1, <2>1, <2>2 DEF TaskFits
<1>19. /\ library \in [L!Sources -> 0..TaskBodies] /\ untagged \in SUBSET (DOMAIN rows)
       /\ DOMAIN task \subseteq DOMAIN rows
       /\ \A i \in DOMAIN task : rows[i].project = task[i].project /\ rows[i].name = task[i].name
  BY <1>5, TaskTyping
<1>20. runs[r].seen = taskRun[r].seen
  BY <1>1, <1>7
<1>21. TaskPut(r, rows, runs, L!Shown, clash, untagged)
  BY <1>7, <1>8, <1>9, <1>13, <1>16, <1>17, <1>18, <1>19, <1>20 DEF TaskPut
<1>22. /\ task' = rows /\ taskRun' = runs /\ taskClash' = clash /\ untagged' = untagged
       /\ taskCame' \in 0..TaskRuns /\ taskWrites' \in 0..TaskWrites /\ taskFails' \in 0..1
  BY <1>2, <1>3, <1>5, <1>6, <1>12, TaskTyping
<1> HIDE DEF TasksInv
<1> QED
  BY <1>21, <1>22, ShelfStays, TaskPuts

\* The cases of an item.
LEMMA TaskItems ==
    ASSUME TaskBounds, TasksInv, NEW r \in Requests, L!Item(r)
    PROVE  TasksInv'
<1>1. taskRun[r].at = "items" /\ UNCHANGED <<library, shelf, untagged, taskCame, taskWrites, taskFails>>
  BY DEF L!Item
<1>2. PICK x \in taskRun[r].lib :
        LET done == [taskRun[r] EXCEPT !.lib = @ \ {x}, !.at = IF taskRun[r].lib = {x} THEN "done" ELSE @]
            prior == L!Prior(taskRun[r], x)
        IN IF prior # 0 THEN /\ L!Update(r, x, prior)
                             /\ taskRun' = L!Unquiet([taskRun EXCEPT ![r] = done], r)
           ELSE IF L!TakenLocally(taskRun[r], x)
                THEN /\ L!Set(r, IF taskRun[r].kind = "copy" THEN L!Idle ELSE done)
                     /\ UNCHANGED <<task, taskClash>>
           ELSE /\ L!Create(r, x)
                /\ taskRun' = L!Unquiet([taskRun EXCEPT ![r] = done], r)
  BY DEF L!Item
<1>3. PICK c, k : ItemFacts(r, x, c, k)
  BY <1>1, ItemHas
<1>4. c = taskRun[r] /\ k = TaskDone(taskRun[r], x) /\ k.kind = c.kind /\ k.kind \in {"sync", "copy"}
  BY <1>3 DEF ItemFacts
<1>5. IF L!Prior(c, x) # 0 THEN L!Update(r, x, L!Prior(c, x)) /\ taskRun' = L!Unquiet([taskRun EXCEPT ![r] = k], r)
      ELSE IF L!Locals(c, x) # {}
           THEN L!Set(r, IF c.kind = "copy" THEN L!Idle ELSE k) /\ UNCHANGED <<task, taskClash>>
      ELSE L!Create(r, x) /\ taskRun' = L!Unquiet([taskRun EXCEPT ![r] = k], r)
  BY <1>2, <1>4 DEF TaskDone, L!TakenLocally
<1>6. \A t \in c.seen : t.id \in 1..Len(task)
  <2>1. \A t \in c.seen : t.id \in DOMAIN task
    BY <1>4, TaskRunIs DEF TaskFits, SeenFits
  <2> QED
    BY <2>1, TaskTyping
<1>7. /\ L!Prior(c, x) # 0 => \E t \in c.seen : t.id = L!Prior(c, x) /\ t.from = L!Source(x)
      /\ L!Prior(c, x) = 0 /\ L!Locals(c, x) = {} => L!Forked(c, x) = {}
  <2>1. Len(task) \in Nat
    BY TaskTyping
  <2> QED
    BY <1>6, <2>1, PriorIs
<1> HIDE DEF TasksInv, ItemFacts
<1>8. CASE L!Prior(c, x) # 0
  <2>1. PICK t \in c.seen : t.id = L!Prior(c, x) /\ t.from = L!Source(x)
    BY <1>7, <1>8
  <2>2. /\ task' = [task EXCEPT ![t.id].body = x.body, ![t.id].from = L!Source(x)]
        /\ taskClash' = taskClash /\ taskRun' = L!Unquiet([taskRun EXCEPT ![r] = k], r)
    BY <1>5, <1>8, <2>1 DEF L!Update
  <2> QED
    BY <1>1, <1>3, <2>1, <2>2, ItemUpdates
<1>9. CASE L!Prior(c, x) = 0 /\ L!Locals(c, x) # {}
  <2>1. taskRun' = [taskRun EXCEPT ![r] = IF c.kind = "copy" THEN L!Idle ELSE k] /\ UNCHANGED <<task, taskClash>>
    BY <1>5, <1>9 DEF L!Set
  <2>2. CASE c.kind = "copy"
    <3>1. taskFails' \in 0..1
      BY <1>1, TaskTyping
    <3>2. taskRun' = [taskRun EXCEPT ![r] = L!Idle]
      BY <2>1, <2>2
    <3> QED
      BY <1>1, <2>1, <3>1, <3>2, TaskEnds
  <2>3. CASE c.kind # "copy"
    <3>1. k.kind = "sync" /\ taskRun' = [taskRun EXCEPT ![r] = k]
      BY <1>4, <2>1, <2>3
    <3> QED
      BY <1>1, <1>3, <1>9, <2>1, <3>1, ItemSkips
  <2> QED
    BY <2>2, <2>3
<1>10. CASE L!Prior(c, x) = 0 /\ L!Locals(c, x) = {}
  <2>1. L!Create(r, x) /\ taskRun' = L!Unquiet([taskRun EXCEPT ![r] = k], r) /\ L!Forked(c, x) = {}
    BY <1>5, <1>7, <1>10
  <2> QED
    BY <1>1, <1>3, <1>10, <2>1, ItemCreates
<1> QED
  BY <1>8, <1>9, <1>10

-----------------------------------------------------------------------------
LEMMA TaskStep ==
    ASSUME TaskBounds, TasksInv, L!Next
    PROVE  TasksInv'
<1> HIDE DEF TasksInv
<1>1. ASSUME NEW r \in Requests,
             \/ L!Sync(r) \/ L!Copy(r) \/ L!ListLibrary(r) \/ L!GetBody(r) \/ L!ListRows(r) \/ L!Item(r)
             \/ L!Finish(r) \/ L!Publish(r) \/ L!ReadRow(r) \/ L!Send(r) \/ L!RequestFails(r)
      PROVE  TasksInv'
  BY <1>1, TaskStart, TaskListLibrary, TaskGetBody, TaskListRows, TaskItems, TaskStops, TaskPublish, TaskReadRow, TaskSend
<1>2. CASE L!Edit \/ L!Untag \/ L!Make \/ L!Delete \/ L!Withdraw
  BY <1>2, TaskEdit, TaskUntag, TaskMake, TaskDelete, TaskWithdraw
<1> QED
  BY <1>1, <1>2 DEF L!Next

LEMMA TaskStutters ==
    ASSUME TasksInv, UNCHANGED L!tasksVars
    PROVE  TasksInv'
<1>1. UNCHANGED <<library, shelf, task, taskRun, taskClash, untagged, taskCame, taskWrites, taskFails>>
  BY DEF L!tasksVars
<1>2. TasksTyped'
  BY <1>1 DEF TasksInv, TasksTyped
<1>0. L!Shown' = L!Shown
  BY <1>1, ShelfStays
<1>6. (\A r \in Requests : TaskFits(taskRun[r], task, untagged))' /\ (\A i \in DOMAIN task : RowFits(task[i], i \notin untagged))'
  BY <1>1 DEF TasksInv
<1>7. (\A r \in Requests : QuietFits(taskRun[r], task, L!Shown))'
  <2>1. \A r \in Requests : QuietFits(taskRun[r], task, L!Shown)
    BY DEF TasksInv
  <2> QED
    BY <1>0, <1>1, <2>1
<1>3. /\ (\A r \in Requests : TaskFits(taskRun[r], task, untagged) /\ QuietFits(taskRun[r], task, L!Shown))'
      /\ (\A i \in DOMAIN task : RowFits(task[i], i \notin untagged))'
  BY <1>6, <1>7
<1>4. SeensAgree(taskRun)'
  BY <1>1 DEF TasksInv
<1>5. ClaimsApart(task, taskRun, taskClash)'
  BY <1>1 DEF TasksInv
<1> QED
  BY <1>2, <1>3, <1>4, <1>5 DEF TasksInv

LEMMA TasksSound ==
    ASSUME TaskBounds, TasksInv
    PROVE  L!TypeOK /\ L!LocalWins /\ L!OneRowPerSource /\ L!CaughtUp
<1>1. L!TypeOK
  <2>1. \A r \in Requests :
          /\ taskRun[r].at \in {"idle", "names", "items", "done", "read", "send"}
          /\ taskRun[r].at \in {"items", "done"} => taskRun[r].kind \in {"sync", "copy"}
    BY TaskRunIs DEF TaskRun, TaskFits
  <2>2. task \in Seq([project : Publishers \cup {Consumer}, name : L!At(TaskNames), from : L!Sources \cup {NoSource},
                      body : 1..TaskBodies, own : 0..TaskBodies, deleted : BOOLEAN])
    BY TaskTyping DEF AnyTask, TaskName
  <2> QED
    BY <2>1, <2>2, TaskTyping DEF L!TypeOK, OnShelf
<1>2. L!LocalWins
  BY DEF L!LocalWins, TasksInv, RowFits
<1>3. L!OneRowPerSource
  <2> SUFFICES ASSUME NEW i \in DOMAIN task, NEW j \in DOMAIN task, i < j,
                      task[i].project = Consumer, task[j].project = Consumer,
                      task[i].from # NoSource, task[i].from = task[j].from,
                      ~task[i].deleted, ~task[j].deleted, task[i].from \notin taskClash
               PROVE  FALSE
    BY DEF L!OneRowPerSource
  <2>1. task[i].from \in L!Sources
    <3>1. task[i] \in AnyTask
      BY TaskTyping
    <3> QED
      BY <3>1 DEF AnyTask
  <2>2. Claimed(i, task[i].from, task, taskRun) /\ Claimed(j, task[i].from, task, taskRun)
    BY DEF Claimed
  <2>3. i = j
    BY <2>1, <2>2 DEF TasksInv, ClaimsApart
  <2>4. i \in Nat
    BY TaskTyping
  <2> QED
    BY <2>3, <2>4
<1>4. L!CaughtUp
  <2> SUFFICES ASSUME NEW r \in Requests, taskRun[r].at = "done", taskRun[r].quiet,
                      NEW s \in L!Sources, L!Shown[s] # 0,
                      taskRun[r].kind = "copy" => s = <<taskRun[r].pub, taskRun[r].name>>
               PROVE  Served(s, taskRun[r].kind, task, L!Shown)
    BY DEF L!CaughtUp, L!Alive, Served
  <2>1. QuietFits(taskRun[r], task, L!Shown)
    BY TaskRunIs
  <2>2. ~Wants(taskRun[r], s)
    BY DEF Wants
  <2> QED
    BY <2>1, <2>2 DEF QuietFits
<1> QED
  BY <1>1, <1>2, <1>3, <1>4

\* A project's own task is never taken over by one of a library (LocalWins), a source has one
\* row unless two runs met at it or a run's page did not reach its row (OneRowPerSource), and a
\* run that went through undisturbed leaves what the page of the library shows (CaughtUp).
THEOREM TasksAreSound == TaskBounds => (L!Spec => [](L!TypeOK /\ L!LocalWins /\ L!OneRowPerSource /\ L!CaughtUp))
<1> SUFFICES ASSUME TaskBounds PROVE L!Spec => [](L!TypeOK /\ L!LocalWins /\ L!OneRowPerSource /\ L!CaughtUp)
  OBVIOUS
<1>1. L!Init => TasksInv
  BY TasksInit
<1>2. TasksInv /\ [L!Next]_L!tasksVars => TasksInv'
  BY TaskStep, TaskStutters
<1>3. TasksInv => L!TypeOK /\ L!LocalWins /\ L!OneRowPerSource /\ L!CaughtUp
  BY TasksSound
<1> QED
  BY <1>1, <1>2, <1>3, PTL DEF L!Spec
=============================================================================
