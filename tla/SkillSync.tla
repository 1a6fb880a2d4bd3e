----------------------------- MODULE SkillSync -----------------------------
(***************************************************************************)
(* Pulling one skill or workflow from the server to a clone: skill sync,   *)
(* its narrowed form that deploy runs, and the workflow half               *)
(* (internal/cli/cmd_skill_sync.go, cmd_workflow_sync.go, cmd_deploy.go).  *)
(* A sync lists scope after scope, reads the file and then applies one     *)
(* verdict; rows are published and withdrawn, the file is edited, another  *)
(* sync runs and a sync may be killed in between.  A row has one id per    *)
(* scope.  A list is one page, the newest rows first, and no cursor is     *)
(* followed: it does not reach a row with a page of younger ones.  The     *)
(* scope workspace, which differs from project in precedence only, is left *)
(* out.                                                                    *)
(***************************************************************************)
EXTENDS Naturals, FiniteSets

CONSTANTS
    Bodies,      \* contents a skill may have
    OptedIn,     \* those with the tag sync:true, a subset of Bodies
    Syncs,       \* syncs; each runs once, unless it fails before it has changed anything
    Commands,    \* Commands[s]: how s may go, a subset of Command
    MaxChanges   \* rows published or withdrawn and files edited in one behaviour, other names' included

Scopes == {"library", "system", "project"}

\* How a sync may go: --scope, --on-conflict force or local (a prompt is answered by one of
\* the two), and whether the clone's project and its workspace were found. A lookup that
\* fails is not an error, unless the scope is project. deploy has scope project and local.
Command ==
    {c \in [scope : {"", "system", "project"}, force : BOOLEAN, bound : BOOLEAN] :
        c.scope = "project" => c.bound}

NoStamp == [id |-> "none", version |-> 0, hash |-> "none", legacy |-> FALSE]
Absent == [body |-> "none", stamp |-> NoStamp]
Torn == [body |-> "torn", stamp |-> NoStamp]    \* what a killed write leaves

VARIABLES
    kind,      \* skill or workflow
    row,       \* the server's row in each scope; no body when there is none
    beyond,    \* scopes where listMaxLimit (200) skills of other names are younger than the row
    file,      \* SKILL.md, or the workflow's file
    backups,   \* bodies in the .bak files beside it
    sync,      \* the syncs
    changes    \* how much of MaxChanges is spent

vars == <<kind, row, beyond, file, backups, sync, changes>>

RowOf == [version : Nat, body : Bodies \cup {"none"}]
Stamp == [id : Scopes, version : Nat, hash : Bodies, legacy : BOOLEAN]
File == [body : Bodies, stamp : Stamp \cup {NoStamp}] \cup {Absent, Torn}

Sync ==
    [at : {"idle", "system", "project", "library", "read", "apply", "write", "done"},
     scope : {"", "system", "project"},
     force : BOOLEAN,
     bound : BOOLEAN,
     listed : [Scopes -> RowOf],          \* what it was told, no row where it did not ask
     read : File,
     owned : SUBSET Scopes,   \* history: rows to be kept on disk ever since it began
     touched : BOOLEAN,       \* history: the operator changed the file after it was read
     calm : BOOLEAN]          \* history: nothing but this sync moved since it began

TypeOK ==
    /\ kind \in {"skill", "workflow"}
    /\ row \in [Scopes -> RowOf] /\ beyond \subseteq Scopes
    /\ file \in File
    /\ backups \subseteq Bodies \cup {"torn"}
    /\ sync \in [Syncs -> Sync]
    /\ changes \in 0..MaxChanges

NoRow == [version |-> 0, body |-> "none"]
Idle == [at |-> "idle", scope |-> "", force |-> FALSE, bound |-> FALSE,
         listed |-> [c \in Scopes |-> NoRow], read |-> Absent,
         owned |-> {}, touched |-> FALSE, calm |-> FALSE]

\* materialise
Materialised(c, r) ==
    [body |-> r.body, stamp |-> [id |-> c, version |-> r.version, hash |-> r.body, legacy |-> FALSE]]

\* Rows of a second version, and a file that an earlier sync took from the first or the
\* second of one of them, edited since or not, by an older client or not, or the
\* operator's own.
Init ==
    /\ kind \in {"skill", "workflow"}
    /\ row \in [Scopes -> [version : {2}, body : Bodies] \cup {NoRow}]
    /\ beyond \in SUBSET {c \in Scopes : row[c] # NoRow}
    /\ \/ file = Absent
       \/ file \in {[body |-> b, stamp |-> NoStamp] : b \in Bodies}
       \/ \E c \in {d \in Scopes : row[d].body # "none"}, old \in 1..2, h, b \in Bodies, legacy \in BOOLEAN :
            /\ old = 2 => h = row[c].body
            /\ file = [body |-> b,
                       stamp |-> [id |-> c, version |-> old, hash |-> h, legacy |-> legacy]]
    /\ backups = {}
    /\ sync = [s \in Syncs |-> Idle]
    /\ changes = 0

-----------------------------------------------------------------------------
\* keepSyncable filters skills; a workflow needs no tag.
Kept(body) == body \in Bodies /\ (kind = "skill" => body \in OptedIn)

\* Workflows are not taken from the library: isWorkflowBody.
Asked == IF kind = "skill" THEN Scopes ELSE Scopes \ {"library"}

Owned(rows) == {c \in Asked : Kept(rows[c].body)}

\* The rows of the name as the lists have them.
Shown == [c \in Scopes |-> IF c \in beyond THEN NoRow ELSE row[c]]

Rank == [library |-> 1, system |-> 2, project |-> 3]

\* mergeByPrecedence
Wins(S) == CHOOSE c \in S : \A d \in S : Rank[d] <= Rank[c]

\* subs: the union, or one scope of it.
Chosen(y) == Owned(y.listed) \cap (IF y.scope = "" THEN Scopes ELSE {y.scope})
Winner(y) == Wins(Chosen(y))
Sub(y) == y.listed[Winner(y)]

\* A stamp that cannot be parsed counts as none.
Stamped(f) == f.stamp # NoStamp

Edited(f) == Stamped(f) /\ f.body # f.stamp.hash

\* Mutant: the version is compared before the body is.
ConflictsUnlessBehind(y) ==
    \/ Edited(y.read) /\ (Chosen(y) # {} => Sub(y).version <= y.read.stamp.version)
    \/ y.read # Absent /\ ~ Stamped(y.read) /\ Chosen(y) # {} /\ y.read.body # Sub(y).body

\* actionConflict
Conflicts(y) ==
    \/ Edited(y.read)
    \/ y.read # Absent /\ ~ Stamped(y.read) /\ Chosen(y) # {} /\ y.read.body # Sub(y).body

\* actionInstall, actionMatchUnstamped, actionUpdate, actionMigrate
Materialises(y) ==
    /\ Chosen(y) # {}
    /\ ~ Conflicts(y)
    /\ \/ ~ Stamped(y.read)
       \/ y.read.stamp.id # Winner(y)
       \/ y.read.stamp.version < Sub(y).version
       \/ y.read.stamp.legacy

\* protected: a name that any scope still has. Workflows come from all scopes at once.
Protected(y) == Owned(y.listed) # {}

\* actionRemove
Removes(y) == Stamped(y.read) /\ ~ Conflicts(y) /\ Chosen(y) = {} /\ ~ Protected(y)

-----------------------------------------------------------------------------
\* The syncs after somebody changed what they read.
Disturbed == [t \in Syncs |-> [sync[t] EXCEPT !.calm = FALSE]]
Steps(s, y) == sync' = [sync EXCEPT ![s] = y]

\* syncSkills up to its first list. Workflows are synced whatever scope and policy are.
Start(s) ==
    /\ sync[s].at = "idle"
    /\ \E c \in Commands[s] :
         Steps(s, [Idle EXCEPT !.at = "system", !.bound = c.bound,
                               !.scope = IF kind = "skill" THEN c.scope ELSE "",
                               !.force = kind = "skill" /\ c.force,
                               !.owned = Owned(Shown), !.calm = TRUE])
    /\ UNCHANGED <<kind, row, beyond, file, backups, changes>>

After(y) ==
    IF y.at = "system" /\ y.bound THEN "project"
    ELSE IF y.at # "library" /\ kind = "skill" THEN "library" ELSE "read"

\* listSubstrateSkills of one scope, listSubstrateWorkflows: one page of it.
List(s) ==
    /\ sync[s].at \in Scopes
    /\ Steps(s, [sync[s] EXCEPT !.listed[sync[s].at] = Shown[sync[s].at], !.at = After(sync[s])])
    /\ UNCHANGED <<kind, row, beyond, file, backups, changes>>

\* A call fails and the sync returns, having changed nothing.
ListFails(s) ==
    /\ sync[s].at \in Scopes
    /\ Steps(s, Idle)
    /\ UNCHANGED <<kind, row, beyond, file, backups, changes>>

\* readLocalSkill, readStampedLocalSkills, and the same of workflows.
Read(s) ==
    /\ sync[s].at = "read"
    /\ Steps(s, [sync[s] EXCEPT !.at = "apply", !.read = file])
    /\ UNCHANGED <<kind, row, beyond, file, backups, changes>>

\* A sync that has ended is known by how it was run.
Done(y) == [Idle EXCEPT !.at = "done", !.scope = y.scope, !.force = y.force,
                        !.bound = y.bound, !.calm = y.calm]

\* Whoever else syncs is disturbed.
Puts(s, f) ==
    /\ file' = f
    /\ sync' = [Disturbed EXCEPT ![s] = Done(sync[s])]
    /\ UNCHANGED <<kind, row, beyond, changes>>

\* applySyncItem writes.
Write(s) ==
    /\ \/ sync[s].at = "apply" /\ Materialises(sync[s])
       \/ sync[s].at = "write"
    /\ Puts(s, Materialised(Winner(sync[s]), Sub(sync[s])))
    /\ UNCHANGED backups

\* The process is killed when the file is truncated and not yet written.
WriteTorn(s) ==
    /\ \/ sync[s].at = "apply" /\ Materialises(sync[s])
       \/ sync[s].at = "write"
    /\ file' = Torn
    /\ sync' = [Disturbed EXCEPT ![s] = Idle]
    /\ UNCHANGED <<kind, row, beyond, backups, changes>>

\* resolveConflict with force: backupSkill copies the file as it is now, if there is one.
Backup(s) ==
    /\ sync[s].at = "apply"
    /\ Conflicts(sync[s]) /\ sync[s].force /\ Chosen(sync[s]) # {}
    /\ IF file = Absent
       THEN Steps(s, Done([sync[s] EXCEPT !.calm = FALSE])) /\ UNCHANGED backups
       ELSE /\ backups' = backups \cup {file.body}
            /\ Steps(s, [sync[s] EXCEPT !.at = "write", !.touched = FALSE])
    /\ UNCHANGED <<kind, row, beyond, file, changes>>

\* applySyncItem, applyWorkflowSyncItem: a skill goes with its directory.
Remove(s) ==
    /\ sync[s].at = "apply"
    /\ Removes(sync[s])
    /\ Puts(s, Absent)
    /\ backups' = IF kind = "skill" THEN {} ELSE backups

\* actionSkip, actionLeaveUnstamped, and a conflict that is kept.
Keep(s) ==
    /\ sync[s].at = "apply"
    /\ ~ Materialises(sync[s]) /\ ~ Removes(sync[s])
    /\ Conflicts(sync[s]) /\ sync[s].force => Chosen(sync[s]) = {}
    /\ Steps(s, Done(sync[s]))
    /\ UNCHANGED <<kind, row, beyond, file, backups, changes>>

-----------------------------------------------------------------------------
\* The rows after a change of one; a row that is not kept any more owns nothing.
RowBecomes(c, r) ==
    /\ row' = [row EXCEPT ![c] = r]
    /\ sync' = [s \in Syncs |-> [sync[s] EXCEPT !.calm = FALSE,
                                                !.owned = IF Kept(r.body) THEN @ ELSE @ \ {c}]]
    /\ UNCHANGED <<kind, beyond, file, backups>>

\* document_upsert of another body; it revives a row that was withdrawn, which stays as old as
\* it was.
Publish(c, b) ==
    /\ changes < MaxChanges /\ changes' = changes + 1
    /\ b # row[c].body
    /\ RowBecomes(c, [version |-> row[c].version + 1, body |-> b])

\* document_delete adds a version, too.
Withdraw(c) ==
    /\ changes < MaxChanges /\ changes' = changes + 1
    /\ row[c].body # "none"
    /\ RowBecomes(c, [version |-> row[c].version + 1, body |-> "none"])

\* A skill of another name is published, or withdrawn, and the list ends on the other side of
\* this one; a row the list does not reach owns nothing.
Crowd(c) ==
    /\ changes < MaxChanges /\ changes' = changes + 1
    /\ row[c].version # 0
    /\ beyond' = IF c \in beyond THEN beyond \ {c} ELSE beyond \cup {c}
    /\ sync' = [s \in Syncs |-> [sync[s] EXCEPT !.calm = FALSE, !.owned = @ \ beyond']]
    /\ UNCHANGED <<kind, row, file, backups>>

\* The operator edits the file, with or without its stamp, writes it anew, or deletes it.
Edit(f) ==
    /\ changes < MaxChanges /\ changes' = changes + 1
    /\ f # file
    /\ f.stamp \in {file.stamp, NoStamp}
    /\ file' = f
    /\ sync' = [s \in Syncs |-> [sync[s] EXCEPT !.calm = FALSE,
                                     !.touched = @ \/ sync[s].at \in {"apply", "write"}]]
    /\ UNCHANGED <<kind, row, beyond, backups>>

Edits == {[body |-> b, stamp |-> t] : b \in Bodies, t \in {file.stamp, NoStamp}} \cup {Absent}

Next ==
    \/ \E s \in Syncs : \/ Start(s) \/ List(s) \/ ListFails(s) \/ Read(s)
                        \/ Write(s) \/ WriteTorn(s) \/ Backup(s) \/ Remove(s) \/ Keep(s)
    \/ \E c \in Scopes : Withdraw(c) \/ Crowd(c) \/ \E b \in Bodies : Publish(c, b)
    \/ \E f \in Edits : Edit(f)

Spec == Init /\ [][Next]_vars

-----------------------------------------------------------------------------
\* What the operator wrote and no sync has.
OperatorsWork(f) == f \notin {Absent, Torn} /\ (Stamped(f) => Edited(f))

\* A body the operator put into the file is still in the file or in a backup after a sync
\* has gone over it, forced or not, unless he wrote it between the sync's last look at the
\* file and its write (cmd_skill_sync.go:316-354, 701-735).
KeepsEdits ==
    [][\A s \in Syncs :
         /\ OperatorsWork(file)
         /\ sync[s].at \in {"apply", "write"} /\ sync'[s].at = "done"
         /\ ~ sync[s].touched
         => file.body \in {file'.body} \cup backups']_vars

\* A sync removes a copy only if no scope it could have asked about kept a row of that
\* name, on the page its list has, all the time the sync ran (cmd_skill_sync.go:386-394). The
\* project's rows count only if the project was found: a lookup that fails is read as no
\* project. A row the list does not reach protects nothing, and its copy is removed.
OwnedCopyStays ==
    [][\A s \in Syncs :
         /\ file # Absent /\ file' = Absent
         /\ sync[s].at = "apply" /\ sync'[s].at = "done"
         => sync[s].owned \subseteq (IF sync[s].bound THEN {} ELSE {"project"})]_vars

\* Whatever stale, narrowed or interrupted syncs left behind, a sync of all scopes that
\* nothing interferes with ends with the copy of the most specific row the lists have, or with
\* a body of the operator's that it was not told to replace (cmd_skill_sync.go:293-358,
\* 439-450).
SettlesOnWinner ==
    \A s \in Syncs :
        sync[s].at = "done" /\ sync[s].calm /\ sync[s].scope = "" /\ sync[s].bound =>
            \/ \E c \in Owned(Shown) : /\ file = Materialised(c, row[c])
                                       /\ \A d \in Owned(Shown) : Rank[d] <= Rank[c]
            \/ file # Absent /\ ~ Stamped(file) /\ (sync[s].force => Owned(Shown) = {})
            \/ Edited(file) /\ (sync[s].force => Owned(Shown) = {})
            \/ Owned(Shown) = {} /\ file = Absent
=============================================================================
