------------------------------ MODULE Projects ------------------------------
(***************************************************************************)
(* The workspaces of the server, the projects whose home they are and the  *)
(* readonly mounts of projects into other workspaces (internal/verb/       *)
(* project.go, workspace.go, workspace_mount.go, authz.go and the stores   *)
(* of project and workspace).  A request is several statements that no     *)
(* transaction holds together: it reads, it checks, and then it writes.    *)
(***************************************************************************)
EXTENDS Naturals, FiniteSets

CONSTANTS
    Workspaces, Projects,
    None,           \* no workspace, and no project
    Users,
    Callers,        \* who may call: [user, cap, only, key], an agent's cap on its role
    Requests,       \* requests under way at once
    MaxRequests,    \* no more requests than this come
    MaxFails        \* no more requests fail halfway than this

VARIABLES
    home,       \* per project, its home; None: there is no such project
    fields,     \* per project, the name and the tags of its row
    mounts,     \* the readonly mounts
    archived,   \* the archived workspaces
    default,    \* the default workspace
    wsRole,     \* per user and workspace: "none", "member" or "admin" (an owner is one)
    pjRole,     \* per user and project, the rank that a row of project_members grants
    req,        \* the requests
    moved,      \* history: where the last move of a project went
    asked,      \* history: the fields last asked for
    placed,     \* history: what came to a workspace since an archive found it empty
    excused,    \* history: promises that an overlap of requests left out
    came, fails

projectsVars ==
    <<home, fields, mounts, archived, default, wsRole, pjRole, req, moved, asked, placed, excused, came, fails>>

Fields == {"name", "tags"}
Row == [Fields -> 0..MaxRequests]
Idle == [at |-> "idle", kind |-> "", by |-> None, ws |-> None, pj |-> None, saw |-> None,
         row |-> [f \in Fields |-> 0], patch |-> {}, new |-> 0, todo |-> {}]

Init ==
    /\ home \in [Projects -> Workspaces \cup {None}]
    /\ fields = [p \in Projects |-> [f \in Fields |-> 0]]
    /\ mounts \in SUBSET {m \in Workspaces \X Projects : home[m[2]] \notin {m[1], None}}
    /\ archived = {}
    /\ default \in Workspaces
    /\ wsRole \in [Users -> [Workspaces -> {"none", "member", "admin"}]]
    /\ pjRole \in [Users -> [Projects -> 0..3]]
    /\ req = [q \in Requests |-> Idle]
    /\ moved = home /\ asked = fields
    /\ placed = [w \in Workspaces |-> {}]
    /\ excused = {} /\ came = 0 /\ fails = 0

Set(q, r) == req' = [req EXCEPT ![q] = r]
Go(q, at) == Set(q, [req[q] EXCEPT !.at = at])
Done(q) == Set(q, Idle)
Start(q, r) == req[q].at = "idle" /\ came < MaxRequests /\ came' = came + 1 /\ Set(q, r)
Overlaps(q, kinds, p) == \E r \in Requests \ {q} : req[r].kind \in kinds /\ req[r].pj = p

-----------------------------------------------------------------------------
Least(a, b) == IF a < b THEN a ELSE b

\* An agent whose role is capped below admin, or to some projects, manages no workspace.
Manages(c, w) == wsRole[c.user][w] = "admin" /\ c.cap = 3 /\ c.only = {}

\* actualProjectRoleWS: the best of what the home, the members of the project, an api key and
\* a mount grant.
Actual(c, p) ==
    IF home[p] # None /\ wsRole[c.user][home[p]] = "admin" THEN 3
    ELSE LET grants == {pjRole[c.user][p]}
                         \cup {r \in {1} : home[p] # None /\ wsRole[c.user][home[p]] = "member"}
                         \cup {r \in {2} : c.key = p}
                         \cup {r \in {1} : \E w \in Workspaces : <<w, p>> \in mounts /\ wsRole[c.user][w] # "none"}
         IN  CHOOSE r \in grants : \A s \in grants : s <= r

\* effectiveProjectRoleWS: a cap only takes away.
Effective(c, p) == IF c.only # {} /\ p \notin c.only THEN 0 ELSE Least(c.cap, Actual(c, p))

\* What is put in a workspace is remembered while it is archived or about to be.
Archiving(w) == w \in archived \/ \E q \in Requests : req[q].kind = "archive" /\ req[q].ws = w
Places(w, thing) == placed' = [placed EXCEPT ![w] = IF Archiving(w) THEN @ \cup {thing} ELSE @]

-----------------------------------------------------------------------------
\* project_create, in a workspace the caller manages; an archived one is no exception.
Create(c) ==
    /\ came < MaxRequests /\ came' = came + 1
    /\ \E p \in Projects : \E w \in Workspaces :
          /\ home[p] = None /\ Manages(c, w)
          /\ home' = [home EXCEPT ![p] = w]
          /\ moved' = [moved EXCEPT ![p] = w]
          /\ Places(w, <<"home", p>>)
    /\ UNCHANGED <<fields, mounts, archived, default, wsRole, pjRole, req, asked, excused, fails>>

\* project_update of some fields, of the home, or of both.
StartUpdate(q, c) ==
    /\ \E p \in Projects : \E w \in Workspaces \cup {None} : \E patch \in SUBSET Fields :
          /\ home[p] # None /\ Effective(c, p) >= 3
          /\ w # None \/ patch # {}
          /\ Start(q, [Idle EXCEPT !.at = IF w = None THEN "read" ELSE "look", !.kind = "update", !.by = c,
                                   !.ws = w, !.pj = p, !.patch = patch, !.new = came + 1])
    /\ UNCHANGED <<home, fields, mounts, archived, default, wsRole, pjRole, moved, asked, placed, excused, fails>>

\* moveProjectHome: the caller manages both sides of the move.
LookHome(q) ==
    LET h == home[req[q].pj]
    IN  /\ req[q].at = "look"
        /\ IF h = req[q].ws THEN Go(q, "read")
           ELSE IF Manages(req[q].by, h) /\ Manages(req[q].by, req[q].ws)
           THEN Set(q, [req[q] EXCEPT !.at = "mounted", !.saw = h])
           ELSE Done(q)
        /\ UNCHANGED <<home, fields, mounts, archived, default, wsRole, pjRole, moved, asked, placed, excused, came, fails>>

\* MountExists of the workspace the project moves to.
MayRehome(q) == <<req[q].ws, req[q].pj>> \notin mounts

LookMount(q) ==
    /\ req[q].at = "mounted"
    /\ IF MayRehome(q) THEN Go(q, "rehome") ELSE Done(q)
    /\ UNCHANGED <<home, fields, mounts, archived, default, wsRole, pjRole, moved, asked, placed, excused, came, fails>>

\* SetWorkspace.
Rehome(q) ==
    LET p == req[q].pj w == req[q].ws
    IN  /\ req[q].at = "rehome"
        /\ home' = [home EXCEPT ![p] = w]
        /\ moved' = [moved EXCEPT ![p] = w]
        /\ Places(w, <<"home", p>>)
        /\ excused' = excused \cup (IF Overlaps(q, {"mount"}, p) THEN {<<p, "mounted">>} ELSE {})
                              \cup (IF home[p] # req[q].saw THEN {<<p, "moved">>} ELSE {})
        /\ Go(q, "read")
        /\ UNCHANGED <<fields, mounts, archived, default, wsRole, pjRole, asked, came, fails>>

\* Store.Update reads the row and writes every field of it but the home.
ReadRow(q) ==
    /\ req[q].at = "read"
    /\ Set(q, [req[q] EXCEPT !.at = "patch", !.saw = home[req[q].pj], !.row = fields[req[q].pj]])
    /\ UNCHANGED <<home, fields, mounts, archived, default, wsRole, pjRole, moved, asked, placed, excused, came, fails>>

Patched(q) == [f \in Fields |-> IF f \in req[q].patch THEN req[q].new ELSE req[q].row[f]]

\* The columns of the UPDATE leave workspace_id alone.
WriteHome(q) == UNCHANGED home

WriteRow(q) ==
    LET p == req[q].pj
    IN  /\ req[q].at = "patch"
        /\ fields' = [fields EXCEPT ![p] = Patched(q)]
        /\ asked' = [asked EXCEPT ![p] = [f \in Fields |-> IF f \in req[q].patch THEN req[q].new ELSE @[f]]]
        /\ WriteHome(q)
        /\ excused' = IF Overlaps(q, {"update"}, p) THEN excused \cup {<<p, "patched">>} ELSE excused
        /\ Done(q)
        /\ UNCHANGED <<mounts, archived, default, wsRole, pjRole, moved, placed, came, fails>>

-----------------------------------------------------------------------------
\* workspace_mount_add: a project is not mounted into the home it has when it is looked at.
StartMount(q, c) ==
    /\ \E p \in Projects : \E w \in Workspaces :
          /\ Manages(c, w) /\ home[p] \notin {w, None}
          /\ Start(q, [Idle EXCEPT !.at = "mount", !.kind = "mount", !.by = c, !.ws = w, !.pj = p])
    /\ UNCHANGED <<home, fields, mounts, archived, default, wsRole, pjRole, moved, asked, placed, excused, fails>>
AddMount(q) ==
    LET p == req[q].pj
    IN  /\ req[q].at = "mount"
        /\ mounts' = mounts \cup {<<req[q].ws, p>>}
        /\ Places(req[q].ws, <<"mount", p>>)
        /\ excused' = IF home[p] = req[q].ws \/ Overlaps(q, {"update"}, p)
                      THEN excused \cup {<<p, "mounted">>} ELSE excused
        /\ Done(q)
        /\ UNCHANGED <<home, fields, archived, default, wsRole, pjRole, moved, asked, came, fails>>
RemoveMount(c) ==
    /\ came < MaxRequests /\ came' = came + 1
    /\ \E m \in mounts : Manages(c, m[1]) /\ mounts' = mounts \ {m}
    /\ UNCHANGED <<home, fields, archived, default, wsRole, pjRole, req, moved, asked, placed, excused, fails>>

-----------------------------------------------------------------------------
\* workspace_archive by one who may patch it: not the default, not with projects at home.
StartArchive(q, c) ==
    /\ \E w \in Workspaces \ (archived \cup {default}) :
          /\ Manages(c, w)
          /\ Start(q, [Idle EXCEPT !.at = "homed", !.kind = "archive", !.by = c, !.ws = w])
          /\ placed' = [placed EXCEPT ![w] = IF Archiving(w) THEN @ ELSE {}]
    /\ UNCHANGED <<home, fields, mounts, archived, default, wsRole, pjRole, moved, asked, excused, fails>>

\* Mutant: a project that the workspace only mounts is asked about, not one at home in it.
HoldsMounts(w) == \E p \in Projects : <<w, p>> \in mounts

\* ListByWorkspace.
Holds(w) == \E p \in Projects : home[p] = w

ListHomed(q) ==
    /\ req[q].at = "homed"
    /\ IF Holds(req[q].ws) THEN Done(q) ELSE Go(q, "mounts")
    /\ UNCHANGED <<home, fields, mounts, archived, default, wsRole, pjRole, moved, asked, placed, excused, came, fails>>

ListMounts(q) ==
    /\ req[q].at = "mounts"
    /\ Set(q, [req[q] EXCEPT !.at = "clear", !.todo = {p \in Projects : <<req[q].ws, p>> \in mounts}])
    /\ UNCHANGED <<home, fields, mounts, archived, default, wsRole, pjRole, moved, asked, placed, excused, came, fails>>

\* The mounts go one by one, and then the status is set.
ClearMount(q) ==
    /\ req[q].at = "clear"
    /\ \E p \in req[q].todo :
          /\ mounts' = mounts \ {<<req[q].ws, p>>}
          /\ Set(q, [req[q] EXCEPT !.todo = @ \ {p}])
    /\ UNCHANGED <<home, fields, archived, default, wsRole, pjRole, moved, asked, placed, excused, came, fails>>
Archive(q) ==
    /\ req[q].at = "clear" /\ req[q].todo = {}
    /\ archived' = archived \cup {req[q].ws}
    /\ excused' = IF default = req[q].ws THEN excused \cup {<<req[q].ws, "default">>} ELSE excused
    /\ Done(q)
    /\ UNCHANGED <<home, fields, mounts, default, wsRole, pjRole, moved, asked, placed, came, fails>>
Restore(c) ==
    /\ came < MaxRequests /\ came' = came + 1
    /\ \E w \in archived : Manages(c, w) /\ archived' = archived \ {w}
    /\ UNCHANGED <<home, fields, mounts, default, wsRole, pjRole, req, moved, asked, placed, excused, fails>>

\* workspace_set_default, one transaction that does not ask whether the workspace is archived.
SetDefault ==
    /\ came < MaxRequests /\ came' = came + 1
    /\ \E w \in Workspaces \ {default} :
          /\ default' = w
          /\ excused' = IF w \in archived THEN excused \cup {<<w, "default">>} ELSE excused
    /\ UNCHANGED <<home, fields, mounts, archived, wsRole, pjRole, req, moved, asked, placed, fails>>

\* A statement fails; what the request wrote before stays.
Fail(q) ==
    /\ req[q].at # "idle" /\ fails < MaxFails
    /\ fails' = fails + 1
    /\ Done(q)
    /\ UNCHANGED <<home, fields, mounts, archived, default, wsRole, pjRole, moved, asked, placed, excused, came>>

Next ==
    \/ \E c \in Callers :
          \/ Create(c) \/ RemoveMount(c) \/ Restore(c)
          \/ \E q \in Requests : StartUpdate(q, c) \/ StartMount(q, c) \/ StartArchive(q, c)
    \/ SetDefault
    \/ \E q \in Requests :
          \/ LookHome(q) \/ LookMount(q) \/ Rehome(q) \/ ReadRow(q) \/ WriteRow(q) \/ AddMount(q)
          \/ ListHomed(q) \/ ListMounts(q) \/ ClearMount(q) \/ Archive(q) \/ Fail(q)

Spec == Init /\ [][Next]_projectsVars

-----------------------------------------------------------------------------
TypeOK ==
    /\ home \in [Projects -> Workspaces \cup {None}]
    /\ fields \in [Projects -> Row]
    /\ mounts \subseteq Workspaces \X Projects
    /\ archived \subseteq Workspaces /\ default \in Workspaces
    /\ \A q \in Requests :
          req[q].at \in {"idle", "look", "mounted", "rehome", "read", "patch", "mount", "homed", "mounts", "clear"}
    /\ came \in 0..MaxRequests /\ fails \in 0..MaxFails

\* No workspace mounts a project whose home it is, unless a mount and a move of the project
\* overlapped.
HomeApart == \A m \in mounts : home[m[2]] # m[1] \/ <<m[2], "mounted">> \in excused

\* An archived workspace is the home of no project and mounts none, but for what came to it
\* since the archive looked: nothing that puts a project in a workspace asks whether it is
\* archived.
ArchivedEmpty ==
    \A w \in archived :
        /\ \A p \in Projects : home[p] = w => <<"home", p>> \in placed[w]
        /\ \A p \in Projects : <<w, p>> \in mounts => <<"mount", p>> \in placed[w]

\* The default workspace is not archived, unless it was made the default while it was, or
\* while the archive was under way.
DefaultStands == default \in archived => <<default, "default">> \in excused

\* A project is where its last move put it, whatever patches of it were under way, and its
\* fields are those last asked for unless two patches overlapped.
MovesStick == \A p \in Projects : home[p] = moved[p]
PatchesStick ==
    \A p \in Projects : fields[p] = asked[p] \/ <<p, "patched">> \in excused

\* A project leaves a home only at a request, then carried out, of one who manages that
\* workspace and the next, unless another move came in between.
MovedByBoth ==
    [][\A p \in Projects :
          home[p] # None /\ home'[p] # home[p] =>
              \/ <<p, "moved">> \in excused'
              \/ \E q \in Requests :
                    /\ req[q].at = "rehome" /\ req'[q].at # "rehome" /\ req[q].pj = p
                    /\ Manages(req[q].by, home[p]) /\ Manages(req[q].by, home'[p])]_projectsVars
=============================================================================
