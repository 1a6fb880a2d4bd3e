------------------------------ MODULE Members ------------------------------
(***************************************************************************)
(* The members of one workspace and the invitations to it                  *)
(* (internal/verb/workspace_member.go, internal/workspace/member.go,       *)
(* internal/invitation/store.go).  A role is changed or removed after a    *)
(* count of the admins that is a query of its own; an invitation is read   *)
(* as pending and granted in a later transaction.  The role owner counts   *)
(* as admin.  Callers are authorised: a global admin always is.            *)
(***************************************************************************)
EXTENDS Naturals, FiniteSets

CONSTANTS
    Users,
    Callers,   \* requests that may be under way at once
    Invites    \* ids an invitation may get; no more are created

Roles == {"member", "admin"}
Statuses == {"none", "pending", "accepted", "revoked"}

VARIABLES
    role,      \* workspace_members
    invite,    \* invitations
    call,      \* the requests
    granted,   \* history: the users each invitation made members
    late,      \* history: invitations revoked when a claim had already listed them
    raced,     \* history: a role was changed on a check that was outdated or not made
    lowered    \* history: an admin became a member by an add or an invitation

vars == <<role, invite, call, granted, late, raced, lowered>>

Idle == [at |-> "idle", stale |-> FALSE]

TypeOK ==
    /\ role \in [Users -> Roles \cup {"none"}]
    /\ \A i \in Invites :
         /\ invite[i].status \in Statuses
         /\ invite[i].status # "none" => /\ invite[i].role \in Roles
                                         /\ invite[i].to \in Users \cup {"link"}
    /\ \A c \in Callers :
         /\ call[c].stale \in BOOLEAN
         /\ call[c].at = "change" => /\ call[c].user \in Users
                                     /\ call[c].role \in Roles \cup {"none"}
         /\ call[c].at \in {"redeem", "claim"} => call[c].user \in Users /\ call[c].invite \in Invites
    /\ granted \in [Invites -> SUBSET Users]
    /\ late \subseteq Invites
    /\ raced \in BOOLEAN
    /\ lowered \in BOOLEAN

\* The workspace has its creator.
Init ==
    /\ \E creator \in Users : role = [u \in Users |-> IF u = creator THEN "admin" ELSE "none"]
    /\ invite = [i \in Invites |-> [status |-> "none"]]
    /\ call = [c \in Callers |-> Idle]
    /\ granted = [i \in Invites |-> {}]
    /\ late = {}
    /\ raced = FALSE
    /\ lowered = FALSE

Admins == {u \in Users : role[u] = "admin"}

-----------------------------------------------------------------------------
\* The other changes have checked roles that are no longer those.
Outdated(c) ==
    call' = [d \in Callers |->
               IF d = c THEN Idle
               ELSE IF call[d].at = "change" THEN [call[d] EXCEPT !.stale = TRUE] ELSE call[d]]

SetRole(u, r) == role' = [role EXCEPT ![u] = r]

\* AddMember is an upsert, and no check counts the admins.
AddMember(c, u, r) ==
    /\ call[c].at = "idle"
    /\ SetRole(u, r)
    /\ lowered' = (lowered \/ (role[u] = "admin" /\ r # "admin"))
    /\ Outdated(c)
    /\ UNCHANGED <<invite, granted, late, raced>>

SpareAdmin == Cardinality(Admins) > 1

\* The check of workspace_member_update_role and of workspace_member_remove.
CheckChange(c, u, r) ==
    /\ call[c].at = "idle"
    /\ role[u] = "admin" /\ r # "admin" => SpareAdmin
    /\ call' = [call EXCEPT ![c] = [at |-> "change", stale |-> FALSE, user |-> u, role |-> r]]
    /\ UNCHANGED <<role, invite, granted, late, raced, lowered>>

\* GetRole or CountAdmins fails, and the change goes on unchecked.
CheckFails(c, u, r) ==
    /\ call[c].at = "idle"
    /\ call' = [call EXCEPT ![c] = [at |-> "change", stale |-> TRUE, user |-> u, role |-> r]]
    /\ UNCHANGED <<role, invite, granted, late, raced, lowered>>

\* UpdateRole, RemoveMember: a user who is no member is not found.
Change(c) ==
    /\ call[c].at = "change"
    /\ IF role[call[c].user] = "none"
       THEN call' = [call EXCEPT ![c] = Idle] /\ UNCHANGED <<role, raced>>
       ELSE /\ SetRole(call[c].user, call[c].role)
            /\ raced' = (raced \/ call[c].stale)
            /\ Outdated(c)
    /\ UNCHANGED <<invite, granted, late, lowered>>

-----------------------------------------------------------------------------
Pending(i) == invite[i].status = "pending"

\* An email has one pending invitation, and one who is a member gets none.
CreateEmail(i, u, r) ==
    /\ invite[i].status = "none"
    /\ role[u] = "none"
    /\ \A j \in Invites : Pending(j) => invite[j].to # u
    /\ invite' = [invite EXCEPT ![i] = [status |-> "pending", to |-> u, role |-> r]]
    /\ UNCHANGED <<role, call, granted, late, raced, lowered>>

CreateLink(i, r) ==
    /\ invite[i].status = "none"
    /\ invite' = [invite EXCEPT ![i] = [status |-> "pending", to |-> "link", role |-> r]]
    /\ UNCHANGED <<role, call, granted, late, raced, lowered>>

Revoke(i) ==
    /\ Pending(i)
    /\ invite' = [invite EXCEPT ![i].status = "revoked"]
    /\ late' = IF \E c \in Callers : call[c].at = "claim" /\ call[c].invite = i
               THEN late \cup {i} ELSE late
    /\ UNCHANGED <<role, call, granted, raced, lowered>>

\* RedeemToken reads the link, unless it has expired.
ReadLink(c, i, u) ==
    /\ call[c].at = "idle"
    /\ Pending(i) /\ invite[i].to = "link"
    /\ call' = [call EXCEPT ![c] = [at |-> "redeem", stale |-> FALSE, user |-> u, invite |-> i]]
    /\ UNCHANGED <<role, invite, granted, late, raced, lowered>>

Grant(c) ==
    LET i == call[c].invite
        u == call[c].user
    IN  /\ SetRole(u, invite[i].role)
        /\ granted' = [granted EXCEPT ![i] = @ \cup {u}]
        /\ lowered' = (lowered \/ (role[u] = "admin" /\ invite[i].role # "admin"))
        /\ Outdated(c)
        /\ invite' = [invite EXCEPT ![i].status = IF Pending(i) THEN "accepted" ELSE @]

\* Mutant: the redeem does not look whether it marked the link.
RedeemAnyway(c) ==
    /\ call[c].at = "redeem"
    /\ Grant(c)
    /\ UNCHANGED <<late, raced>>

\* redeemOne: the membership is rolled back when the link is no longer pending.
Redeem(c) ==
    /\ call[c].at = "redeem"
    /\ IF Pending(call[c].invite)
       THEN Grant(c)
       ELSE call' = [call EXCEPT ![c] = Idle] /\ UNCHANGED <<role, invite, granted, lowered>>
    /\ UNCHANGED <<late, raced>>

Claimable(i, u) == Pending(i) /\ invite[i].to = u

\* ClaimForEmail lists what is pending, when its user signs in or is invited.
ListClaims(c, i, u) ==
    /\ call[c].at = "idle"
    /\ Claimable(i, u)
    /\ call' = [call EXCEPT ![c] = [at |-> "claim", stale |-> FALSE, user |-> u, invite |-> i]]
    /\ UNCHANGED <<role, invite, granted, late, raced, lowered>>

\* claimOne grants what was listed, pending or not.
Claim(c) ==
    /\ call[c].at = "claim"
    /\ Grant(c)
    /\ UNCHANGED <<late, raced>>

\* The request ends before its transaction.
Fail(c) ==
    /\ call[c].at # "idle"
    /\ call' = [call EXCEPT ![c] = Idle]
    /\ UNCHANGED <<role, invite, granted, late, raced, lowered>>

Next ==
    \/ \E c \in Callers :
         \/ \E u \in Users, r \in Roles : AddMember(c, u, r)
         \/ \E u \in Users, r \in Roles \cup {"none"} : CheckChange(c, u, r) \/ CheckFails(c, u, r)
         \/ \E i \in Invites, u \in Users : ReadLink(c, i, u) \/ ListClaims(c, i, u)
         \/ Change(c) \/ Redeem(c) \/ Claim(c) \/ Fail(c)
    \/ \E i \in Invites, r \in Roles :
         CreateLink(i, r) \/ \E u \in Users : CreateEmail(i, u, r)
    \/ \E i \in Invites : Revoke(i)

Spec == Init /\ [][Next]_vars

-----------------------------------------------------------------------------
\* "A workspace must keep at least one owner/admin": it does, unless a role changed between
\* the count and the write of another change, the count failed, or an add or an invitation, which count
\* nothing, lowered an admin.
AdminRemains == Admins # {} \/ raced \/ lowered

\* An invitation admits whom it may: a revoked one nobody, unless a claim had listed it
\* before, and a link one user, though two may read it while it is pending.
InvitationsHonoured ==
    \A i \in Invites :
        /\ invite[i].status = "revoked" /\ granted[i] # {} => i \in late
        /\ invite[i].status # "none" /\ invite[i].to = "link" => Cardinality(granted[i]) <= 1

\* The workspace keeps an admin, and admits whom its invitations may.
MembershipSound == AdminRemains /\ InvitationsHonoured
=============================================================================
