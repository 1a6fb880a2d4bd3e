------------------------------- MODULE SignIn -------------------------------
(***************************************************************************)
(* A sign-in (internal/server/oauth.go and login.go): the account of an    *)
(* identity or of a password (internal/auth/store.go), its personal        *)
(* workspace and the invitations that wait for its address.  Every         *)
(* statement is on its own, and a failure after the account was found does *)
(* not stop the sign-in.                                                   *)
(***************************************************************************)
EXTENDS Naturals, FiniteSets

CONSTANTS
    Identities,     \* (provider, sub)
    Emails, Admins, \* Admins: the addresses that make an administrator
    NoOne,          \* no identity: an account with a password
    Requests, MaxRequests, MaxFails

VARIABLES
    user,       \* the rows of users, by id: [email, ident, admin]
    personal,   \* who owns a personal workspace
    pending,    \* the addresses an invitation waits for
    req,
    entered,    \* history: the accounts each identity was signed in to
    came, fails

signInVars == <<user, personal, pending, req, entered, came, fails>>

\* The id of a new account is that of its identity.
Ids == Identities \cup {NoOne}
Rows == DOMAIN user
Idle == [at |-> "idle", who |-> NoOne, email |-> "", id |-> NoOne, due |-> FALSE, whole |-> TRUE]

\* There may be an account with a password.
Init ==
    /\ user \in {[i \in {} |-> 0]} \cup
                [{NoOne} -> [email : Emails, ident : {NoOne}, admin : {FALSE}]]
    /\ personal = {} /\ pending \in SUBSET Emails
    /\ req = [q \in Requests |-> Idle]
    /\ entered = [i \in Ids |-> {}]
    /\ came = 0 /\ fails = 0

Set(q, r) == req' = [req EXCEPT ![q] = r]
Go(q, at) == Set(q, [req[q] EXCEPT !.at = at])
Found(q, id, email) ==
    Set(q, [req[q] EXCEPT !.at = "personal", !.id = id, !.email = email, !.due = email \in pending])
Refused(q) == Set(q, Idle)
Come == came < MaxRequests /\ came' = came + 1
Fail == fails < MaxFails /\ fails' = fails + 1
Holders(email) == {r \in Rows : user[r].email = email}

\* A callback of the provider, with the address the identity has there by now.
Callback(q) ==
    /\ req[q].at = "idle" /\ Come
    /\ \E i \in Identities, e \in Emails : Set(q, [Idle EXCEPT !.at = "identity", !.who = i, !.email = e])
    /\ UNCHANGED <<user, personal, pending, entered, fails>>

\* VerifyPassword.
Password(q) ==
    /\ req[q].at = "idle" /\ Come
    /\ NoOne \in Rows /\ Found(q, NoOne, user[NoOne].email)
    /\ UNCHANGED <<user, personal, pending, entered, fails>>

\* Mutant: the list of administrators says who is one.
PromotedOrNot(admin, email) == email \in Admins

\* An administrator is made and never unmade.
Promoted(admin, email) == admin \/ email \in Admins

\* UPDATE by identity; another account may hold the address.
ByIdentity(q) ==
    LET mine == {r \in Rows : user[r].ident = req[q].who}
    IN  /\ req[q].at = "identity"
        /\ \/ mine = {} /\ Go(q, "link") /\ UNCHANGED user
           \/ \E r \in mine :
                IF Holders(req[q].email) \ {r} # {} THEN Refused(q) /\ UNCHANGED user
                ELSE /\ user' = [user EXCEPT ![r].email = req[q].email,
                                             ![r].admin = Promoted(@, req[q].email)]
                     /\ Found(q, r, req[q].email)
        /\ UNCHANGED <<personal, pending, entered, came, fails>>

\* An account with the address and no identity.
Linkable(r, email) == user[r].email = email /\ user[r].ident = NoOne

\* UPDATE by address; the identity may have its account by now.
Link(q) ==
    LET free == {r \in Rows : Linkable(r, req[q].email)}
    IN  /\ req[q].at = "link"
        /\ \/ free = {} /\ Go(q, "taken") /\ UNCHANGED user
           \/ \E r \in free :
                IF \E s \in Rows : user[s].ident = req[q].who THEN Refused(q) /\ UNCHANGED user
                ELSE /\ user' = [user EXCEPT ![r].ident = req[q].who,
                                             ![r].admin = Promoted(@, req[q].email)]
                     /\ Found(q, r, req[q].email)
        /\ UNCHANGED <<personal, pending, entered, came, fails>>

\* The address is that of another identity.
Taken(q) ==
    /\ req[q].at = "taken"
    /\ IF Holders(req[q].email) # {} THEN Refused(q) ELSE Go(q, "insert")
    /\ UNCHANGED <<user, personal, pending, entered, came, fails>>

\* INSERT, unless another sign-in took the identity or the address.
Insert(q) ==
    LET i == req[q].who
    IN  /\ req[q].at = "insert"
        /\ IF Holders(req[q].email) # {} \/ i \in Rows \/ \E r \in Rows : user[r].ident = i
           THEN Refused(q) /\ UNCHANGED user
           ELSE /\ user' = [r \in Rows \cup {i} |-> IF r = i
                              THEN [email |-> req[q].email, ident |-> i, admin |-> Promoted(FALSE, req[q].email)]
                              ELSE user[r]]
                /\ Found(q, i, req[q].email)
        /\ UNCHANGED <<personal, pending, entered, came, fails>>

\* CreateUser, with which a start of the server makes the account with a password.
CreateUser ==
    /\ NoOne \notin Rows
    /\ \E e \in Emails :
          /\ Holders(e) = {}
          /\ user' = [r \in Rows \cup {NoOne} |-> IF r = NoOne THEN [email |-> e, ident |-> NoOne, admin |-> FALSE]
                                                  ELSE user[r]]
    /\ UNCHANGED <<personal, pending, req, entered, came, fails>>

-----------------------------------------------------------------------------
\* What follows a personal workspace.
AfterPersonal == "claim"

\* EnsurePersonalWorkspace: GetPersonalForUser, and the INSERT, which the index refuses when
\* another sign-in of the account was faster: the invitations are left then.
Personal(q) ==
    /\ req[q].at = "personal"
    /\ Go(q, IF req[q].id \in personal THEN AfterPersonal ELSE "own")
    /\ UNCHANGED <<user, personal, pending, entered, came, fails>>
Own(q) ==
    /\ req[q].at = "own"
    /\ IF req[q].id \in personal
       THEN Set(q, [req[q] EXCEPT !.at = "session", !.whole = FALSE]) /\ UNCHANGED personal
       ELSE personal' = personal \cup {req[q].id} /\ Go(q, AfterPersonal)
    /\ UNCHANGED <<user, pending, entered, came, fails>>

\* ClaimForEmail, with the address the account had when it was found.
Claim(q) ==
    /\ req[q].at = "claim"
    /\ pending' = pending \ {req[q].email}
    /\ Go(q, "session")
    /\ UNCHANGED <<user, personal, entered, came, fails>>

\* Sessions.Issue.
Session(q) ==
    /\ req[q].at = "session"
    /\ entered' = [entered EXCEPT ![req[q].who] = @ \cup {req[q].id}]
    /\ Set(q, Idle)
    /\ UNCHANGED <<user, personal, pending, came, fails>>

\* A statement fails: the sign-in ends, or goes on without the rest of what comes with it.
StatementFails(q) ==
    /\ Fail
    /\ \/ req[q].at \in {"identity", "link", "taken", "insert"} /\ Refused(q)
       \/ req[q].at \in {"personal", "own", "claim"} /\ Set(q, [req[q] EXCEPT !.at = "session", !.whole = FALSE])
    /\ UNCHANGED <<user, personal, pending, entered, came>>

Next ==
    \/ \E q \in Requests :
          \/ Callback(q) \/ Password(q) \/ ByIdentity(q) \/ Link(q) \/ Taken(q) \/ Insert(q)
          \/ Personal(q) \/ Own(q) \/ Claim(q) \/ Session(q) \/ StatementFails(q)
    \/ CreateUser

Spec == Init /\ [][Next]_signInVars

-----------------------------------------------------------------------------
TypeOK ==
    /\ Rows \subseteq Ids
    /\ \A r \in Rows : user[r] \in [email : Emails, ident : Ids, admin : BOOLEAN]
    /\ personal \subseteq Rows /\ pending \subseteq Emails
    /\ \A q \in Requests :
          req[q].at \in {"idle", "identity", "link", "taken", "insert", "personal", "own", "claim", "session"}
    /\ came \in 0..MaxRequests /\ fails \in 0..MaxFails

\* An identity signs in to one account whatever its address becomes, and two identities to two.
AccountsApart ==
    /\ \A i \in Identities : Cardinality(entered[i]) <= 1
    /\ \A i, j \in Identities : i # j => entered[i] \cap entered[j] = {}

\* An administrator stays one, whatever the list says by then.
AdminStays == [][\A r \in Rows : user[r].admin => user'[r].admin]_user

\* A sign-in brings a personal workspace and the invitations that waited for its address when
\* the account was found, unless a statement failed or another sign-in of the account made the
\* workspace.
Provisioned ==
    \A q \in Requests : req[q].at = "session" /\ req[q].whole =>
        req[q].id \in personal /\ (req[q].due => req[q].email \notin pending)
=============================================================================
