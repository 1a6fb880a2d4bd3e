----------------------------- MODULE Provision -----------------------------
(***************************************************************************)
(* What a start of the server provides before it listens                   *)
(* (cmd/satellites-server/main.go): a default of a system variable, the    *)
(* dev-login principal with the credentials that variables hold, and the   *)
(* secret of the sessions.  Instances start together, a start may be cut   *)
(* off between two statements, and an operator sets variables.             *)
(***************************************************************************)
EXTENDS Naturals, Sequences

CONSTANTS
    Servers,
    Nothing,            \* no value
    MaxBoots, MaxSets, MaxCuts

VARIABLES
    knob,       \* a default of a system variable
    cred,       \* dev_login.email and dev_login.password
    user,       \* the dev-login user: its email and the password its hash is of
    secret,     \* server_settings
    server,
    crossed,    \* history: credentials that a start and another, or the operator, were
                \* writing at once
    chosen,     \* history: what the operator set
    late,       \* history: the password was set while a start had the one before in hand
    boots, sets, cuts

provisionVars == <<knob, cred, user, secret, server, crossed, chosen, late, boots, sets, cuts>>

Creds == {"email", "password"}
Down == [at |-> "down", cred |-> "", email |-> Nothing, password |-> Nothing, secret |-> Nothing, boot |-> 0]
Chosen == MaxBoots + 1     \* a value of the operator, which no start generates

Init ==
    /\ knob = Nothing /\ cred = [c \in Creds |-> Nothing]
    /\ user = [email |-> Nothing, password |-> Nothing] /\ secret = Nothing
    /\ server = [s \in Servers |-> Down] /\ crossed = {}
    /\ chosen = [knob |-> Nothing, email |-> Nothing, password |-> Nothing]
    /\ late = FALSE /\ boots = 0 /\ sets = 0 /\ cuts = 0

Go(s, at) == server' = [server EXCEPT ![s].at = at]

Start(s) ==
    /\ server[s].at \in {"down", "dead", "up"} /\ boots < MaxBoots
    /\ boots' = boots + 1
    /\ server' = [server EXCEPT ![s] = [Down EXCEPT !.at = "knob", !.boot = boots + 1]]
    /\ UNCHANGED <<knob, cred, user, secret, crossed, chosen, late, sets, cuts>>

\* SeedSystem: a default, unless there is a value.
Seeded == IF knob = Nothing THEN 0 ELSE knob

SeedKnob(s) ==
    /\ server[s].at = "knob"
    /\ knob' = Seeded
    /\ server' = [server EXCEPT ![s].at = "read", ![s].cred = "email"]
    /\ UNCHANGED <<cred, user, secret, crossed, chosen, late, boots, sets, cuts>>

\* ensureSecretSystemVar: the value there is, or a generated one that Set inserts, or updates
\* if there is one by then; the password is generated and the email is constant.
Writing(s, c) == server[s].at \in {"set", "insert", "update"} /\ server[s].cred = c
Generated(s, c) == IF c = "email" THEN 0 ELSE server[s].boot
\* The email is seen to before the password.
Past(s, v) ==
    IF server[s].cred = "email" THEN [server[s] EXCEPT !.at = "read", !.cred = "password", !.email = v]
    ELSE [server[s] EXCEPT !.at = "user", !.password = v]
ReadCred(s) ==
    LET c == server[s].cred
    IN  /\ server[s].at = "read"
        /\ server' = [server EXCEPT ![s] = IF cred[c] # Nothing THEN Past(s, cred[c]) ELSE [@ EXCEPT !.at = "set"]]
        /\ crossed' = IF cred[c] = Nothing /\ \E q \in Servers \ {s} : Writing(q, c)
                      THEN crossed \cup {c} ELSE crossed
        /\ UNCHANGED <<knob, cred, user, secret, chosen, late, boots, sets, cuts>>
LookAgain(s) ==
    /\ server[s].at = "set"
    /\ Go(s, IF cred[server[s].cred] = Nothing THEN "insert" ELSE "update")
    /\ UNCHANGED <<knob, cred, user, secret, crossed, chosen, late, boots, sets, cuts>>
WriteCred(s) ==
    LET c == server[s].cred
    IN  /\ server[s].at \in {"insert", "update"}
        /\ IF server[s].at = "insert" /\ cred[c] # Nothing    \* a unique index
           THEN Go(s, "dead") /\ UNCHANGED cred
           ELSE /\ cred' = [cred EXCEPT ![c] = Generated(s, c)]
                /\ server' = [server EXCEPT ![s] = Past(s, Generated(s, c))]
        /\ UNCHANGED <<knob, user, secret, crossed, chosen, late, boots, sets, cuts>>

\* CreateUser: the id is constant, so another email than the row's does not insert.  (An email
\* that is another user's is left out.)
MakeUser(s) ==
    /\ server[s].at = "user"
    /\ IF user.email \in {Nothing, server[s].email}
       THEN user' = [user EXCEPT !.email = server[s].email] /\ Go(s, "hash")
       ELSE Go(s, "dead") /\ UNCHANGED user
    /\ UNCHANGED <<knob, cred, secret, crossed, chosen, late, boots, sets, cuts>>

Hashed(s) == server[s].password

\* SetPassword, of the user that has the email.
HashPassword(s) ==
    /\ server[s].at = "hash"
    /\ user' = [user EXCEPT !.password = Hashed(s)]
    /\ Go(s, "secret?")
    /\ UNCHANGED <<knob, cred, secret, crossed, chosen, late, boots, sets, cuts>>

-----------------------------------------------------------------------------
\* LoadOrCreateSessionSecret, LoadOrCreateJWTSecret: the row there is, or one that is inserted
\* unless there is one by then, and what a second read finds.
ReadSecret(s) ==
    /\ server[s].at = "secret?"
    /\ server' = [server EXCEPT ![s].at = IF secret # Nothing THEN "up" ELSE "secret insert", ![s].secret = secret]
    /\ UNCHANGED <<knob, cred, user, secret, crossed, chosen, late, boots, sets, cuts>>

Found(s) == secret

InsertSecret(s) ==
    /\ server[s].at = "secret insert"
    /\ secret' = IF secret = Nothing THEN server[s].boot ELSE secret
    /\ Go(s, "secret again")
    /\ UNCHANGED <<knob, cred, user, crossed, chosen, late, boots, sets, cuts>>
ReadSecretAgain(s) ==
    /\ server[s].at = "secret again"
    /\ server' = [server EXCEPT ![s].at = "up", ![s].secret = Found(s)]
    /\ UNCHANGED <<knob, cred, user, secret, crossed, chosen, late, boots, sets, cuts>>

\* A start is cut off, or a statement of it fails.
Cut(s) ==
    /\ server[s].at \notin {"down", "dead", "up"} /\ cuts < MaxCuts
    /\ cuts' = cuts + 1
    /\ server' = [server EXCEPT ![s] = Down]
    /\ UNCHANGED <<knob, cred, user, secret, crossed, chosen, late, boots, sets>>

\* An operator's variable_set at the scope of the system.
Operator ==
    /\ sets < MaxSets /\ sets' = sets + 1
    /\ \/ knob' = Chosen /\ chosen' = [chosen EXCEPT !.knob = Chosen] /\ UNCHANGED <<cred, crossed, late>>
       \/ \E c \in Creds :
             /\ cred' = [cred EXCEPT ![c] = Chosen]
             /\ chosen' = [chosen EXCEPT ![c] = Chosen]
             /\ crossed' = IF \E s \in Servers : Writing(s, c) THEN crossed \cup {c} ELSE crossed
             /\ late' = (late \/ (c = "password" /\ \E s \in Servers : server[s].at \in {"user", "hash"}))
             /\ UNCHANGED knob
    /\ UNCHANGED <<user, secret, server, boots, cuts>>

Next ==
    \/ \E s \in Servers :
          \/ Start(s) \/ Cut(s)
          \/ SeedKnob(s) \/ MakeUser(s) \/ HashPassword(s)
          \/ ReadSecret(s) \/ InsertSecret(s) \/ ReadSecretAgain(s)
          \/ ReadCred(s) \/ LookAgain(s) \/ WriteCred(s)
    \/ Operator

Spec == Init /\ [][Next]_provisionVars

-----------------------------------------------------------------------------
TypeOK ==
    /\ knob \in {Nothing, 0, Chosen}
    /\ \A c \in Creds : cred[c] \in {Nothing, Chosen} \cup 0..MaxBoots
    /\ user.email \in {Nothing, 0, Chosen} /\ user.password \in {Nothing, Chosen} \cup 1..MaxBoots
    /\ secret \in {Nothing} \cup 1..MaxBoots /\ crossed \subseteq Creds
    /\ boots \in 0..MaxBoots /\ sets \in 0..MaxSets /\ cuts \in 0..MaxCuts

\* A start dies by itself only where the operator changed the email of the principal, or
\* another start was setting it up.
DiesOnlyIf ==
    \A s \in Servers : server[s].at = "dead" => chosen.email # Nothing \/ crossed # {}

\* What the operator set stands, unless a start was about to write it.
OperatorStands ==
    /\ chosen.knob # Nothing => knob = chosen.knob
    /\ \A c \in Creds \ crossed : chosen[c] # Nothing => cred[c] = chosen[c]

\* The password of the principal is the one its variable tells once a start is through, unless
\* the operator set it while a start was about to hash the one before, or two starts met.
LoginOpens ==
    \A s \in Servers :
        /\ server[s].at \in {"secret?", "secret insert", "secret again", "up"}
        /\ "password" \notin crossed /\ ~ late /\ cred["password"] = server[s].password
        => user.password = cred["password"]

\* Every instance that listens has the secret of the table.
OneSecret == \A s \in Servers : server[s].at = "up" => server[s].secret = secret /\ secret # Nothing
=============================================================================
