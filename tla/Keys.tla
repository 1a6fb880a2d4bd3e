-------------------------------- MODULE Keys --------------------------------
(***************************************************************************)
(* The api-keys of one user: the rows of the servers                       *)
(* (internal/auth/store.go, internal/verb/apikey.go), the credential files *)
(* of the user's machines (internal/cliconfig/credstore.go), and the       *)
(* command satellites auth that mints a key into a file.                   *)
(***************************************************************************)
EXTENDS Naturals, Sequences, FiniteSets, SequencesExt

CONSTANTS
    Servers, DevServers,    \* DevServers: those in dev mode
    Machines,
    Projects, NoProject,
    Runs,                   \* commands and requests under way at once
    MaxMints, MaxRevokes, MaxFails

VARIABLES
    rows,       \* api_keys: [server, project, id, key, revoked]
    file,       \* credentials.toml, by machine: a sequence of [server, key]
    temp,       \* the temporary file of a save; NoTemp: there is none
    run,
    minted,     \* keys so far; key 0 is the well-known one of a server in dev mode
    told,       \* history: keys a caller was told, with their ids
    revoked,    \* history: keys whose revocation was answered
    replaced,   \* history: keys another was minted over
    saved,      \* history: the key of the last save that succeeded, by machine and server
    lost,       \* history: machines with two saves at once
    revokes, fails

keysVars == <<rows, file, temp, run, minted, told, revoked, replaced, saved, lost, revokes, fails>>

Idle == [at |-> "idle", machine |-> "", server |-> "", project |-> NoProject, key |-> 0, base |-> <<>>]
NoTemp == [there |-> FALSE, content |-> <<>>]
DevKey == 0

Init ==
    /\ rows = {} /\ minted = 0
    /\ file = [m \in Machines |-> <<>>] /\ temp = [m \in Machines |-> NoTemp]
    /\ run = [r \in Runs |-> Idle]
    /\ told = {} /\ revoked = {} /\ replaced = {}
    /\ saved = [m \in Machines |-> [s \in Servers |-> 0]] /\ lost = {}
    /\ revokes = 0 /\ fails = 0

Set(r, to) == run' = [run EXCEPT ![r] = to]
Go(r, at) == Set(r, [run[r] EXCEPT !.at = at])
Fail == fails < MaxFails /\ fails' = fails + 1

\* ValidateKeyWithRole.
Works(s, k) == \E row \in rows : row.server = s /\ row.key = k /\ ~ row.revoked

-----------------------------------------------------------------------------
\* satellites auth: a login in the browser (OAuth), with or without a project.
Login(r) ==
    /\ run[r].at = "idle"
    /\ \E m \in Machines, s \in Servers, p \in Projects \cup {NoProject} :
          Set(r, [Idle EXCEPT !.at = "mint", !.machine = m, !.server = s, !.project = p])
    /\ UNCHANGED <<rows, file, temp, minted, told, revoked, replaced, saved, lost, revokes, fails>>

\* The row of a slot, which counts after a revocation as well.
SlotOf(s, p) == {row \in rows : p # NoProject /\ row.server = s /\ row.project = p}

\* A key takes the slot of its project with an id of its own and no revocation.
Rotated(s, p, k) == [server |-> s, project |-> p, id |-> k, key |-> k, revoked |-> FALSE]

\* issueWithRaw: INSERT, or UPDATE of the slot.
Mint(r) ==
    LET s == run[r].server
        p == run[r].project
        k == minted + 1
    IN  /\ run[r].at = "mint" /\ minted < MaxMints
        /\ minted' = k
        /\ rows' = (rows \ SlotOf(s, p)) \cup {Rotated(s, p, k)}
        /\ replaced' = replaced \cup {row.key : row \in SlotOf(s, p)}
        /\ Set(r, [run[r] EXCEPT !.at = "read", !.key = k])
        /\ UNCHANGED <<file, temp, told, revoked, saved, lost, revokes, fails>>

\* SELECT by the hash: another key may have taken the slot.
ReadBack(r) ==
    /\ run[r].at = "read"
    /\ \E row \in rows : row.server = run[r].server /\ row.key = run[r].key
    /\ told' = told \cup {[server |-> run[r].server, id |-> row.id, key |-> row.key] :
                              row \in {x \in rows : x.server = run[r].server /\ x.key = run[r].key}}
    /\ Go(r, "load")
    /\ UNCHANGED <<rows, file, temp, minted, revoked, replaced, saved, lost, revokes, fails>>
MintedOver(r) ==
    /\ run[r].at = "read"
    /\ \A row \in rows : row.key # run[r].key
    /\ Set(r, Idle)
    /\ UNCHANGED <<rows, file, temp, minted, told, revoked, replaced, saved, lost, revokes, fails>>

-----------------------------------------------------------------------------
\* The first credential of a server; 0: there is none.
CredentialOf(content, s) == SelectInSeq(content, LAMBDA c : c.server = s)

LoadCredential(content, s) ==
    LET i == CredentialOf(content, s) IN IF i = 0 THEN 0 ELSE content[i].key

\* The credential of the server is replaced, or added.
Upsert(content, s, k) ==
    LET i == CredentialOf(content, s)
    IN  IF i # 0 THEN [content EXCEPT ![i].key = k] ELSE Append(content, [server |-> s, key |-> k])

\* SaveCredential reads the file, writes another beside it, and renames that one, whose
\* name is the same for every save.
Load(r) ==
    /\ run[r].at = "load"
    /\ Set(r, [run[r] EXCEPT !.at = "write", !.base = file[run[r].machine]])
    /\ lost' = IF \E q \in Runs \ {r} : run[q].at \in {"write", "rename"} /\ run[q].machine = run[r].machine
               THEN lost \cup {run[r].machine} ELSE lost
    /\ UNCHANGED <<rows, file, temp, minted, told, revoked, replaced, saved, revokes, fails>>
WriteTemp(r) ==
    /\ run[r].at = "write"
    /\ temp' = [temp EXCEPT ![run[r].machine] =
                   [there |-> TRUE, content |-> Upsert(run[r].base, run[r].server, run[r].key)]]
    /\ Go(r, "rename")
    /\ UNCHANGED <<rows, file, minted, told, revoked, replaced, saved, lost, revokes, fails>>
Rename(r) ==
    LET m == run[r].machine
    IN  /\ run[r].at = "rename"
        /\ IF temp[m].there
           THEN /\ file' = [file EXCEPT ![m] = temp[m].content]
                /\ temp' = [temp EXCEPT ![m] = NoTemp]
                /\ saved' = [saved EXCEPT ![m][run[r].server] = run[r].key]
           ELSE UNCHANGED <<file, temp, saved>>
        /\ Set(r, Idle)
        /\ UNCHANGED <<rows, minted, told, revoked, replaced, lost, revokes, fails>>

\* The command is cut off, the answer is lost or a file cannot be written.
CutOff(r) ==
    /\ run[r].at # "idle" /\ Fail
    /\ Set(r, Idle)
    /\ UNCHANGED <<rows, file, temp, minted, told, revoked, replaced, saved, lost, revokes>>

-----------------------------------------------------------------------------
\* DevSeed at a start of the server: the well-known key, unless a row has it.
DevSeed(s) ==
    /\ \A row \in rows : row.server = s => row.key # DevKey
    /\ rows' = rows \cup {[server |-> s, project |-> NoProject, id |-> DevKey, key |-> DevKey, revoked |-> FALSE]}
    /\ told' = told \cup {[server |-> s, id |-> DevKey, key |-> DevKey]}
    /\ UNCHANGED <<file, temp, run, minted, revoked, replaced, saved, lost, revokes, fails>>

\* RevokeKeyForUser, of an id that was listed or told some time.
Revoke ==
    /\ revokes < MaxRevokes /\ revokes' = revokes + 1
    /\ \E t \in told :
          LET hit == {row \in rows : row.server = t.server /\ row.id = t.id /\ ~ row.revoked}
          IN  /\ hit # {}
              /\ rows' = (rows \ hit) \cup {[row EXCEPT !.revoked = TRUE] : row \in hit}
              /\ revoked' = revoked \cup {<<t.server, t.key>>}
    /\ UNCHANGED <<file, temp, run, minted, told, replaced, saved, lost, fails>>

Next ==
    \/ \E r \in Runs :
          \/ Login(r) \/ Mint(r) \/ ReadBack(r) \/ MintedOver(r)
          \/ Load(r) \/ WriteTemp(r) \/ Rename(r) \/ CutOff(r)
    \/ \E s \in DevServers : DevSeed(s)
    \/ Revoke

Spec == Init /\ [][Next]_keysVars

-----------------------------------------------------------------------------
TypeOK ==
    /\ rows \subseteq [server : Servers, project : Projects \cup {NoProject}, id : 0..MaxMints,
                       key : 0..MaxMints, revoked : BOOLEAN]
    /\ \A m \in Machines : \A i \in DOMAIN file[m] : file[m][i].server \in Servers /\ file[m][i].key \in 1..minted
    /\ \A r \in Runs : run[r].at \in {"idle", "mint", "read", "load", "write", "rename"}
    /\ minted \in 0..MaxMints /\ revokes \in 0..MaxRevokes /\ fails \in 0..MaxFails

\* A key works from its answer on until it is revoked or another is minted for its project, and
\* not again; a revocation takes the key that was told with the id.
KeysWork ==
    \A t \in told : Works(t.server, t.key) <=> <<t.server, t.key>> \notin revoked /\ t.key \notin replaced

\* The client presents the key it saved last for the server, unless two saves met.
SavedIsPresented ==
    \A m \in Machines : m \notin lost =>
        \A s \in Servers : LoadCredential(file[m], s) = saved[m][s]
=============================================================================
