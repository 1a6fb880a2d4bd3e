------------------------------ MODULE Scaffold ------------------------------
(***************************************************************************)
(* What satellites init makes of a repository (internal/cli/cmd_init.go,   *)
(* cmd_install.go) beside what its user keeps there: satellites.toml,      *)
(* .mcp.json, the hooks of .claude/settings.json, .gitignore and the       *)
(* principles; and what satellites auth takes out of the first             *)
(* (internal/cliconfig).  A file is read, changed and written over, so     *)
(* commands and edits may meet, and a write that is cut off leaves less.   *)
(***************************************************************************)
EXTENDS Naturals, Sequences, FiniteSets

CONSTANTS
    Hooks,          \* a sequence: the hooks to install, [event, command]
    Starting,       \* what a repository may hold at first
    Runs, MaxStarts, MaxEdits, MaxCuts

VARIABLES
    disk,       \* the files
    local,      \* satellites.local.toml has a server_url
    run,
    mine,       \* history: the files that have something of the user's own
    spoilt,     \* history: files that were written over an edit, or cut off
    settled,    \* history: an init went through undisturbed, and nothing changed since
    starts, edits, cuts

scaffoldVars == <<disk, local, run, mine, spoilt, settled, starts, edits, cuts>>

\* A key of the toml: not there, in a comment, assigned; within a table or not; how many times.
Keys == {"server_url", "project_id", "global_publishers", "ungated_dirs"}
Not == [how |-> "not", within |-> FALSE, times |-> 0]
Noted == [how |-> "note", within |-> FALSE, times |-> 1]
Assigned == [how |-> "set", within |-> FALSE, times |-> 1]
Own == [how |-> "own", within |-> FALSE, times |-> 1]    \* to a value of the user's

\* table: the one the file ends in.
Toml(keys, table, own) == [is |-> "file", key |-> keys, table |-> table, own |-> own]
Scaffolded ==
    Toml([k \in Keys |-> IF k = "server_url" THEN Assigned ELSE Noted], "", FALSE)
EmptyToml == Toml([k \in Keys |-> Not], "", FALSE)
NoToml == [EmptyToml EXCEPT !.is = "none"]
\* url: of the entry satellites.
Mcp(is, own, url) == [is |-> is, own |-> own, url |-> url]
Settings(is, own, hooks) == [is |-> is, own |-> own, hooks |-> hooks]
Ignore(own, block) == [own |-> own, block |-> block]
Principles(own, starter) == [own |-> own, starter |-> starter]
Files == {"toml", "mcp", "settings", "ignore", "principles"}

Idle == [at |-> "idle", step |-> 0, held |-> 0, read |-> <<>>, clean |-> FALSE, kind |-> ""]

Init ==
    /\ disk \in Starting /\ local \in BOOLEAN
    /\ run = [r \in Runs |-> Idle]
    /\ mine = {f \in Files : disk[f].own}
    /\ spoilt = {} /\ settled = FALSE
    /\ starts = 0 /\ edits = 0 /\ cuts = 0

-----------------------------------------------------------------------------
\* tomlActiveKey, whatever table the line is in.
Active(toml, k) == toml.key[k].how \in {"set", "own"}

\* Load: an assignment within a table is not seen, and the overlay wins; "": there is none.
ServerURL(d) ==
    IF local THEN "local"
    ELSE IF Active(d.toml, "server_url") /\ ~ d.toml.key["server_url"].within
    THEN d.toml.key["server_url"].how ELSE ""

\* What is appended lands in the table that the file ends in.
Appended(toml, k, how) ==
    [toml EXCEPT !.key[k] = [how |-> how, within |-> toml.table # "", times |-> @.times + 1]]

\* ensureUngatedDirsBlock, ensureGlobalPublishersBlock: a note, unless one is there or the key.
Documented(toml, k) == IF toml.key[k].how = "not" THEN Appended(toml, k, "note") ELSE toml

\* activateTomlKey: nothing, the placeholder in its place, or a line at the end.
Activated(toml, k) ==
    IF Active(toml, k) THEN toml
    ELSE IF toml.key[k].how = "note" THEN [toml EXCEPT !.key[k].how = "set"]
    ELSE Appended(toml, k, "set")

\* ensureMCPJSON: the entry of that name gets the url, and the others are kept.
Registered(mcp, url) == [mcp EXCEPT !.is = "file", !.url = url]

\* mergeHookIntoSettings: by event and command.
HasHook(hooks, h) == h \in hooks

\* What a step of init makes of its file; the steps after those of the toml have a number.
Merged(settings, h) ==
    IF HasHook(settings.hooks, h) THEN settings
    ELSE [settings EXCEPT !.is = "file", !.hooks = @ \cup {h}]
Steps ==
    <<"create", "publishers", "server", "match", "project", "mcp">>
        \o [i \in DOMAIN Hooks |-> "hook"] \o <<"ignore", "constitution">>
FileOf(step) ==
    CASE Steps[step] \in {"create", "publishers", "server", "match", "project"} -> "toml"
      [] Steps[step] = "mcp" -> "mcp"
      [] Steps[step] = "hook" -> "settings"
      [] Steps[step] = "ignore" -> "ignore"
      [] Steps[step] = "constitution" -> "principles"
After(step, d) ==
    CASE Steps[step] = "create" ->
           IF d.toml.is = "none" THEN Scaffolded ELSE Documented(d.toml, "ungated_dirs")
      [] Steps[step] = "publishers" -> Documented(d.toml, "global_publishers")
      [] Steps[step] = "server" -> Activated(d.toml, "server_url")
      [] Steps[step] = "match" -> d.toml
      [] Steps[step] = "project" -> Activated(d.toml, "project_id")
      [] Steps[step] = "mcp" ->
           IF ServerURL(d) \in {"", d.mcp.url} THEN d.mcp ELSE Registered(d.mcp, ServerURL(d))
      [] Steps[step] = "hook" -> Merged(d.settings, Hooks[step - 6])
      [] Steps[step] = "ignore" -> [d.ignore EXCEPT !.block = TRUE]
      [] Steps[step] = "constitution" ->
           IF d.principles.own \/ d.principles.starter THEN d.principles ELSE Principles(FALSE, TRUE)

\* A json file that does not parse ends an init.
Fails(step, d) ==
    \/ Steps[step] = "mcp" /\ d.mcp.is = "torn" /\ ServerURL(d) # ""
    \/ Steps[step] = "hook" /\ d.settings.is = "torn"

-----------------------------------------------------------------------------
Set(r, to) == run' = [run EXCEPT ![r] = to]

\* runInit, which satellites install --local runs too.
Start(r) ==
    /\ run[r].at = "idle" /\ starts < MaxStarts /\ starts' = starts + 1
    /\ Set(r, [Idle EXCEPT !.at = "look", !.step = 1, !.kind = "init",
                           !.clean = \A q \in Runs : run[q].at = "idle"])
    /\ UNCHANGED <<disk, local, mine, spoilt, settled, edits, cuts>>

\* The step is over.
Past(r, by) ==
    IF run[r].step + by > Len(Steps) THEN Idle
    ELSE [run[r] EXCEPT !.at = "look", !.step = @ + by, !.read = <<>>]
Finishes(r, by) == run[r].step + by > Len(Steps)

\* A step reads its file.
Look(r) ==
    LET step == run[r].step
        f == FileOf(step)
    IN  /\ run[r].at = "look" /\ Steps[step] # "match"
        /\ IF Fails(step, disk) THEN Set(r, Idle) /\ UNCHANGED settled
           ELSE IF After(step, disk) # disk[f]
           THEN Set(r, [run[r] EXCEPT !.at = "write", !.held = After(step, disk), !.read = disk[f]])
                /\ UNCHANGED settled
           ELSE Set(r, Past(r, 1)) /\ settled' = (settled \/ (Finishes(r, 1) /\ run[r].clean))
        /\ UNCHANGED <<disk, local, mine, spoilt, starts, edits, cuts>>

\* ensureProjectID asks the server, unless the key is active; it may have no answer.
Match(r) ==
    /\ run[r].at = "look" /\ Steps[run[r].step] = "match"
    /\ \E by \in IF Active(disk.toml, "project_id") THEN {2} ELSE {1, 2} : Set(r, Past(r, by))
    /\ UNCHANGED <<disk, local, mine, spoilt, settled, starts, edits, cuts>>

\* What run r writes disturbs the others.
Disturbed(to) == [q \in Runs |-> [to[q] EXCEPT !.clean = FALSE]]
DisturbedBy(r, to) == [q \in Runs |-> IF q = r THEN to ELSE [run[q] EXCEPT !.clean = FALSE]]
Puts(f, content) == disk' = [disk EXCEPT ![f] = content]

Write(r) ==
    LET f == FileOf(run[r].step)
    IN  /\ run[r].at = "write" /\ run[r].kind = "init"
        /\ Puts(f, run[r].held)
        /\ spoilt' = IF disk[f] # run[r].read THEN spoilt \cup {f} ELSE spoilt
        /\ run' = DisturbedBy(r, Past(r, 1))
        /\ settled' = (Finishes(r, 1) /\ run[r].clean)
        /\ UNCHANGED <<local, mine, starts, edits, cuts>>

\* StripAuthBlock, after satellites auth saved a credential: the table goes with all that was
\* appended to it.
Stripped(toml) ==
    [toml EXCEPT !.table = "", !.key = [k \in Keys |-> IF @[k].within THEN Not ELSE @[k]]]
ReadToml(r) ==
    /\ run[r].at = "idle" /\ starts < MaxStarts /\ starts' = starts + 1
    /\ disk.toml.table = "auth"
    /\ Set(r, [Idle EXCEPT !.at = "write", !.held = Stripped(disk.toml), !.read = disk.toml, !.kind = "auth"])
    /\ UNCHANGED <<disk, local, mine, spoilt, settled, edits, cuts>>
Strip(r) ==
    /\ run[r].at = "write" /\ run[r].kind = "auth"
    /\ Puts("toml", run[r].held)
    /\ spoilt' = IF disk.toml # run[r].read THEN spoilt \cup {"toml"} ELSE spoilt
    /\ run' = DisturbedBy(r, Idle)
    /\ settled' = FALSE
    /\ UNCHANGED <<local, mine, starts, edits, cuts>>

\* A command is cut off; within a write, the file is left empty, or a part of its json.
CutOff(r) ==
    LET f == IF run[r].kind = "auth" THEN "toml" ELSE FileOf(run[r].step)
    IN  /\ run[r].at # "idle" /\ cuts < MaxCuts /\ cuts' = cuts + 1
        /\ \/ UNCHANGED <<disk, spoilt, settled>> /\ Set(r, Idle)
           \/ /\ run[r].at = "write"
              /\ \E left \in CASE f = "toml" -> {EmptyToml}
                               [] f = "mcp" -> {Mcp(is, FALSE, "") : is \in {"file", "torn"}}
                               [] f = "settings" -> {Settings(is, FALSE, {}) : is \in {"file", "torn"}}
                               [] f = "ignore" -> {Ignore(FALSE, FALSE)}
                               [] f = "principles" -> {Principles(FALSE, TRUE)} :
                    Puts(f, left)
              /\ spoilt' = spoilt \cup {f}
              /\ run' = DisturbedBy(r, Idle) /\ settled' = FALSE
        /\ UNCHANGED <<local, mine, starts, edits>>

\* The user adds something of their own, the server's address too, or repairs a file.
Edit ==
    /\ edits < MaxEdits /\ edits' = edits + 1
    /\ \E f \in Files :
          /\ f = "toml" => disk.toml.is = "file"
          /\ \E content \in
                IF f = "toml"
                THEN {[disk.toml EXCEPT !.own = TRUE], [disk.toml EXCEPT !.own = TRUE, !.table = "other"],
                      [disk.toml EXCEPT !.own = TRUE, !.key["server_url"] = Own]}
                ELSE IF f \in {"mcp", "settings"} THEN {[disk[f] EXCEPT !.is = "file", !.own = TRUE]}
                ELSE {[disk[f] EXCEPT !.own = TRUE]} :
                Puts(f, content)
          /\ mine' = mine \cup {f}
    /\ run' = Disturbed(run) /\ settled' = FALSE
    /\ UNCHANGED <<local, spoilt, starts, cuts>>

Next ==
    \/ \E r \in Runs :
          \/ Start(r) \/ Look(r) \/ Match(r) \/ Write(r)
          \/ ReadToml(r) \/ Strip(r) \/ CutOff(r)
    \/ Edit

Spec == Init /\ [][Next]_scaffoldVars

-----------------------------------------------------------------------------
TypeOK ==
    /\ DOMAIN disk = Files
    /\ \A k \in Keys : disk.toml.key[k].how \in {"not", "note", "set", "own"}
    /\ disk.settings.hooks \subseteq {Hooks[i] : i \in DOMAIN Hooks}
    /\ \A r \in Runs : run[r].at \in {"idle", "look", "write"} /\ run[r].step \in 0..Len(Steps)
    /\ mine \subseteq Files /\ spoilt \subseteq Files
    /\ starts \in 0..MaxStarts /\ edits \in 0..MaxEdits /\ cuts \in 0..MaxCuts

\* What the user keeps in a file stays, unless a command wrote over an edit or was cut off.
UserKept == \A f \in mine \ spoilt : disk[f].own

\* Where an init went through undisturbed, the client of the agent asks the server that the
\* commands ask, the hooks, the ignored files and the principles are there, and another init
\* writes nothing but a project that is known by then.
Settled ==
    settled =>
        /\ ServerURL(disk) # "" => disk.mcp.url = ServerURL(disk)
        /\ ServerURL(disk) = "" => disk.toml.key["server_url"].within
        /\ disk.settings.hooks = {Hooks[i] : i \in DOMAIN Hooks}
        /\ disk.ignore.block /\ (disk.principles.own \/ disk.principles.starter)
        /\ \A step \in DOMAIN Steps :
              Steps[step] # "project" => After(step, disk) = disk[FileOf(step)]
=============================================================================
