------------------------------- MODULE Doors -------------------------------
(***************************************************************************)
(* The doors a tool of the agent goes through: the edit door               *)
(* (internal/cli/cmd_hook.go), by the file, and the commit door            *)
(* (cmd_hook_commitgate.go), by what it makes of a shell command, beside   *)
(* what the shell makes of it.  A command is a sequence of the words,      *)
(* quotation marks, operators and ends of line in it.                      *)
(***************************************************************************)
EXTENDS Naturals, Sequences, FiniteSets, SequencesExt

CONSTANTS
    Commands,       \* what the agent may run
    Paths,          \* the words that are files, by where they are
    Starting        \* what the session may have in the repositories

VARIABLES
    row,        \* what the session has in a repository: "none", "stale", "idle" or "editable"
    configured, \* the session is in a repository of satellites
    strict,     \* commit_gate = "commit", by the toml of that repository
    call        \* the call under way, with what the session had when the door was asked

doorVars == <<row, configured, strict, call>>

Repos == {"this", "other"}
Quotes == {"'", "\""}
Ends == {";", "nl"}         \* ; | && || and a newline
Wrappers == {"sudo", "X=1"}
HereDoc == "<<E"            \* and the line "E" that ends it
Idle == [at |-> "idle", command |-> <<>>, path |-> "", had |-> [r \in Repos |-> "none"]]

\* What the session may have: no row is kept of a place that is no repository.
Rows == {r \in Starting : configured \/ r["this"] = "none"}

Init ==
    /\ configured \in BOOLEAN /\ strict \in (IF configured THEN BOOLEAN ELSE {FALSE})
    /\ row \in Rows
    /\ call = Idle

-----------------------------------------------------------------------------
\* quoteMask, without escapes: the mark that is open before a symbol, and the symbols that are
\* in a quotation.
Open(s) ==
    LET q[i \in 1..Len(s)] ==
            IF i = 1 THEN ""
            ELSE IF q[i - 1] = "" THEN (IF s[i - 1] \in Quotes THEN s[i - 1] ELSE "")
            ELSE IF s[i - 1] = q[i - 1] THEN "" ELSE q[i - 1]
    IN  q
Masked(s) == {i \in DOMAIN s : Open(s)[i] # "" \/ s[i] \in Quotes}

\* The pieces of s between the symbols at the places given.
Pieces(s, at) ==
    {SubSeq(s, p[1], p[2]) : p \in
        {p \in (1..Len(s) + 1) \X (0..Len(s)) :
            /\ p[1] = 1 \/ p[1] - 1 \in at
            /\ p[2] = Len(s) \/ p[2] + 1 \in at
            /\ p[1] <= p[2] /\ \A i \in p[1]..p[2] : i \notin at}}

\* splitShellSegments.
Segments(s) == Pieces(s, {i \in DOMAIN s : s[i] \in Ends} \ Masked(s))

\* stripHeredocs, line by line and blind to quotations: the operator goes, and the lines up to
\* the one that ends it.
StripHeredocs(s) ==
    LET nls == {i \in DOMAIN s : s[i] = "nl"}
        line(i) == Cardinality({j \in nls : j < i})
        lines == 0..Cardinality(nls)
        has(n) == \E i \in DOMAIN s : line(i) = n /\ s[i] = HereDoc
        ends(n) == \E i \in DOMAIN s : line(i) = n /\ s[i] = "E"
                        /\ \A j \in DOMAIN s \ nls : line(j) = n => j = i
        \* the line is of a body
        body[n \in lines] ==
            n > 0 /\ \/ body[n - 1] /\ ~ ends(n - 1)
                     \/ ~ body[n - 1] /\ has(n - 1)
        keep == {i \in DOMAIN s : ~ body[line(i)] /\ s[i] # HereDoc}
    IN  [k \in 1..Cardinality(keep) |-> s[CHOOSE i \in keep : Cardinality({j \in keep : j <= i}) = k]]

\* redirectTargets: from left to right, a > takes the quotation or the word after it, whether
\* it is quoted itself or not.
RedirectTargets(s) ==
    LET closes(i) == {j \in i + 1..Len(s) : s[j] = s[i]}
        end(i) == CHOOSE j \in closes(i) : \A k \in closes(i) : j <= k
        taken[i \in 1..Len(s) + 1] ==
            IF i >= Len(s) THEN {}
            ELSE IF s[i] # ">" THEN taken[i + 1]
            ELSE IF s[i + 1] \in Quotes /\ closes(i + 1) # {}
            THEN taken[end(i + 1) + 1] \cup
                 (IF i \in Masked(s) THEN {} ELSE {s[j] : j \in i + 2..end(i + 1) - 1})
            ELSE IF s[i + 1] \in {">", "2>"} THEN taken[i + 1]
            ELSE taken[i + 2] \cup (IF i \in Masked(s) THEN {} ELSE {s[i + 1]})
    IN  IF s = <<>> THEN {} ELSE taken[1]

\* gitSubcommand: the word after the first git of a segment, wherever it stands.
GitSubcommand(g) == {g[i + 1] : i \in {j \in 1..Len(g) - 1 : g[j] = "git" /\ \A h \in 1..j - 1 : g[h] # "git"}}

\* commandMutationTargets: by the first word after the prefixes, whatever is quoted. gitMvArgs:
\* what follows the first mv.
Leading(s) == {i \in DOMAIN s : s[i] \notin Wrappers /\ \A j \in 1..i - 1 : s[j] \in Wrappers}
CommandTargets(s) ==
    UNION {LET args == SelectSeq(SubSeq(s, i + 1, Len(s)), LAMBDA w : w # "-i")
               last == IF args = <<>> THEN {} ELSE {Last(args)}
               moved == {args[k] : k \in {n \in DOMAIN args : \E h \in 1..n - 1 : args[h] = "mv"}}
           IN  CASE s[i] \in {"rm", "mv", "tee"} -> Range(args)
                 [] s[i] = "cp" -> last
                 [] s[i] = "sed" /\ "-i" \in Range(s) -> last
                 [] s[i] = "git" /\ "mv" \in GitSubcommand(s) -> moved
                 [] OTHER -> {} : i \in Leading(s)}
MutationTargets(s) == UNION {RedirectTargets(g) \cup CommandTargets(g) : g \in Segments(s)}

GitSubcommands(s) == UNION {GitSubcommand(g) : g \in Segments(s)}

\* classifyGitCommand.
Gated(s) == "push" \in GitSubcommands(s) \/ (strict /\ "commit" \in GitSubcommands(s))

-----------------------------------------------------------------------------
\* engagementOutcome.
Opens(r) == row[r] = "editable"

\* gateOutcomeEng: outside of a repository all is refused; what is no file that is known is taken
\* for a file of this repository.
DoorOf(word) ==
    IF word \notin DOMAIN Paths THEN {"this"}
    ELSE CASE Paths[word] \in {"exempt", "nowhere"} -> {}
           [] Paths[word] \in {"this", "nested"} -> {"this"}
           [] Paths[word] = "other" -> {"other"}
Allowed(word) == configured /\ \A r \in DoorOf(word) : Opens(r)

\* runHookGate, of an edit.
AskEdit ==
    /\ call.at = "idle"
    /\ \E p \in DOMAIN Paths :
          call' = [Idle EXCEPT !.at = IF Allowed(p) THEN "edit" ELSE "denied", !.path = p, !.had = row]
    /\ UNCHANGED <<row, configured, strict>>

\* runHookCommitGate, of a command: what it writes is looked at only in a repository.
CommandAllowed(s) ==
    LET scan == StripHeredocs(s)
    IN  /\ configured => \A t \in MutationTargets(scan) : Allowed(t)
        /\ Gated(scan) => Opens("this")
AskCommand ==
    /\ call.at = "idle"
    /\ \E s \in Commands :
          call' = [Idle EXCEPT !.at = IF CommandAllowed(s) THEN "run" ELSE "denied", !.command = s, !.had = row]
    /\ UNCHANGED <<row, configured, strict>>

\* The tool runs, or the agent is told why not.
Run ==
    /\ call.at # "idle"
    /\ call' = Idle
    /\ UNCHANGED <<row, configured, strict>>

\* The row of the session changes, by its commands or the lease.
Change ==
    /\ row' \in Rows
    /\ UNCHANGED <<configured, strict, call>>

Next == AskEdit \/ AskCommand \/ Run \/ Change

Spec == Init /\ [][Next]_doorVars

-----------------------------------------------------------------------------
\* What the shell makes of a command: the words, without marks and documents, and whether they
\* were quoted.
Words(s) ==
    LET \* before symbol i: in code, in a quotation, or in a document; one is due after the line
        m[i \in 1..Len(s)] ==
            IF i = 1 THEN [in |-> "code", due |-> FALSE]
            ELSE LET p == m[i - 1] w == s[i - 1] IN
                 CASE p.in = "code" /\ w \in Quotes -> [p EXCEPT !.in = w]
                   [] p.in = "code" /\ w = HereDoc -> [p EXCEPT !.due = TRUE]
                   [] p.in = "code" /\ w = "nl" /\ p.due -> [in |-> "body", due |-> FALSE]
                   [] p.in \in Quotes /\ w = p.in -> [p EXCEPT !.in = "code"]
                   [] p.in = "body" /\ w = "nl" /\ i > 3 /\ s[i - 2] = "E" /\ s[i - 3] = "nl" ->
                        [p EXCEPT !.in = "code"]
                   [] OTHER -> p
        kept == {i \in DOMAIN s : IF m[i].in = "code" THEN s[i] \notin Quotes \cup {HereDoc}
                                  ELSE m[i].in \in Quotes /\ s[i] # m[i].in}
    IN  [k \in 1..Cardinality(kept) |->
            LET i == CHOOSE j \in kept : Cardinality({h \in kept : h <= j}) = k
            IN  [w |-> s[i], quoted |-> m[i].in \in Quotes]]

\* The files it writes, and what it does to the repository.
Effects(s) ==
    LET all == Words(s)
        arrow(c, i) == ~ c[i].quoted /\ c[i].w \in {">", "2>"}
        of(c) ==
            LET plain == {i \in DOMAIN c : ~ arrow(c, i) /\ (i > 1 => ~ arrow(c, i - 1)) /\ c[i].w \notin Wrappers}
                first == {i \in plain : \A j \in plain : i <= j}
                args == {c[i].w : i \in plain \ first} \ {"-i"}
                second == {c[i].w : i \in {j \in plain \ first : \A k \in plain \ first : j <= k}}
                final == {c[i].w : i \in {j \in plain \ first : \A k \in plain : k <= j}}
            IN  [file : {c[i].w : i \in {j \in DOMAIN c : j > 1 /\ arrow(c, j - 1)}} \cup
                        UNION {CASE c[i].w \in {"rm", "mv", "tee"} -> args
                                 [] c[i].w = "git" /\ second = {"mv"} -> args \ second
                                 [] c[i].w = "cp" \/ (c[i].w = "sed" /\ \E j \in plain : c[j].w = "-i") -> final
                                 [] OTHER -> {} : i \in first},
                 git : {"no"}]
                \cup [file : {""}, git : UNION {IF c[i].w = "git" THEN second ELSE {} : i \in first}]
    IN  UNION {of(c) : c \in Pieces(all, {i \in DOMAIN all : ~ all[i].quoted /\ all[i].w \in Ends})}

\* What a door should ask for: the repository a file is in, or the one that is shared.
Needs(effect) ==
    IF effect.file = "" THEN (IF effect.git = "push" \/ (effect.git = "commit" /\ strict) THEN {"this"} ELSE {})
    ELSE ({IF effect.file \in DOMAIN Paths THEN Paths[effect.file] ELSE "this"} \cap Repos)
            \ (IF configured THEN {} ELSE {"this"})

\* The scan misses a command that quotes an operator it goes by, and what cp and sed write where
\* a redirection follows.
Slips(s) ==
    \/ \E i \in DOMAIN s : s[i] = "2>" \/ (i \in Masked(s) /\ s[i] \in {">", HereDoc})
    \/ \E g \in Segments(StripHeredocs(s)) : {"cp", "sed"} \cap Range(g) # {} /\ ">" \in Range(g)

TypeOK ==
    /\ call.at \in {"idle", "edit", "run", "denied"} /\ call.path \in DOMAIN Paths \cup {""}
    /\ row \in Rows /\ call.had \in Starting \cup {Idle.had}

\* A file of a repository is written, and work is shared, only by a session that had a fresh
\* and editable engagement there when the door was asked; but not what the shell writes by a
\* descriptor, nor what the scan is known to miss, nor what a command writes into a repository
\* from a place that is none.
WritesEngaged ==
    /\ call.at = "edit" => \A r \in Needs([file |-> call.path, git |-> "no"]) : call.had[r] = "editable"
    /\ call.at = "run" =>
          \/ \A effect \in Effects(call.command) :
                \A r \in Needs(effect) : call.had[r] = "editable" \/ (~configured /\ effect.file # "")
          \/ Slips(call.command)

\* A command that writes no such file and shares nothing is let through; but not one that
\* speaks of git, nor one of a command that writes, with an operator or a quotation.
ReadsPass ==
    call.at = "denied" /\ call.command # <<>> =>
        \/ \E effect \in Effects(call.command) : \E r \in Needs(effect) : call.had[r] # "editable"
        \/ \E i \in DOMAIN call.command : call.command[i] = "git" /\ i > 1
        \/ \E g \in Segments(StripHeredocs(call.command)) :
              CommandTargets(g) # {} /\ Range(g) \cap (Quotes \cup {">", "2>"}) # {}
=============================================================================
