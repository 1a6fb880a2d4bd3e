----------------------------- MODULE CodeIndex -----------------------------
(***************************************************************************)
(* The symbol index of a clone (internal/codeindex): satellites code index *)
(* reads the hashes, walks the files, parses what changed and writes it    *)
(* back in one transaction, while files are edited and other sessions      *)
(* index too (internal/cli/cmd_code.go).                                   *)
(***************************************************************************)
EXTENDS Naturals, Sequences

CONSTANTS
    Paths,          \* a sequence: the files in the order of the walk
    Texts,          \* what a file may hold that parses
    Bad,            \* a text that does not parse
    Gone,           \* no file, or one that cannot be read
    Runs, MaxStarts, MaxEdits, MaxCuts

Names == {Paths[i] : i \in DOMAIN Paths}
None == 0       \* no row

VARIABLES
    file,       \* what the files hold
    hash,       \* files: the text that a file was last parsed of
    symbols,    \* symbols: the text that the symbols of a file are of
    run,
    sound,      \* history: files that are as an undisturbed run found them
    starts, edits, cuts

codeIndexVars == <<file, hash, symbols, run, sound, starts, edits, cuts>>

Idle == [at |-> "idle", n |-> 0, full |-> FALSE, prior |-> [f \in Names |-> None], changed |-> [f \in {} |-> None],
         seen |-> {}, clean |-> {}]

Init ==
    /\ file \in [Names -> Texts \cup {Gone}]
    /\ hash = [f \in Names |-> None] /\ symbols = [f \in Names |-> None]
    /\ run = [r \in Runs |-> Idle]
    /\ sound = {}
    /\ starts = 0 /\ edits = 0 /\ cuts = 0

Set(r, to) == run' = [run EXCEPT ![r] = to]

\* IndexRepo: LoadFileHashes.
Start(r) ==
    /\ run[r].at = "idle" /\ starts < MaxStarts /\ starts' = starts + 1
    /\ \E full \in BOOLEAN :
          Set(r, [Idle EXCEPT !.at = "walk", !.n = 1, !.full = full, !.prior = hash,
                              !.clean = IF \A q \in Runs : run[q].at = "idle" THEN Names ELSE {}])
    /\ UNCHANGED <<file, hash, symbols, sound, edits, cuts>>

\* A file whose hash the index has is left alone, unless everything is to be parsed.
Current(r, f) == ~ run[r].full /\ run[r].prior[f] = file[f]

\* extractFile, by the extractor of the language: the symbols of a text, with their offsets.
Extracted(text) == text

\* What the walk has of the file it reads: seen or not, changed or not.
Walk(r) ==
    LET f == Paths[run[r].n]
        on == [run[r] EXCEPT !.n = @ + 1, !.at = IF run[r].n = Len(Paths) THEN "write" ELSE "walk"]
        kept == [on EXCEPT !.seen = @ \cup {f}]
    IN  /\ run[r].at = "walk"
        /\ IF file[f] = Gone THEN Set(r, on)
           ELSE IF Current(r, f) THEN Set(r, kept)
           ELSE IF file[f] = Bad THEN Set(r, on)
           ELSE Set(r, [kept EXCEPT !.changed = [g \in DOMAIN @ \cup {f} |->
                                                    IF g = f THEN Extracted(file[f]) ELSE @[g]]])
        /\ UNCHANGED <<file, hash, symbols, sound, starts, edits, cuts>>

\* What was indexed and not seen.
Pruned(r) == {f \in Names : run[r].prior[f] # None /\ f \notin run[r].seen}

\* Reconcile: the changed files and their hashes, and the rows of what is to be pruned.
Row(r, f, row) ==
    IF f \in DOMAIN run[r].changed THEN run[r].changed[f] ELSE IF f \in Pruned(r) THEN None ELSE row
Others(r) == [q \in Runs |-> IF q = r THEN Idle ELSE [run[q] EXCEPT !.clean = {}]]
Reconcile(r) ==
    /\ run[r].at = "write"
    /\ hash' = [f \in Names |-> Row(r, f, hash[f])]
    /\ symbols' = [f \in Names |-> Row(r, f, symbols[f])]
    /\ sound' = run[r].clean
    /\ run' = Others(r)
    /\ UNCHANGED <<file, starts, edits, cuts>>

\* A run is cut off, or fails: the transaction rolls back.
CutOff(r) ==
    /\ run[r].at # "idle" /\ cuts < MaxCuts /\ cuts' = cuts + 1
    /\ Set(r, Idle)
    /\ UNCHANGED <<file, hash, symbols, sound, starts, edits>>

Edit ==
    /\ edits < MaxEdits /\ edits' = edits + 1
    /\ \E f \in Names, text \in Texts \cup {Bad, Gone} :
          /\ text # file[f] /\ file' = [file EXCEPT ![f] = text]
          /\ sound' = sound \ {f}
          /\ run' = [q \in Runs |-> [run[q] EXCEPT !.clean = @ \ {f}]]
    /\ UNCHANGED <<hash, symbols, starts, cuts>>

Next ==
    \/ \E r \in Runs : Start(r) \/ Walk(r) \/ Reconcile(r) \/ CutOff(r)
    \/ Edit

Spec == Init /\ [][Next]_codeIndexVars

-----------------------------------------------------------------------------
TypeOK ==
    /\ \A f \in Names : file[f] \in Texts \cup {Bad, Gone} /\ hash[f] \in Texts \cup {None}
    /\ \A r \in Runs : run[r].at \in {"idle", "walk", "write"} /\ run[r].n \in 0..Len(Paths) + 1
    /\ starts \in 0..MaxStarts /\ edits \in 0..MaxEdits /\ cuts \in 0..MaxCuts

\* The hash of a file is that of the text its symbols are of, however runs overlap, so that the
\* next run parses again what is stale.
HashHonest == \A f \in Names : hash[f] = symbols[f]

\* After a run that met no other, the symbols of a file that was not edited since the run began
\* are those it declares, so that their offsets are theirs; a file that does not parse has none.
IndexCurrent ==
    \A f \in sound :
        IF file[f] \in Texts THEN symbols[f] = file[f] ELSE symbols[f] = None
=============================================================================
