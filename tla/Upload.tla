------------------------------- MODULE Upload -------------------------------
(***************************************************************************)
(* The upload of the artifacts of one kind from a clone to its project     *)
(* (internal/cli/cmd_documents.go), with the reviewer that judges them     *)
(* (internal/verb/request_review_dispatcher.go), the headline that is      *)
(* filled in behind an upload, document upload of one file, context        *)
(* curate, skill publish, and what the server asks of a behaviour kind     *)
(* (internal/verb/document.go).  A skill's row is of a type of its own; a  *)
(* principle's is a document with a principles tag, as its file has one.   *)
(***************************************************************************)
EXTENDS Naturals, FiniteSets

CONSTANTS
    Names,          \* artifacts, in the order of their paths
    Clean, Dirty,   \* bodies; the dirty ones hard-code a reference that rots,
    Exempt,         \* and so may these, whose files carry the tag content-review:allow-refs
    Bad, NoBody, Empty,
    Runs,           \* commands under way at once
    MaxStarts,      \* no more commands than this
    MaxEdits,       \* no more edits of files and reviewers than this
    MaxFails        \* no more calls fail than this

VARIABLES
    kind,       \* "skill", "principle" or "document"
    file,       \* the files of the clone; Bad: it does not parse
    row,        \* the project's rows
    library,    \* the rows that publish writes
    headline,   \* the names whose row has a headline
    filed,      \* the names whose row is a skill, or is tagged as a principle
    reviewer,   \* what each source holds under the name of the kind's reviewer
    run,        \* the commands
    accepted,   \* history: the bodies a reviewer accepted, by name
    open,       \* history: the bodies uploaded when no reviewer was found
    direct,     \* history: the bodies document upload of one file wrote
    torn,       \* history: the names whose tags such an upload did not come to replace
    starts, edits, fails

uploadVars ==
    <<kind, file, row, library, headline, filed, reviewer, run, accepted, open, direct, torn, starts, edits, fails>>

Bodies == Clean \cup Dirty \cup Exempt
Idle == [at |-> "idle", todo |-> {}, plan |-> [n \in Names |-> NoBody], gate |-> FALSE]

Init ==
    /\ kind \in {"skill", "principle", "document"}
    /\ file \in [Names -> Bodies]
    /\ row \in {[n \in Names |-> b] : b \in Clean \cup {NoBody}}
    /\ library = [n \in Names |-> NoBody]
    /\ headline = {} /\ filed = {n \in Names : row[n] # NoBody}
    /\ reviewer \in [local : {"none", "reviewer"}, embed : {IF kind = "document" THEN "none" ELSE "reviewer"},
                     server : {"none", "reviewer"}]
    /\ run = [r \in Runs |-> Idle]
    /\ accepted = {<<n, row[n]>> : n \in Names} /\ open = {} /\ direct = {} /\ torn = {}
    /\ starts = 0 /\ edits = 0 /\ fails = 0

Sets(r, at) == run' = [run EXCEPT ![r].at = at]
Ends(r) == run' = [run EXCEPT ![r] = Idle]
Fails == fails < MaxFails /\ fails' = fails + 1
Starts(r) == run[r].at = "idle" /\ starts < MaxStarts /\ starts' = starts + 1
Head(r) == CHOOSE n \in run[r].todo : \A m \in run[r].todo : n <= m

\* The artifact is done with, and the next is looked at.
Advances(r) ==
    LET todo == run[r].todo \ {Head(r)}
    IN  run' = [run EXCEPT ![r] = IF todo = {} THEN Idle ELSE [run[r] EXCEPT !.at = "filter", !.todo = todo]]

\* resolveSkillEmbedLocalServer: the local copy, then the embed, then the server, whose answer
\* may be an error, or miss what only the project holds.
Found(server) ==
    IF reviewer.local # "none" THEN reviewer.local
    ELSE IF reviewer.embed # "none" THEN reviewer.embed
    ELSE server

\* reviewRequiredKind: content of these is refused without an attestation.
Behaviour == kind # "document"

\* Mutant: what changes a row that is there is taken for a patch of its tags.
NeedsFirst(n, body) == Behaviour /\ row[n] = NoBody

\* The barrier of document_upsert: a body the row has already needs no review.
Needs(n, body) == Behaviour /\ row[n] # body

\* Store.Upsert: a skill is not written over a document of its name.
Fits(n) == kind = "skill" => row[n] = NoBody \/ n \in filed

-----------------------------------------------------------------------------
\* The file is edited, or a reviewer is installed, broken, replaced or withdrawn.
Edit ==
    /\ edits < MaxEdits /\ edits' = edits + 1
    /\ \/ \E n \in Names : \E b \in (Bodies \cup {Bad}) \ {file[n]} : file' = [file EXCEPT ![n] = b] /\ UNCHANGED reviewer
       \/ \E l \in {"none", "broken", "plain", "reviewer"} : reviewer' = [reviewer EXCEPT !.local = l] /\ UNCHANGED file
       \/ \E s \in {"none", "reviewer"} : reviewer' = [reviewer EXCEPT !.server = s] /\ UNCHANGED file
    /\ UNCHANGED <<kind, row, library, headline, filed, run, accepted, open, direct, torn, starts, fails>>

\* validateUpload: a file that does not parse refuses them all, whatever was asked for.
StartUpload(r) ==
    /\ Starts(r)
    /\ \A n \in Names : file[n] # Bad
    /\ \E todo \in {Names} \cup {{n} : n \in Names} :
          run' = [run EXCEPT ![r] = [Idle EXCEPT !.at = "plan", !.todo = todo]]
    /\ UNCHANGED <<kind, file, row, library, headline, filed, reviewer, accepted, open, direct, torn, edits, fails>>

\* planUpload reads the files again; one that no longer parses has an empty body.
Plan(r) ==
    /\ run[r].at = "plan"
    /\ run' = [run EXCEPT ![r].at = "gate", ![r].plan = [n \in Names |-> IF file[n] = Bad THEN Empty ELSE file[n]]]
    /\ UNCHANGED <<kind, file, row, library, headline, filed, reviewer, accepted, open, direct, torn, starts, edits, fails>>

\* Whether the kind is gated is asked once; a look-up that fails means that it is not.
AskGate(r) ==
    /\ run[r].at = "gate"
    /\ \/ run' = [run EXCEPT ![r].at = "filter", ![r].gate = Found(reviewer.server) = "reviewer"] /\ UNCHANGED fails
       \/ run' = [run EXCEPT ![r].at = "filter", ![r].gate = Found("none") = "reviewer"] /\ Fails
    /\ UNCHANGED <<kind, file, row, library, headline, filed, reviewer, accepted, open, direct, torn, starts, edits>>

\* The deterministic filter ends the run at the first artifact it stops; it passes over one
\* whose file is exempt (hasReviewExemptTag).
Filter(r) ==
    /\ run[r].at = "filter"
    /\ IF run[r].plan[Head(r)] \in Dirty THEN Ends(r) ELSE Sets(r, IF run[r].gate THEN "review" ELSE "write")
    /\ UNCHANGED <<kind, file, row, library, headline, filed, reviewer, accepted, open, direct, torn, starts, edits, fails>>

\* ReviewContent looks the reviewer up again; a reject, an answer without a verdict and a
\* reviewer that is not found any more end the run.
Review(r) ==
    /\ run[r].at = "review"
    /\ \/ /\ Found(reviewer.server) \in {"reviewer", "plain"}
          /\ Sets(r, "write")
          /\ accepted' = accepted \cup {<<Head(r), run[r].plan[Head(r)]>>}
       \/ Ends(r) /\ UNCHANGED accepted
    /\ UNCHANGED <<kind, file, row, library, headline, filed, reviewer, open, direct, torn, starts, edits, fails>>

\* Only what the reviewer of this run accepted is attested.
Attests(r) == run[r].gate

\* document_upsert of what was read when the run was planned: the body, and then the tags.
Lands(n, body) ==
    /\ row' = [row EXCEPT ![n] = body]
    /\ filed' = filed \cup {n}
LandsUntagged(n, body) ==
    /\ kind # "skill"
    /\ row' = [row EXCEPT ![n] = body]
    /\ UNCHANGED filed

Write(r) ==
    LET n == Head(r)
        body == run[r].plan[n]
    IN  /\ run[r].at = "write"
        /\ \/ /\ (Needs(n, body) /\ ~ Attests(r)) \/ ~ Fits(n)
              /\ Ends(r)
              /\ UNCHANGED <<row, filed, open, fails>>
           \/ /\ Needs(n, body) => Attests(r)
              /\ Fits(n)
              /\ open' = IF run[r].gate THEN open ELSE open \cup {<<n, body>>}
              /\ \/ /\ Lands(n, body)
                    /\ IF kind # "skill" /\ n \notin headline THEN Sets(r, "headline") ELSE Advances(r)
                    /\ UNCHANGED fails
                 \/ Fails /\ Ends(r) /\ (Lands(n, body) \/ LandsUntagged(n, body))
           \/ Fails /\ Ends(r) /\ UNCHANGED <<row, filed, open>>
        /\ UNCHANGED <<kind, file, library, headline, reviewer, accepted, direct, torn, starts, edits>>

\* fillHeadlineIfEmpty sends the body once more, attested for a principle; nothing it meets
\* ends the run.
FillHeadline(r) ==
    LET n == Head(r)
        body == run[r].plan[n]
    IN  /\ run[r].at = "headline"
        /\ Advances(r)
        /\ \/ Lands(n, body) /\ headline' = headline \cup {n}
           \/ UNCHANGED <<row, filed, headline>>
        /\ UNCHANGED <<kind, file, library, reviewer, accepted, open, direct, torn, starts, edits, fails>>

\* runDocumentFileUpload: any file that is not empty, of the clone or not, becomes a document
\* that no filter and no reviewer saw. The row of a skill is not one; a principle's loses its
\* tags, if the call gets that far.
UploadFile ==
    /\ starts < MaxStarts /\ starts' = starts + 1
    /\ \E n \in Names, body \in Bodies :
          /\ kind = "skill" => n \notin filed
          /\ row' = [row EXCEPT ![n] = body]
          /\ direct' = direct \cup {<<n, body>>}
          /\ \/ filed' = filed \ {n} /\ UNCHANGED <<torn, fails>>
             \/ Fails /\ torn' = torn \cup {n} /\ UNCHANGED filed
    /\ UNCHANGED <<kind, file, library, headline, reviewer, run, accepted, open, edits>>

\* context curate reads the row of a principle, which it knows by its tag, and sends its body
\* back with that tag and principles:always, or without the latter.
StartCurate(r) ==
    /\ kind = "principle" /\ Starts(r)
    /\ \E n \in Names : /\ n \in filed
                        /\ run' = [run EXCEPT ![r] = [Idle EXCEPT !.at = "curate", !.todo = {n}, !.plan = row]]
    /\ UNCHANGED <<kind, file, row, library, headline, filed, reviewer, accepted, open, direct, torn, edits, fails>>
Curate(r) ==
    LET n == Head(r)
    IN  /\ run[r].at = "curate"
        /\ IF Needs(n, run[r].plan[n]) THEN UNCHANGED <<row, filed>> ELSE Lands(n, run[r].plan[n])
        /\ Ends(r)
        /\ UNCHANGED <<kind, file, library, headline, reviewer, accepted, open, direct, torn, starts, edits, fails>>

\* skill publish runs the filter, which it may be told to skip, and attests the body itself;
\* one that declares the level project is not attested.
Publish ==
    /\ kind = "skill" /\ starts < MaxStarts /\ starts' = starts + 1
    /\ \E n \in Names :
          /\ file[n] # Bad
          /\ \/ library' = [library EXCEPT ![n] = file[n]] /\ UNCHANGED row
             \/ ~ Needs(n, file[n]) /\ Fits(n) /\ row' = [row EXCEPT ![n] = file[n]] /\ UNCHANGED library
    /\ UNCHANGED <<kind, file, headline, filed, reviewer, run, accepted, open, direct, torn, edits, fails>>

Next ==
    \/ Edit \/ Publish \/ UploadFile
    \/ \E r \in Runs :
          \/ StartUpload(r) \/ Plan(r) \/ AskGate(r) \/ Filter(r) \/ Review(r) \/ Write(r)
          \/ FillHeadline(r) \/ StartCurate(r) \/ Curate(r)

Spec == Init /\ [][Next]_uploadVars

-----------------------------------------------------------------------------
TypeOK ==
    /\ file \in [Names -> Bodies \cup {Bad}]
    /\ row \in [Names -> Bodies \cup {NoBody, Empty}] /\ library \in [Names -> Bodies \cup {NoBody}]
    /\ headline \subseteq Names /\ filed \subseteq Names /\ torn \subseteq Names
    /\ \A r \in Runs :
          /\ run[r].at \in {"idle", "plan", "gate", "filter", "review", "write", "headline", "curate"}
          /\ run[r].at # "idle" => run[r].todo # {}
    /\ starts \in 0..MaxStarts /\ edits \in 0..MaxEdits /\ fails \in 0..MaxFails

\* A row of the project has a body that hard-codes a reference only if its file said so by its
\* tag, or the upload of a single file wrote it, and then the row is no skill and no principle,
\* but for a call that did not come to replace the tags. What a skill or a principle says was
\* accepted by a reviewer, or a single file said it first, however runs, curations and
\* publishing overlap and whatever becomes of the reviewer; of a document, unless no reviewer
\* was found for it.
UploadsJudged ==
    \A n \in Names : row[n] # NoBody =>
        /\ row[n] \in Dirty => <<n, row[n]>> \in direct /\ (kind # "document" /\ n \in filed => n \in torn)
        /\ <<n, row[n]>> \in accepted \cup direct \/ (kind = "document" /\ <<n, row[n]>> \in open)
=============================================================================
