----------------------------- MODULE Governance -----------------------------
(***************************************************************************)
(* Which workflow governs a story (internal/verb/workflow_resolve.go), and *)
(* the commands that act on the answer: status_transition with a gate or a *)
(* checkpoint, set-status, `workflow embed` and `workflow design --apply`. *)
(* The sources are files of the clone in order of precedence: its own      *)
(* .satellites/workflows, materialised skills, the binary's defaults.  A   *)
(* command reads the story, then the files, then acts, perhaps minutes     *)
(* later; authors edit the story and the files meanwhile.  `workflow       *)
(* check`, `workflow list` and --explain tell what would govern, each with *)
(* code of its own.                                                        *)
(***************************************************************************)
EXTENDS WorkflowRules

CONSTANTS
    Slots,        \* how many files there may be; slot i is read before slot i+1
    TierOf,       \* the tier of a slot: "local", "skill" or "embed"
    Files,        \* what a slot may hold: [name, applies, wf], applies holds categories and "*"
    NoFile, NoName, NoBlock,
    Categories,   \* categories of stories
    MaxEdits      \* authors edit no more often than this while a command runs

VARIABLES
    file,     \* the file in each slot, or NoFile
    story,    \* the story on the server
    cmd,      \* the command under way: what it read and what it found
    edits     \* how many edits there were

govVars == <<file, story, cmd, edits>>

Names == {f.name : f \in Files}
Parses(f) == f # NoFile /\ Validates(f.wf)
Sources(in) == {i \in 1..Slots : Parses(in[i])}
First(S) == CHOOSE i \in S : \A j \in S : i <= j

-----------------------------------------------------------------------------
\* The sources whose applies_to names the category, or names every category.
Specific(in, cat) == {i \in Sources(in) : cat \in in[i].applies}
Wild(in) == {i \in Sources(in) : "*" \in in[i].applies}
Covers(f, cat) == {cat, "*"} \cap f.applies # {}

\* Mutant: the first source that covers the category wins, a wildcard too.
FirstCover(in, cat) == First({i \in Sources(in) : Covers(in[i], cat)})

\* ResolveGoverningWorkflow: the first specific source, else the first wildcard.
Covered(in, cat) == Specific(in, cat) \cup Wild(in) # {}
Default(in, cat) == First(IF Specific(in, cat) # {} THEN Specific(in, cat) ELSE Wild(in))

\* ResolveByName: the first source of that name, whether or not it covers the category.
Named(in, name) == {i \in Sources(in) : in[i].name = name}
Selected(in, s) == Named(in, s.selector) # {} /\ Covers(in[First(Named(in, s.selector))], s.category)

\* The shared shape of the governing queries: the selector where it resolves, else the
\* category's default, else the story's own block; Blank when there is none.
Governing(in, s) ==
    IF s.selector # NoName /\ Selected(in, s) THEN in[First(Named(in, s.selector))].wf
    ELSE IF Covered(in, s.category) THEN in[Default(in, s.category)].wf
    ELSE IF s.block # NoBlock /\ Validates(s.block) THEN s.block
    ELSE Blank

\* GoverningReconcile reports drift when the block is another machine than the default.
Drifted(in, s) ==
    /\ s.selector = NoName /\ Covered(in, s.category)
    /\ s.block # NoBlock /\ Validates(s.block)
    /\ ~ Equivalent(in[Default(in, s.category)].wf, s.block)

\* What is stamped for a resolved source is the block of the first file of its name.
FirstOfName(in, name) == in[First({i \in 1..Slots : in[i] # NoFile /\ in[i].name = name})].wf

\* stampWorkflowSection leaves a block alone that defines the same machine.
Stamped(in, i, s) ==
    IF s.block # NoBlock /\ Validates(s.block) /\ Equivalent(in[i].wf, s.block)
    THEN s.block ELSE FirstOfName(in, in[i].name)

-----------------------------------------------------------------------------
Kinds == {"gate", "checkpoint", "set-status", "embed", "design"}
Nothing == [i \in 1..Slots |-> NoFile]
NoStory == [status |-> NoState, category |-> CHOOSE c \in Categories : TRUE,
            selector |-> NoName, block |-> NoBlock, text |-> 0]
Idle == [kind |-> "none", at |-> "idle", arg |-> "", saw |-> NoStory, found |-> Nothing]

Init ==
    /\ file \in [1..Slots -> Files \cup {NoFile}]
    /\ story \in [status : States, category : Categories, selector : Names \cup {NoName},
                  block : {f.wf : f \in Files} \cup {NoBlock}, text : {0}]
    /\ cmd = Idle
    /\ edits = 0

\* A command reads the story.  Its argument is a gate, a target status or a proposed block.
Read ==
    /\ cmd = Idle
    /\ \E k \in Kinds :
       \E a \in IF k = "gate" THEN Gates ELSE IF k = "set-status" THEN States ELSE {""} :
          cmd' = [Idle EXCEPT !.kind = k, !.at = "read", !.arg = a, !.saw = story]
    /\ UNCHANGED <<file, story, edits>>

\* It gives up, is killed, or is refused.
Stop ==
    /\ cmd # Idle
    /\ cmd' = Idle
    /\ UNCHANGED <<file, story, edits>>

Then(at) == cmd' = [cmd EXCEPT !.at = at, !.found = file]

\* A transition refuses a selector that names no source, or one that does not cover the
\* category.  A drifted block is stamped afresh, in the body the command read.
ReadyToMove ==
    /\ cmd.kind \in {"gate", "checkpoint"} /\ cmd.at = "read"
    /\ cmd.saw.selector # NoName => Selected(file, cmd.saw)
    /\ IF Drifted(file, cmd.saw)
       THEN LET b == Stamped(file, Default(file, cmd.saw.category), cmd.saw)
            IN  \* a restamp that fails is reported and the transition goes on
                \/ /\ story' = [story EXCEPT !.block = b, !.text = cmd.saw.text]
                   /\ cmd' = [cmd EXCEPT !.at = "act", !.found = file, !.saw.block = b]
                \/ UNCHANGED story /\ Then("act")
       ELSE UNCHANGED story /\ Then("act")
    /\ UNCHANGED <<file, edits>>

\* set-status reads the files after the story and asks for an ungated edge.
ReadyToSet ==
    /\ cmd.kind = "set-status" /\ cmd.at = "read"
    /\ W(Governing(file, cmd.saw))!UngatedAdvance(cmd.saw.status, cmd.arg)
    /\ Then("act")
    /\ UNCHANGED <<file, story, edits>>

SetStatus ==
    /\ cmd.kind = "set-status" /\ cmd.at = "act"
    /\ story' = [story EXCEPT !.status = cmd.arg]
    /\ cmd' = Idle
    /\ UNCHANGED <<file, edits>>

\* The executor's checkpoint (its chain into a command's state is left to StoryGate).
TakeCheckpoint ==
    /\ cmd.kind = "checkpoint" /\ cmd.at = "act"
    /\ LET w == Governing(cmd.found, cmd.saw)
       IN  /\ W(w)!HasCheckpoint(cmd.saw.status)
           /\ story' = [story EXCEPT !.status = W(w)!CheckpointTo(cmd.saw.status)]
    /\ cmd' = Idle
    /\ UNCHANGED <<file, edits>>

\* What an accept by a gate moves a story to under a workflow, as a set: one state or none.
AcceptTo(w, s, g) ==
    IF W(w)!IsV2(s) THEN IF W(w)!GateMatches(s, g) THEN {W(w)!PassTo(s)} ELSE {}
    ELSE IF W(w)!HasGatedEdge(s, g) THEN {W(w)!GatedTo(s, g)} ELSE {}

\* What a reject moves it to: nothing without a fail edge.
RejectTo(w, s, g) ==
    IF W(w)!IsV2(s) /\ W(w)!GateMatches(s, g)
    THEN {W(w)!FailEdge(s).to, W(w)!FailEdge(s).exhausted} \ {NoState} ELSE {}

\* The gate decides and the client writes the move.
TakeGate ==
    /\ cmd.kind = "gate" /\ cmd.at = "act"
    /\ LET w == Governing(cmd.found, cmd.saw)
       IN  \E t \in AcceptTo(w, cmd.saw.status, cmd.arg) \cup RejectTo(w, cmd.saw.status, cmd.arg) :
              story' = [story EXCEPT !.status = t]
    /\ cmd' = Idle
    /\ UNCHANGED <<file, edits>>

\* `workflow embed` takes the selected workflow, or the default, which it first records as
\* the story's selector.
EmbedSelected ==
    /\ cmd.kind = "embed" /\ cmd.at = "read"
    /\ cmd.saw.selector # NoName /\ Selected(file, cmd.saw)
    /\ Then("stamp")
    /\ UNCHANGED <<file, story, edits>>
EmbedDefault ==
    /\ cmd.kind = "embed" /\ cmd.at = "read"
    /\ cmd.saw.selector = NoName /\ Covered(file, cmd.saw.category)
    /\ LET name == file[Default(file, cmd.saw.category)].name
       IN  /\ story' = [story EXCEPT !.selector = name]
           /\ cmd' = [cmd EXCEPT !.at = "stamp", !.found = file]
    /\ UNCHANGED <<file, edits>>

\* The source an embed resolved.
EmbedSource ==
    IF cmd.saw.selector # NoName THEN First(Named(cmd.found, cmd.saw.selector))
    ELSE Default(cmd.found, cmd.saw.category)

\* Then it stamps the block, in the body it read.
EmbedStamp ==
    /\ cmd.kind = "embed" /\ cmd.at = "stamp"
    /\ LET b == Stamped(cmd.found, EmbedSource, cmd.saw)
       IN  story' = IF b = cmd.saw.block THEN story ELSE [story EXCEPT !.block = b, !.text = cmd.saw.text]
    /\ cmd' = Idle
    /\ UNCHANGED <<file, edits>>

\* `workflow design --apply` writes a proposal that was found valid, in the body it read.
Design ==
    /\ cmd.kind = "design" /\ cmd.at = "read"
    /\ \E f \in Files : Accepted(f.wf) /\ story' = [story EXCEPT !.block = f.wf, !.text = cmd.saw.text]
    /\ cmd' = Idle
    /\ UNCHANGED <<file, edits>>

Edit == edits < MaxEdits /\ edits' = edits + 1 /\ UNCHANGED cmd

\* An author, or a sync, writes or removes a file; the binary's own stay.
EditFile ==
    /\ Edit
    /\ \E i \in 1..Slots : \E f \in Files \cup {NoFile} :
          TierOf[i] # "embed" /\ f # file[i] /\ file' = [file EXCEPT ![i] = f]
    /\ UNCHANGED story

\* Somebody edits the story: its selector, its category or its text.
EditStory ==
    /\ Edit
    /\ \/ \E n \in Names \cup {NoName} : n # story.selector /\ story' = [story EXCEPT !.selector = n]
       \/ \E c \in Categories : c # story.category /\ story' = [story EXCEPT !.category = c]
       \/ story' = [story EXCEPT !.text = @ + 1]
    /\ UNCHANGED file

Next ==
    \/ Read \/ Stop \/ ReadyToMove \/ ReadyToSet \/ SetStatus \/ TakeCheckpoint \/ TakeGate
    \/ EmbedSelected \/ EmbedDefault \/ EmbedStamp \/ Design \/ EditFile \/ EditStory

Spec == Init /\ [][Next]_govVars

-----------------------------------------------------------------------------
TypeOK ==
    /\ file \in [1..Slots -> Files \cup {NoFile}]
    /\ story \in [status : States, category : Categories, selector : Names \cup {NoName},
                  block : {f.wf : f \in Files} \cup {NoBlock}, text : 0..MaxEdits]
    /\ cmd.kind \in Kinds \cup {"none"} /\ cmd.at \in {"idle", "read", "act", "stamp"}
    /\ edits \in 0..MaxEdits

-----------------------------------------------------------------------------
(* The reports.                                                            *)

\* `workflow check` leaves out a default of the binary whose name a local file has.
Checked(in) ==
    {i \in 1..Slots : in[i] # NoFile /\
        (TierOf[i] = "embed" => \A j \in 1..Slots : in[j] # NoFile /\ TierOf[j] = "local" => in[j].name # in[i].name)}

Rank(in, i, cat) ==
    (CASE TierOf[i] = "local" -> 0 [] TierOf[i] = "skill" -> 1 [] TierOf[i] = "embed" -> 2)
    + (IF cat \in in[i].applies THEN 0 ELSE 10)

\* checkAmbiguousGovernance: of two names none may share the best rank for a category that
\* some file names.
Tops(in, cat) ==
    LET over == {i \in Checked(in) \cap Sources(in) : Covers(in[i], cat)}
    IN  {in[i].name : i \in {j \in over : \A k \in over : Rank(in, j, cat) <= Rank(in, k, cat)}}
NamedCategories(in) == UNION {in[i].applies \ {"*"} : i \in Checked(in) \cap Sources(in)}

\* parseWorkflows keeps the last sound file of a name, the skills before the client's own.
Sound(in) == {i \in Checked(in) : Accepted(in[i].wf)}

\* `workflow check` blocks on an unsound file, a tie, or a story nothing covers.
Clean(in, s) ==
    /\ Checked(in) = Sound(in)
    /\ \A cat \in NamedCategories(in) : Cardinality(Tops(in, cat)) <= 1
    /\ \/ s.block # NoBlock /\ Validates(s.block)
       \/ \E i \in Sound(in) : Covers(in[i], s.category)

\* paletteFor and rankPalette: the specific before the wildcards, each by tier.
Palette(in, cat) == {i \in Sources(in) : Covers(in[i], cat)}
Top(in, cat) ==
    CHOOSE i \in Palette(in, cat) : \A j \in Palette(in, cat) :
        \/ Rank(in, i, cat) < Rank(in, j, cat)
        \/ Rank(in, i, cat) = Rank(in, j, cat) /\ i <= j

\* ExplainTransition: the last edge out of the status that names the gate.
Explained(w, s, g) == {i \in W(w)!TransitionsFrom(s) : w.edges[i].gate = g}
ExplainedTo(w, s, g) == w.edges[CHOOSE i \in Explained(w, s, g) : \A j \in Explained(w, s, g) : j <= i].to

-----------------------------------------------------------------------------
(* The properties.                                                         *)

\* Two files of one name, one of which another hides.
SameName(in) == \E i, j \in 1..Slots : i # j /\ in[i] # NoFile /\ in[j] # NoFile /\ in[i].name = in[j].name

\* A check that comes back clean means what it says: a story it looked at, of the page of 200
\* it lists, is governed, and each category a file names has one default, the one a command then
\* resolves.  Left out are two files of one name: the check drops the binary's, the resolver
\* does not.
CheckSound ==
    Clean(file, story) =>
        /\ Governing(file, [story EXCEPT !.selector = NoName]) # Blank
        /\ ~ SameName(file) => \A cat \in NamedCategories(file) :
              Tops(file, cat) = {file[Default(file, cat)].name}

\* The first row of `workflow list` is the workflow a command resolves for the category.
ListAgrees ==
    \A cat \in Categories : Palette(file, cat) # {} => Top(file, cat) = Default(file, cat)

\* Where --explain misleads: several edges of the status name the gate; the edge is a fail
\* edge, or an unconditional one with a trigger or out of a reviewed state, or the review
\* names another gate first; or the reviewed state names no gate, so that any gate enacts, or
\* has two pass edges, of which the last is taken.
ExplainMisleads(w, s, g) ==
    \/ \E i, j \in Explained(w, s, g) : i # j
    \/ \E i \in Explained(w, s, g) :
          \/ w.edges[i].on = "fail"
          \/ w.edges[i].on = "" /\ (w.edges[i].trigger # "" \/ W(w)!IsV2(s))
          \/ W(w)!IsV2(s) /\ W(w)!ReviewerSkill(s) # g
    \/ W(w)!IsV2(s) /\ \/ W(w)!ReviewerSkill(s) = NoGate
                       \/ \E i, j \in W(w)!EdgesOn(s, "pass") : i # j

\* What --explain says an accept of a gate enacts is what it enacts.
ExplainAgrees ==
    (story.selector # NoName => Selected(file, story)) =>
        LET w == Governing(file, story)
        IN  \A g \in Gates : ~ ExplainMisleads(w, story.status, g) =>
                AcceptTo(w, story.status, g) =
                    IF Explained(w, story.status, g) = {} THEN {} ELSE {ExplainedTo(w, story.status, g)}

\* The workflow a story must be moved by: the one its selector names, if it covers the
\* category; without a selector the best source by specificity and tier, else the block.
Authority(in, s) ==
    IF s.selector # NoName THEN IF Selected(in, s) THEN in[First(Named(in, s.selector))].wf ELSE Blank
    ELSE IF Palette(in, s.category) # {} THEN in[Top(in, s.category)].wf
    ELSE IF s.block # NoBlock /\ Validates(s.block) THEN s.block ELSE Blank

\* The edges by which a command may move the story.
Allowed(w, from, kind, arg) ==
    {i \in W(w)!TransitionsFrom(from) :
        CASE kind = "gate" -> w.edges[i].on # "" \/ w.edges[i].gate = arg
          [] OTHER -> w.edges[i].gate = NoGate /\ w.edges[i].on = ""}

\* A story moves by an edge of the workflow that had authority over it when its command
\* looked.  Left out: set-status under a selector that resolves to nothing falls back to the
\* category, where a transition refuses.
MovesGoverned ==
    [][story'.status # story.status =>
        LET w == Authority(cmd.found, cmd.saw)
        IN  \/ \E i \in Allowed(w, cmd.saw.status, cmd.kind, cmd.arg) :
                  story'.status \in {w.edges[i].to, w.edges[i].exhausted}
            \/ cmd.kind = "set-status" /\ cmd.saw.selector # NoName /\ ~ Selected(cmd.found, cmd.saw)]_govVars

\* A command that stamps the block stamps the workflow it resolved, unless another file
\* before it has the same name; `design` writes a block that no file has.
BlockFollows ==
    [][story'.block # story.block /\ cmd.kind # "design" =>
        LET in == IF cmd.at = "read" THEN file ELSE cmd.found
        IN  Equivalent(story'.block, Authority(in, cmd.saw)) \/ SameName(in)]_govVars

\* Stamping the block leaves the rest of the body alone, unless somebody edited it after the
\* command read it: the body is written whole.
TextKept ==
    [][cmd' # cmd /\ cmd.at # "idle" => story'.text = story.text \/ cmd.saw.text # story.text]_govVars

\* What the commands do to a story, and what the reports tell of it.
GovernedMoves == MovesGoverned /\ BlockFollows /\ TextKept
ReportsAgree == CheckSound /\ ListAgrees /\ ExplainAgrees
=============================================================================
