---------------------------- MODULE ProcessTrace ----------------------------
(***************************************************************************)
(* What the pages of a story make of its ledger: the trace of its declared *)
(* process (internal/processtrace/processtrace.go), the edge named beside  *)
(* each row, and the strip of lights (internal/server/review_lights.go).   *)
(* All are functions of the workflow, the ledger and the status; led is a  *)
(* ledger with StoryGate's rows, in the order of their making, and st the  *)
(* story's status.  A name that ends another is taken for another name.    *)
(***************************************************************************)
EXTENDS Workflow

Moves(led) == {i \in DOMAIN led : led[i].kind = "status_transition"}
Latest(S) == IF S = {} THEN 0 ELSE LastOf(S)

\* gateMatch: an absent name rules nothing out.
NameMatches(payload, declared) == NoGate \in {payload, declared} \/ payload = declared

-----------------------------------------------------------------------------
\* Reconcile.

FiredRows(led, e) == {i \in Moves(led) : led[i].from = Edge(e).from /\ led[i].to = Edge(e).to}
AcceptRows(led, e) ==
    {i \in DOMAIN led :
        /\ led[i].kind = "review_accept" /\ led[i].from = Edge(e).from
        /\ led[i].to \in {NoState, Edge(e).to} /\ NameMatches(led[i].gate, Edge(e).gate)}
RejectRows(led, e) ==
    {i \in DOMAIN led :
        /\ led[i].kind = "review_reject" /\ led[i].from = Edge(e).from
        /\ NameMatches(led[i].gate, Edge(e).gate)}

\* Mutant: a reject hides the move that followed it.
StatusByReject(led, st, e) ==
    IF RejectRows(led, e) # {} THEN "rejected"
    ELSE IF FiredRows(led, e) \cup AcceptRows(led, e) # {} THEN "accepted" ELSE "pending"

\* A move or an acceptance marks the edge for good; a reject marks one that has neither; an
\* edge out of the status that has none of them is the next.
EdgeStatus(led, st, e) ==
    LET took == FiredRows(led, e) \cup AcceptRows(led, e)
    IN IF took # {}
       THEN IF Latest(took) \in FiredRows(led, e) /\ Edge(e).gate = NoGate THEN "fired" ELSE "accepted"
       ELSE IF RejectRows(led, e) # {} THEN "rejected"
       ELSE IF Edge(e).from = st THEN "pending" ELSE "not_reached"

FiredAt(led, e) == Latest(FiredRows(led, e))

\* closeOut: a state with no edge out of it is terminal, and the last move into one ended the
\* story.
Closing == {Edge(i).to : i \in Edges} \ {Edge(i).from : i \in Edges}
EndedAt(led) == Latest({i \in Moves(led) : led[i].to \in Closing})

-----------------------------------------------------------------------------
\* AnnotateLedger.

\* What PlanV2Enactment wrote into the row's `on` field; a verdict's kind stands in for it.
OnOf(row) ==
    IF row.kind = "review_accept" THEN "pass"
    ELSE IF row.kind = "review_reject" THEN "fail"
    ELSE IF IsV2(row.from) /\ ~row.exhausted
         THEN IF row.to = PassTo(row.from) THEN "pass" ELSE "fail"
    ELSE ""

\* matchTransition: of several edges the one of the same outcome, else the one of the same
\* gate, else the first.
Matched(row) ==
    LET from == {i \in Edges : Edge(i).from = row.from /\ row.to \in {NoState, Edge(i).to}}
        same == {i \in from : OnOf(row) # "" /\ Edge(i).on = OnOf(row)}
        named == {i \in from : Edge(i).gate # NoGate /\ NameMatches(row.gate, Edge(i).gate)}
    IN IF row.from = NoState \/ from = {} THEN 0
       ELSE IF Cardinality(from) > 1 /\ same # {} THEN FirstOf(same)
       ELSE IF Cardinality(from) > 1 /\ named # {} THEN FirstOf(named)
       ELSE FirstOf(from)

\* matchExhaustion: an escalation has no edge of its own.
Escalated(row) ==
    LET spent == {i \in Edges : Edge(i).from = row.from /\ Edge(i).exhausted = row.to}
    IN IF row.kind # "status_transition" \/ NoState \in {row.from, row.to} \/ spent = {}
       THEN 0 ELSE FirstOf(spent)

Annotation(row) ==
    IF Matched(row) # 0 THEN [edge |-> Matched(row), exhausted |-> row.exhausted]
    ELSE [edge |-> Escalated(row), exhausted |-> row.exhausted \/ Escalated(row) # 0]

-----------------------------------------------------------------------------
\* The strip.

\* set-status names no state that it left, an ungated move of a run is its checkpoint.
IsCheckpointRow(row) ==
    row.kind = "status_transition" /\ row.from # NoState /\ row.gate = NoGate /\ ~row.exhausted

\* A move by a gate that is neither a fail loop nor an escalation passed its stage.
IsForward(row) ==
    /\ row.kind = "status_transition" /\ row.gate # NoGate /\ ~row.exhausted
    /\ OnOf(row) # "fail"

LightOf(row) ==
    [stage |-> row.from,
     state |-> IF row.kind = "review_reject" THEN "fail"
               ELSE IF IsCheckpointRow(row) THEN "fired" ELSE "pass"]
Shines(row) == row.kind = "review_reject" \/ IsCheckpointRow(row) \/ IsForward(row)

Strip(led) ==
    LET lit == SelectSeq(led, Shines) IN [i \in DOMAIN lit |-> LightOf(lit[i])]

\* Requests are staged in the clone's inbox and come late; asked are the stages of those that
\* have. One that no verdict answered is open.
Answers(led, stage) ==
    Cardinality({i \in DOMAIN led :
        led[i].from = stage /\ (led[i].kind = "review_reject" \/ IsForward(led[i]))})
Open(led, asked) ==
    {i \in DOMAIN asked :
        Cardinality({j \in DOMAIN asked : asked[j] = asked[i]}) > Answers(led, asked[i])}

TerminalLights == {"done", "cancelled"}
AtRest == {"backlog", "blocked"} \cup TerminalLights

\* The stage of the light that pulses while a session holds the story: the last open request's,
\* or the status; NoState where none does.
CurrentLight(led, st, asked) ==
    IF st \in TerminalLights THEN NoState
    ELSE IF Open(led, asked) # {} THEN asked[LastOf(Open(led, asked))]
    ELSE IF Strip(led) # <<>> /\ st \notin AtRest THEN st
    ELSE NoState

-----------------------------------------------------------------------------
\* An edge is shown as taken exactly where the story took it, whatever was refused before and
\* after; every reject counts on an edge; the row of every move of a run names the edge it took,
\* or the loop that it escalated from; and a story that came to its end by its ledger has an
\* end time.
TraceTellsPath(led, st) ==
    /\ \A e \in Edges : EdgeStatus(led, st, e) \in {"accepted", "fired"} <=> FiredRows(led, e) # {}
    /\ \A i \in DOMAIN led : led[i].kind = "review_reject" =>
          \E e \in Edges : i \in RejectRows(led, e)
    /\ \A i \in Moves(led) : led[i].from # NoState =>
          LET is == Annotation(led[i])
          IN /\ is.edge # 0 /\ Edge(is.edge).from = led[i].from
             /\ is.exhausted = led[i].exhausted
             /\ led[i].to = IF is.exhausted THEN Edge(is.edge).exhausted ELSE Edge(is.edge).to
    /\ st \in Closing => EndedAt(led) # 0

\* The edge that was fired last leads to where the story stands, unless it came there by an
\* operator's move or an escalation, which are no declared edge.
TraceEndsAtStatus(led, st) ==
    LET last == Latest(Moves(led))
        latest == Latest({FiredAt(led, e) : e \in Edges})
    IN last # 0 /\ led[last].from # NoState /\ ~led[last].exhausted =>
           \E e \in Edges : FiredAt(led, e) = latest /\ Edge(e).to = st

\* A story that is done has no stage whose last light is red, unless an operator moved it on
\* along an ungated edge after the reject, which lights nothing; a light that pulses is that of
\* the stage the story is in, however late the requests come, and a story that is worked on and
\* has passed a stage has one.
StripTellsStage(led, st, requests) ==
    /\ st = "done" =>
          \A i \in DOMAIN led : led[i].kind = "review_reject" =>
              \E j \in DOMAIN led :
                  /\ j > i
                  /\ \/ led[j].from = led[i].from /\ led[j].kind # "review_reject" /\ Shines(led[j])
                     \/ j \in Moves(led) /\ led[j].from = NoState
    /\ \A n \in 0..Len(requests) :
          LET current == CurrentLight(led, st, SubSeq(requests, 1, n))
          IN /\ current \in {st, NoState}
             /\ st \notin AtRest /\ Strip(led) # <<>> => current = st
=============================================================================
