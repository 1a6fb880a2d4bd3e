------------------------------ MODULE Workflow ------------------------------
(***************************************************************************)
(* One validated workflow (internal/workflow) and the edge queries the     *)
(* reviewer command makes on it (internal/verb/v2_edges.go and             *)
(* workflow_resolve.go).  The workflow is data: a set of states, an actor  *)
(* for each, and the declared transitions in the order of the file, which  *)
(* matters because a later edge of the same kind overrides an earlier one. *)
(* The query operators read the GOVERNING workflow: the resolution by      *)
(* selector or category happens once and is left out.                      *)
(***************************************************************************)
EXTENDS Naturals, Sequences, FiniteSets

CONSTANTS
    States,          \* names of the declared states
    Gates,           \* reviewer skills (gates)
    NoState, NoGate, \* the empty string, for a state and for a gate
    Transitions,     \* the declared edges, in file order
    ActorOf,         \* who acts in each state
    Commanded,       \* the satellites states that declare a command
    InitialStatus    \* the status a story is created with

Actors == {"", "executor", "reviewer", "satellites", "operator"}

Transition ==
    [from : States, to : States,
     on : {"", "pass", "fail"},
     trigger : {"", "checkpoint", "reopen"},
     gate : Gates \cup {NoGate},
     max : Nat,                          \* max_iterations, 0 = unbounded
     exhausted : States \cup {NoState}]  \* on_exhausted

Edge(i) == Transitions[i]
Edges == DOMAIN Transitions

\* What Parse and validate guarantee of every workflow the program loads (WorkflowFile
\* checks that they do).
WellFormed ==
    /\ NoState \notin States
    /\ NoGate \notin Gates
    /\ Transitions \in Seq(Transition)
    /\ ActorOf \in [States -> Actors]
    /\ Commanded \subseteq {s \in States : ActorOf[s] = "satellites"}
    /\ InitialStatus \in States
    /\ \A i \in Edges :
          /\ Edge(i).max > 0 <=> Edge(i).exhausted # NoState
          /\ Edge(i).max > 0 => Edge(i).on = "fail"
    \* a reviewed state declares both outcomes (validateLoops)
    /\ \A i \in Edges : Edge(i).on # "" =>
          \E p, f \in Edges : /\ Edge(p).from = Edge(i).from /\ Edge(p).on = "pass"
                              /\ Edge(f).from = Edge(i).from /\ Edge(f).on = "fail"

ASSUME WorkflowAssumption == WellFormed

-----------------------------------------------------------------------------
LastOf(S) == CHOOSE i \in S : \A j \in S : j <= i
FirstOf(S) == CHOOSE i \in S : \A j \in S : i <= j

TransitionsFrom(s) == {i \in Edges : Edge(i).from = s}
EdgesOn(s, outcome) == {i \in TransitionsFrom(s) : Edge(i).on = outcome}

IsV2(s) == EdgesOn(s, "pass") \cup EdgesOn(s, "fail") # {}

\* Mutant: the pass target is read from the escalation field.
PassToExhausted(s) == Edge(LastOf(EdgesOn(s, "pass"))).exhausted

\* The last declared pass and fail edge win; only used where IsV2(s).
PassTo(s) == Edge(LastOf(EdgesOn(s, "pass"))).to
FailEdge(s) == Edge(LastOf(EdgesOn(s, "fail")))

\* The bound of the fail loop, 0 when the state has none.
MaxIterations(s) == IF IsV2(s) THEN FailEdge(s).max ELSE 0

\* The gate a v2 state declares: the first one named on its pass/fail edges.
NamingEdges(s) ==
    {i \in EdgesOn(s, "pass") \cup EdgesOn(s, "fail") : Edge(i).gate # NoGate}
ReviewerSkill(s) ==
    IF NamingEdges(s) = {} THEN NoGate ELSE Edge(FirstOf(NamingEdges(s))).gate

\* Mutant: any gate enacts a reviewed state's edges.
AnyGateMatches(s, g) == g \in Gates

GateMatches(s, g) == ReviewerSkill(s) \in {NoGate, g}

\* The single ungated checkpoint edge of a state that is not reviewed.
CheckpointEdges(s) ==
    {i \in TransitionsFrom(s) : Edge(i).trigger = "checkpoint" /\ Edge(i).gate = NoGate}
HasCheckpoint(s) == ~IsV2(s) /\ Cardinality(CheckpointEdges(s)) = 1
CheckpointTo(s) == Edge(CHOOSE i \in CheckpointEdges(s) : TRUE).to

\* The unconditional edges a named gate guards; the first declared is taken.
GatedEdges(s, g) ==
    {i \in TransitionsFrom(s) :
        Edge(i).on = "" /\ Edge(i).trigger = "" /\ Edge(i).gate = g /\ g # NoGate}
HasGatedEdge(s, g) == GatedEdges(s, g) # {}
GatedTo(s, g) == Edge(FirstOf(GatedEdges(s, g))).to

\* set-status may cross an edge with neither a gate nor an outcome.
UngatedAdvance(s, t) ==
    \E i \in TransitionsFrom(s) : Edge(i).to = t /\ Edge(i).gate = NoGate /\ Edge(i).on = ""

\* A reopen edge is an operator escape and leaves a state terminal.
IsTerminal(s) == \A i \in TransitionsFrom(s) : Edge(i).trigger = "reopen"

\* Mutant: a finished story counts as editable.
EditableOnceStarted(s) == s \in States /\ s # InitialStatus

\* Code may be edited once the story has left its initial state, until it ends.
IsEditable(s) == s \in States /\ s # InitialStatus /\ ~IsTerminal(s)
=============================================================================
