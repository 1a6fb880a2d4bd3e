---------------------------- MODULE WorkflowRules ---------------------------
(***************************************************************************)
(* What Parse, validate and ValidateLifecycle ask of a workflow file and   *)
(* when two files define the same machine (internal/workflow).  A file is  *)
(* a record of its states and its edges, each in the order of the lines.   *)
(***************************************************************************)
EXTENDS Naturals, Sequences, FiniteSets

CONSTANTS States, Gates, NoState, NoGate   \* as in Workflow

Blank == [states |-> <<>>, edges |-> <<>>]

\* The edge queries of Workflow, on one file.
W(d) == INSTANCE Workflow WITH
            Transitions <- d.edges, ActorOf <- [s \in States |-> ""], Commanded <- {},
            InitialStatus <- IF d.states = <<>> THEN NoState ELSE d.states[1]

Declared(d) == {d.states[i] : i \in DOMAIN d.states}
Lines(d) == DOMAIN d.edges

-----------------------------------------------------------------------------
\* reaches: whether a path of declared edges leads from one state to another.
Beyond(d, S) == S \cup {d.edges[i].to : i \in {j \in Lines(d) : d.edges[j].from \in S}}
Reaches(d, from, to) ==
    LET after[n \in 0..Len(d.edges)] == IF n = 0 THEN {from} ELSE Beyond(d, after[n - 1])
    IN  to \in after[Len(d.edges)]

\* Pass and fail edges come in pairs from a state.
Paired(d) ==
    {d.edges[i].from : i \in {j \in Lines(d) : d.edges[j].on = "pass"}} =
    {d.edges[i].from : i \in {j \in Lines(d) : d.edges[j].on = "fail"}}

\* A fail edge that closes a cycle carries a bound.
LoopsBounded(d) ==
    \A i \in Lines(d) : d.edges[i].on = "fail" /\ d.edges[i].max = 0 =>
        ~ Reaches(d, d.edges[i].to, d.edges[i].from)

\* validate: declared states, complete bounds, no two edges alike but for what guards them.
Validates(d) ==
    /\ d.states # <<>> /\ Cardinality(Declared(d)) = Len(d.states)
    /\ d.edges # <<>>
    /\ \A i \in Lines(d) :
          /\ {d.edges[i].from, d.edges[i].to} \subseteq Declared(d)
          /\ d.edges[i].max > 0 => d.edges[i].on = "fail" /\ d.edges[i].exhausted # NoState
          /\ d.edges[i].exhausted # NoState => d.edges[i].max > 0 /\ d.edges[i].exhausted \in Declared(d)
    /\ \A i, j \in Lines(d) : i # j =>
          <<d.edges[i].from, d.edges[i].to, d.edges[i].on>> # <<d.edges[j].from, d.edges[j].to, d.edges[j].on>>
    /\ Paired(d)
    /\ LoopsBounded(d)

\* What an edge leads into, an exhaustion target included, but for the operator's reopen.
Entered(d) ==
    UNION {{d.edges[i].to, d.edges[i].exhausted} : i \in {j \in Lines(d) : d.edges[j].trigger # "reopen"}}

\* The first declared state nothing leads into, else the first.
InitialState(d) ==
    LET entries == {i \in DOMAIN d.states : d.states[i] \notin Entered(d)}
    IN  d.states[IF entries = {} THEN 1 ELSE CHOOSE i \in entries : \A j \in entries : i <= j]

TerminalStates(d) == {s \in Declared(d) : W(d)!IsTerminal(s)}

\* ValidateLifecycle; a state with no way to a terminal one is not looked for.
ValidateLifecycle(d) ==
    /\ TerminalStates(d) # {}
    /\ ~ W(d)!IsTerminal(InitialState(d))

Accepted(d) == Validates(d) /\ ValidateLifecycle(d)

SameBag(s, t) ==
    /\ Len(s) = Len(t)
    /\ \A e \in {s[i] : i \in DOMAIN s} :
          Cardinality({i \in DOMAIN s : s[i] = e}) = Cardinality({i \in DOMAIN t : t[i] = e})

\* Mutant: the gates of the edges are not compared.
EquivalentUngated(c, d) ==
    LET bare(f) == [i \in Lines(f) |-> [f.edges[i] EXCEPT !.gate = NoGate]]
    IN  SameBag(c.states, d.states) /\ SameBag(bare(c), bare(d))

\* Equivalent: the same states and the same edges, in any order.
Equivalent(c, d) == SameBag(c.states, d.states) /\ SameBag(c.edges, d.edges)
=============================================================================
