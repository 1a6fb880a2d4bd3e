---------------------------- MODULE WorkflowFile ----------------------------
(***************************************************************************)
(* What a workflow file must satisfy before it governs anything            *)
(* (internal/workflow, Parse, validate, ValidateLifecycle), and what a     *)
(* story does under a file that was accepted.  An author writes the states *)
(* and the edges line by line.  Once the file is accepted a story starts   *)
(* in its initial state and takes every edge the commands can enact, while *)
(* rejects are counted as the ledger counts them.  `copy` is the block a   *)
(* story pins: the accepted one with two lines swapped or one replaced.    *)
(***************************************************************************)
EXTENDS WorkflowRules

CONSTANTS
    Pool,        \* the edges the author may write
    MaxEdges     \* no file has more lines of edges than this

VARIABLES
    draft,    \* the file: its states in order and its edges in order
    copy,     \* the block a story pinned, or Blank
    status,   \* the story's status, NoState before the file is accepted
    rejects,  \* per state, the rejects since the last exhaustion
    last      \* how the story got to its status: "start", "edge" or "reopen"

fileVars == <<draft, copy, status, rejects, last>>

-----------------------------------------------------------------------------
Init ==
    /\ draft \in {[states |-> o, edges |-> <<>>] :
                    o \in {p \in [1..Cardinality(States) -> States] : Cardinality({p[i] : i \in DOMAIN p}) = Len(p)}}
    /\ copy = Blank
    /\ status = NoState
    /\ rejects = [s \in States |-> 0]
    /\ last = "start"

\* The author adds a line.
Write ==
    /\ status = NoState
    /\ Len(draft.edges) < MaxEdges
    /\ \E e \in Pool : draft' = [draft EXCEPT !.edges = Append(@, e)]
    /\ UNCHANGED <<copy, status, rejects, last>>

\* A story's block holds the accepted lines in another order, or one of them changed.
Pin ==
    /\ status = NoState /\ copy = Blank
    /\ Accepted(draft)
    /\ \E i, j \in Lines(draft) :
          \/ copy' = [draft EXCEPT !.edges[i] = draft.edges[j], !.edges[j] = draft.edges[i]]
          \/ \E e \in Pool : copy' = [draft EXCEPT !.edges[i] = e]
    /\ Validates(copy')
    /\ UNCHANGED <<draft, status, rejects, last>>

\* A story is created under the accepted file.
Start ==
    /\ status = NoState /\ copy = Blank
    /\ Accepted(draft)
    /\ status' = InitialState(draft)
    /\ UNCHANGED <<draft, copy, rejects, last>>

MoveTo(s, how) == status' = s /\ last' = how

\* A reviewer accepts.
Pass ==
    /\ W(draft)!IsV2(status)
    /\ MoveTo(W(draft)!PassTo(status), "edge")
    /\ UNCHANGED <<draft, copy, rejects>>

\* A reviewer rejects: the fail edge, or at the bound the exhaustion target, which starts
\* the counts afresh.
Fail ==
    /\ W(draft)!IsV2(status)
    /\ LET e == W(draft)!FailEdge(status)
           spent == e.max > 0 /\ rejects[status] + 1 >= e.max
       IN  /\ MoveTo(IF spent THEN e.exhausted ELSE e.to, "edge")
           /\ rejects' = IF spent THEN [s \in States |-> 0] ELSE [rejects EXCEPT ![status] = @ + 1]
    /\ UNCHANGED <<draft, copy>>

\* A gate on an unconditional edge accepts.
Gated ==
    /\ ~ W(draft)!IsV2(status)
    /\ \E g \in Gates : W(draft)!HasGatedEdge(status, g) /\ MoveTo(W(draft)!GatedTo(status, g), "edge")
    /\ UNCHANGED <<draft, copy, rejects>>

\* The executor's checkpoint.
Checkpoint ==
    /\ W(draft)!HasCheckpoint(status)
    /\ MoveTo(W(draft)!CheckpointTo(status), "edge")
    /\ UNCHANGED <<draft, copy, rejects>>

\* set-status crosses an edge that neither a gate nor an outcome guards.
SetStatus ==
    /\ \E i \in W(draft)!TransitionsFrom(status) :
          /\ W(draft)!UngatedAdvance(status, draft.edges[i].to)
          /\ draft.edges[i].gate = NoGate /\ draft.edges[i].on = ""
          /\ MoveTo(draft.edges[i].to, IF draft.edges[i].trigger = "reopen" THEN "reopen" ELSE "edge")
    /\ UNCHANGED <<draft, copy, rejects>>

Moves == status # NoState /\ (Pass \/ Fail \/ Gated \/ Checkpoint \/ SetStatus)

Next == Write \/ Pin \/ Start \/ Moves

Spec == Init /\ [][Next]_fileVars

-----------------------------------------------------------------------------
TypeOK ==
    /\ Len(draft.edges) <= MaxEdges /\ \A i \in Lines(draft) : draft.edges[i] \in Pool
    /\ \A i \in Lines(copy) : copy.edges[i] \in Pool
    /\ status \in States \cup {NoState}
    /\ rejects \in [States -> Nat]
    /\ last \in {"start", "edge", "reopen"}

\* An accepted file is what every command that reads it takes for granted: complete bounds,
\* both outcomes of a review, a state to start in that has a way out (validate and
\* ValidateLifecycle against the assumption the other modules make).
AcceptedGoverns ==
    Accepted(draft) =>
        /\ W(draft)!WellFormed
        /\ W(draft)!TransitionsFrom(InitialState(draft)) # {}

\* Edges whose order decides: two of one outcome from a state, or two gated ones of a gate.
OrderMatters(d) ==
    \E i, j \in Lines(d) :
        /\ i # j /\ d.edges[i].from = d.edges[j].from
        /\ \/ d.edges[i].on # "" /\ d.edges[j].on # ""
              /\ \/ d.edges[i].on = d.edges[j].on
                 \/ d.edges[i].gate # d.edges[j].gate /\ NoGate \notin {d.edges[i].gate, d.edges[j].gate}
           \/ d.edges[i].on = "" /\ d.edges[j].on = "" /\ d.edges[i].gate = d.edges[j].gate
              /\ d.edges[i].gate # NoGate

\* A copy that passes for the file it was pinned from enacts what the file does, whatever
\* order its lines have.  Left out: a state with two edges of one outcome, where the last
\* wins, with two gates on its outcomes or twice one gate, where the first wins (Equivalent,
\* edgesFromWorkflow, gatedEdgeFrom).
EquivalentGovernsAlike ==
    copy # Blank /\ Equivalent(copy, draft) /\ ~ OrderMatters(draft) =>
        \A s \in States :
            /\ W(copy)!IsV2(s) <=> W(draft)!IsV2(s)
            /\ W(draft)!IsV2(s) =>
                  /\ W(copy)!PassTo(s) = W(draft)!PassTo(s)
                  /\ W(copy)!FailEdge(s) = W(draft)!FailEdge(s)
                  /\ W(copy)!ReviewerSkill(s) = W(draft)!ReviewerSkill(s)
            /\ W(copy)!HasCheckpoint(s) <=> W(draft)!HasCheckpoint(s)
            /\ \A g \in Gates : W(draft)!HasGatedEdge(s, g) =>
                  W(copy)!HasGatedEdge(s, g) /\ W(copy)!GatedTo(s, g) = W(draft)!GatedTo(s, g)
            /\ W(copy)!IsTerminal(s) <=> W(draft)!IsTerminal(s)

\* Between two exhaustions no state rejects more often than its bound allows, and one whose
\* fail edge has no bound rejects once: validateLoops lets no such edge close a cycle.
RejectsBounded ==
    \A s \in States : status # NoState /\ W(draft)!IsV2(s) =>
        rejects[s] <= IF W(draft)!MaxIterations(s) = 0 THEN 1 ELSE W(draft)!MaxIterations(s) - 1

\* A story that moved is not taken for one that has not started, unless an operator reopened
\* it; left out are files in which every state is led into, whose first state stands in.
EntryNotReentered ==
    last = "edge" /\ status = InitialState(draft) => Declared(draft) \subseteq Entered(draft)

\* A story that is not finished can be moved by some command.  Left out: a state all of whose
\* edges name both a trigger and a gate, which validate accepts and no command enacts.
NeverStuck ==
    status # NoState /\ ~ W(draft)!IsTerminal(status) =>
        \/ W(draft)!IsV2(status)
        \/ \E g \in Gates : W(draft)!HasGatedEdge(status, g)
        \/ \E s \in States : W(draft)!UngatedAdvance(status, s)
        \/ \A i \in W(draft)!TransitionsFrom(status) :
              draft.edges[i].trigger # "" /\ draft.edges[i].gate # NoGate
=============================================================================
