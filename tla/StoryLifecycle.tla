--------------------------- MODULE StoryLifecycle ---------------------------
(***************************************************************************)
(* What the review machinery promises of one story: it moves only along    *)
(* the edges of its workflow, a reviewed state is left by its pass edge,   *)
(* by its fail edge, or, at the reject that spends the bound, by its       *)
(* escalation edge, and an escalation opens a fresh window of rejects.     *)
(***************************************************************************)
EXTENDS Workflow

VARIABLES status, rejects

lvars == <<status, rejects>>

LifecycleTypeOK ==
    /\ status \in States
    /\ rejects \in [States -> Nat]

LifecycleInit ==
    /\ status = InitialStatus
    /\ rejects = [s \in States |-> 0]

Bounded(s) == MaxIterations(s) > 0

Pass ==
    /\ IsV2(status)
    /\ status' = PassTo(status)
    /\ UNCHANGED rejects

Fail ==
    /\ IsV2(status)
    /\ Bounded(status) => rejects[status] + 1 < MaxIterations(status)
    /\ status' = FailEdge(status).to
    /\ rejects' = [rejects EXCEPT ![status] = @ + 1]

Exhaust ==
    /\ IsV2(status)
    /\ Bounded(status)
    /\ rejects[status] + 1 >= MaxIterations(status)
    /\ status' = FailEdge(status).exhausted
    /\ rejects' = [s \in States |-> 0]

\* A gate accepts an unconditional edge, or an ungated edge is taken.
Advance ==
    /\ \/ \E g \in Gates : /\ ~IsV2(status)
                           /\ HasGatedEdge(status, g)
                           /\ status' = GatedTo(status, g)
       \/ \E t \in States : UngatedAdvance(status, t) /\ status' = t
    /\ UNCHANGED rejects

LifecycleNext == Pass \/ Fail \/ Exhaust \/ Advance

LifecycleSpec == LifecycleInit /\ [][LifecycleNext]_lvars
=============================================================================
