---------------------------- MODULE MCEngagement ----------------------------
(***************************************************************************)
(* Engagement for TLC: one fail loop, an operator's state and an end.      *)
(***************************************************************************)
EXTENDS Engagement, TLC

T(from, to) == [from |-> from, to |-> to, on |-> "", trigger |-> "",
                gate |-> NoGate, max |-> 0, exhausted |-> NoState]

LoopStates == {"backlog", "in_progress", "done"}
LoopTransitions == <<T("backlog", "in_progress"), T("in_progress", "done")>>
LoopActors == [s \in LoopStates |-> IF s = "in_progress" THEN "executor" ELSE ""]

Alike == Permutations(Processes) \cup Permutations(Stories)
=============================================================================
