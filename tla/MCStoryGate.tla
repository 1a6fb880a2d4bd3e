----------------------------- MODULE MCStoryGate -----------------------------
(***************************************************************************)
(* Instances of StoryGate for TLC.  LoopTransitions is one reviewed state  *)
(* with a fail loop of two; FullTransitions has every kind of edge the     *)
(* shipped workflows use: two gated edges out of one state, a checkpoint   *)
(* into a command's state, two fail loops that share a target, a recovery  *)
(* edge out of an operator state, an operator reopen, and a satellites     *)
(* state (archive) that declares no command.                               *)
(***************************************************************************)
EXTENDS StoryGate, TLC

T(from, to) == [from |-> from, to |-> to, on |-> "", trigger |-> "",
                gate |-> NoGate, max |-> 0, exhausted |-> NoState]

LoopStates == {"in_progress", "review", "done", "blocked"}
LoopGates == {"done-review", "recovery-review"}
LoopTransitions == <<
    [T("in_progress", "review") EXCEPT !.trigger = "checkpoint"],
    [T("review", "done") EXCEPT !.on = "pass", !.gate = "done-review"],
    [T("review", "in_progress") EXCEPT !.on = "fail", !.gate = "done-review",
                                       !.max = 2, !.exhausted = "blocked"],
    [T("blocked", "in_progress") EXCEPT !.gate = "recovery-review"] >>
LoopActors == [s \in LoopStates |->
    CASE s = "in_progress" -> "executor" [] s = "review" -> "reviewer"
      [] s = "blocked" -> "operator" [] OTHER -> ""]

\* The same with a state where a story is put aside: a satellites state with no command.
AsideStates == LoopStates \cup {"archive"}
AsideTransitions == Append(LoopTransitions, T("blocked", "archive"))
AsideActors == [s \in AsideStates |-> IF s = "archive" THEN "satellites" ELSE LoopActors[s]]

FullStates == {"backlog", "in_progress", "verify", "review", "done", "blocked", "archive"}
FullGates == {"entry-review", "close-review"}
FullTransitions == <<
    [T("backlog", "in_progress") EXCEPT !.gate = "entry-review"],
    [T("in_progress", "verify") EXCEPT !.trigger = "checkpoint"],
    [T("verify", "review") EXCEPT !.on = "pass"],
    [T("verify", "in_progress") EXCEPT !.on = "fail", !.max = 2, !.exhausted = "blocked"],
    [T("review", "done") EXCEPT !.on = "pass", !.gate = "close-review"],
    [T("review", "in_progress") EXCEPT !.on = "fail", !.gate = "close-review",
                                       !.max = 2, !.exhausted = "blocked"],
    [T("blocked", "in_progress") EXCEPT !.gate = "entry-review"],
    [T("in_progress", "archive") EXCEPT !.gate = "close-review"],
    [T("done", "backlog") EXCEPT !.trigger = "reopen"] >>
FullActors == [s \in FullStates |->
    CASE s = "in_progress" -> "executor" [] s \in {"verify", "archive"} -> "satellites"
      [] s = "review" -> "reviewer" [] s = "blocked" -> "operator" [] OTHER -> ""]

\* One run of each of two operators in one clone.
TwoOperators == [r \in Runs |-> r]
\* Two runs of one operator.
OneOperator == [r \in Runs |-> CHOOSE o \in Operators : TRUE]
OneStore == [r \in Runs |-> CHOOSE st \in Stores : TRUE]

\* Runs of one operator in one clone are interchangeable.
RunSymmetry == Permutations(Runs)
=============================================================================
