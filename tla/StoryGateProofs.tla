--------------------------- MODULE StoryGateProofs ---------------------------
(***************************************************************************)
(* Theorems about StoryGate for every workflow, every set of runs, clones  *)
(* and operators, and every combination of failures.                       *)
(***************************************************************************)
EXTENDS StoryGate, FiniteSetTheorems, NaturalsInduction, WellFoundedInduction, TLAPS

-----------------------------------------------------------------------------
(* The edge queries of Workflow answer with declared edges and states, for *)
(* every workflow that passes validation.                                  *)

\* A nonempty set of naturals has a least member.
LEMMA LeastExists ==
    ASSUME NEW S \in SUBSET Nat, S # {}
    PROVE  \E i \in S : \A j \in S : i <= j
<1>1. PICK m \in S : \A k \in S : ~(<<k, m>> \in OpToRel(<, Nat))
  BY NatLessThanWellFounded, WFMin
<1>2. \A k \in S : m <= k
  <2> SUFFICES ASSUME NEW k \in S PROVE m <= k
    OBVIOUS
  <2>1. <<k, m>> \in Nat \X Nat
    OBVIOUS
  <2>2. ~(k < m)
    BY <1>1, <2>1 DEF OpToRel
  <2> QED
    BY <2>2
<1> QED
  BY <1>2

\* FirstOf and LastOf pick a member: among several declared edges of a kind the
\* code always settles on one of them.
LEMMA FirstOfIn ==
    ASSUME NEW S \in SUBSET Nat, S # {}
    PROVE  FirstOf(S) \in S
  BY LeastExists DEF FirstOf

LEMMA LastOfIn ==
    ASSUME NEW n \in Nat, NEW S \in SUBSET (1..n), S # {}
    PROVE  LastOf(S) \in S
<1> DEFINE T == {n - i : i \in S}
<1>1. T \in SUBSET Nat
  <2> SUFFICES ASSUME NEW i \in S PROVE n - i \in Nat
    OBVIOUS
  <2> QED
    OBVIOUS
<1>2. T # {}
  OBVIOUS
<1>3. PICK m \in T : \A k \in T : m <= k
  <2> HIDE DEF T
  <2> QED
    BY <1>1, <1>2, LeastExists
<1>4. PICK i \in S : m = n - i
  OBVIOUS
<1>5. \A j \in S : j <= i
  <2> SUFFICES ASSUME NEW j \in S PROVE j <= i
    OBVIOUS
  <2>1. n - j \in T
    OBVIOUS
  <2>2. n - i <= n - j
    <3> HIDE DEF T
    <3> QED
      BY <1>3, <1>4, <2>1
  <2>3. i \in Nat /\ j \in Nat
    OBVIOUS
  <2> QED
    BY <2>2, <2>3
<1> QED
  BY <1>5 DEF LastOf

-----------------------------------------------------------------------------
\* Every declared edge is a well formed transition.
LEMMA EdgeTyped ==
    /\ \A i \in Edges : Edge(i) \in Transition
    /\ \E n \in Nat : Edges = 1..n
<1>1. Transitions \in Seq(Transition)
  BY WorkflowAssumption DEF WellFormed
<1>2. Len(Transitions) \in Nat /\ Edges = 1..Len(Transitions)
  BY <1>1 DEF Edges
<1>3. \A i \in Edges : Transitions[i] \in Transition
  BY <1>1, <1>2
<1> QED
  BY <1>2, <1>3 DEF Edge

\* A nonempty selection of edges keeps a member under FirstOf and LastOf.
LEMMA SelectedEdge ==
    ASSUME NEW S \in SUBSET Edges, S # {}
    PROVE  FirstOf(S) \in S /\ LastOf(S) \in S
<1>1. PICK n \in Nat : Edges = 1..n
  BY EdgeTyped
<1>2. S \in SUBSET Nat
  BY <1>1
<1> QED
  BY <1>1, <1>2, FirstOfIn, LastOfIn

\* A v2 state has a pass and a fail edge, and their targets are declared states;
\* a bounded fail edge also names a declared escalation state.
LEMMA V2Edges ==
    ASSUME NEW s \in States, IsV2(s)
    PROVE  /\ LastOf(EdgesOn(s, "pass")) \in EdgesOn(s, "pass")
           /\ LastOf(EdgesOn(s, "fail")) \in EdgesOn(s, "fail")
           /\ PassTo(s) \in States
           /\ FailEdge(s) \in Transition
           /\ MaxIterations(s) \in Nat
           /\ MaxIterations(s) > 0 => FailEdge(s).exhausted \in States
<1>1. PICK i \in Edges : Edge(i).from = s /\ Edge(i).on # ""
  BY DEF IsV2, EdgesOn, TransitionsFrom
<1>2. EdgesOn(s, "pass") # {} /\ EdgesOn(s, "fail") # {}
  BY <1>1, WorkflowAssumption DEF WellFormed, EdgesOn, TransitionsFrom
<1>3. EdgesOn(s, "pass") \in SUBSET Edges /\ EdgesOn(s, "fail") \in SUBSET Edges
  BY DEF EdgesOn, TransitionsFrom
<1>4. /\ LastOf(EdgesOn(s, "pass")) \in EdgesOn(s, "pass")
      /\ LastOf(EdgesOn(s, "fail")) \in EdgesOn(s, "fail")
  BY <1>2, <1>3, SelectedEdge
<1>5. PassTo(s) \in States
  BY <1>3, <1>4, EdgeTyped DEF PassTo, Transition
<1>6. FailEdge(s) \in Transition
  BY <1>3, <1>4, EdgeTyped DEF FailEdge
<1>7. MaxIterations(s) \in Nat
  BY <1>6 DEF MaxIterations, Transition
<1>8. MaxIterations(s) > 0 => FailEdge(s).exhausted \in States
  BY <1>3, <1>4, <1>6, WorkflowAssumption DEF WellFormed, MaxIterations, FailEdge, Transition
<1> QED
  BY <1>4, <1>5, <1>6, <1>7, <1>8

\* The target of a gated edge is declared, and the edge is one of that gate's.
LEMMA GatedEdge ==
    ASSUME NEW s \in States, NEW g, HasGatedEdge(s, g)
    PROVE  /\ FirstOf(GatedEdges(s, g)) \in GatedEdges(s, g)
           /\ GatedTo(s, g) \in States
<1>1. GatedEdges(s, g) \in SUBSET Edges /\ GatedEdges(s, g) # {}
  BY DEF HasGatedEdge, GatedEdges, TransitionsFrom
<1>2. FirstOf(GatedEdges(s, g)) \in GatedEdges(s, g)
  BY <1>1, SelectedEdge
<1> QED
  BY <1>1, <1>2, EdgeTyped DEF GatedTo, Transition

\* A checkpoint state has a checkpoint edge, and it leads to a declared state.
LEMMA CheckpointEdge ==
    ASSUME NEW s \in States, HasCheckpoint(s)
    PROVE  /\ ~IsV2(s)
           /\ CheckpointTo(s) \in States
           /\ \E i \in CheckpointEdges(s) : Edge(i).to = CheckpointTo(s)
<1>1. CheckpointEdges(s) # {}
  BY FS_EmptySet DEF HasCheckpoint
<1>2. CheckpointEdges(s) \subseteq Edges
  BY DEF CheckpointEdges, TransitionsFrom
<1>3. (CHOOSE i \in CheckpointEdges(s) : TRUE) \in CheckpointEdges(s)
  BY <1>1
<1>4. CheckpointTo(s) \in States
  BY <1>2, <1>3, EdgeTyped DEF CheckpointTo, Transition
<1> QED
  BY <1>3, <1>4 DEF CheckpointTo, HasCheckpoint

-----------------------------------------------------------------------------
(* The plans are rows the ledger can hold.                                 *)

LEMMA IdleTyped == Idle \in Run
<1>1. <<>> \in Seq(Row)
  OBVIOUS
<1>2. 0 \in 0..RunBudget
  BY StoryGateAssumption DEF RunBudget
<1> QED
  BY <1>1, <1>2 DEF Idle, Run

LEMMA PlanRowsTyped ==
    ASSUME NEW r \in Runs, run[r] \in Run, run[r].snap \in States,
           NEW decision \in {"accept", "reject"},
           run[r].bound > 0 => MaxIterations(run[r].snap) > 0
    PROVE  PlanRows(r, decision) \in Seq(Row)
<1> DEFINE s == run[r].snap
           g == run[r].gate
<1>1. g \in Gates \cup {NoGate} /\ run[r].bound \in Nat /\ run[r].prior \in Nat
  BY DEF Run
<1>2. CASE EnactV2(r)
  <2>1. IsV2(s)
    BY <1>2 DEF EnactV2
  <2>2. PassTo(s) \in States /\ FailEdge(s).to \in States
    BY <2>1, V2Edges DEF Transition
  <2>3. BoundSpent(run[r].bound, run[r].prior) => FailEdge(s).exhausted \in States
    BY <2>1, V2Edges DEF BoundSpent
  <2>4. /\ Accept(s, PassTo(s), g) \in Row
        /\ Transit(s, PassTo(s), g) \in Row
        /\ Reject(s, g) \in Row
        /\ Transit(s, FailEdge(s).to, g) \in Row
    BY <1>1, <2>2 DEF Row, AnyRow, Accept, Transit, Reject
  <2>5. BoundSpent(run[r].bound, run[r].prior) => Escalate(s, FailEdge(s).exhausted, g) \in Row
    BY <1>1, <2>3 DEF Row, AnyRow, Transit, Escalate
  <2>6. PlanV2(s, g, decision, run[r].bound, run[r].prior) \in Seq(Row)
    BY <2>4, <2>5 DEF PlanV2
  <2>7. ~EnactV1(r)
    BY <2>1 DEF EnactV1
  <2> QED
    BY <1>2, <2>6, <2>7 DEF PlanRows
<1>3. CASE ~EnactV2(r) /\ EnactV1(r)
  <2>1. HasGatedEdge(s, g)
    BY <1>3 DEF EnactV1
  <2>2. GatedTo(s, g) \in States
    BY <2>1, GatedEdge
  <2>3. Accept(s, GatedTo(s, g), g) \in Row /\ Transit(s, GatedTo(s, g), g) \in Row
        /\ Reject(s, g) \in Row
    BY <1>1, <2>2 DEF Row, AnyRow, Accept, Transit, Reject
  <2>4. PlanV1(s, g, decision) \in Seq(Row)
    BY <2>3 DEF PlanV1
  <2> QED
    BY <1>3, <2>4 DEF PlanRows
<1>4. CASE ~EnactV2(r) /\ ~EnactV1(r)
  BY <1>4 DEF PlanRows
<1> QED
  BY <1>2, <1>3, <1>4

-----------------------------------------------------------------------------
(* Type correctness.                                                       *)

\* What the phase of a run says of its fields: TypeOK alone is not inductive,
\* because a plan is typed only if its edges exist.
PhaseOK(r) ==
    /\ run[r].pc # "idle" => run[r].snap \in States
    /\ run[r].pc \in {"claimed", "judging"} => run[r].op # "checkpoint"
    /\ run[r].pc = "judging" /\ run[r].bound > 0 => MaxIterations(run[r].snap) > 0
    /\ run[r].pc = "enacting" /\ run[r].op = "checkpoint" => HasCheckpoint(run[r].snap)

TypeInv == TypeOK /\ \A r \in Runs : PhaseOK(r)

LEMMA TypeInit == Init => TypeInv
<1> SUFFICES ASSUME Init PROVE TypeInv
  OBVIOUS
<1>1. ledger \in Seq(Row) /\ Len(ledger) = 0 /\ unprojected = {}
  BY DEF Init
<1>2. NoClaim \in Claim
  BY StoryGateAssumption DEF NoClaim, Claim, ClaimLeaseTTL
<1>3. TypeOK
  BY <1>1, <1>2, IdleTyped, WorkflowAssumption DEF WellFormed, Init, TypeOK
<1>4. \A r \in Runs : PhaseOK(r)
  BY DEF Init, PhaseOK, Idle
<1> QED
  BY <1>3, <1>4 DEF TypeInv

\* A step that only replaces one run's record keeps the types if the new record
\* is well formed for its phase.
LEMMA RunReplaced ==
    ASSUME TypeInv, NEW r \in Runs, NEW new \in Run,
           run' = [run EXCEPT ![r] = new],
           new.pc # "idle" => new.snap \in States,
           new.pc \in {"claimed", "judging"} => new.op # "checkpoint",
           new.pc = "judging" /\ new.bound > 0 => MaxIterations(new.snap) > 0,
           new.pc = "enacting" /\ new.op = "checkpoint" => HasCheckpoint(new.snap)
    PROVE  /\ run' \in [Runs -> Run]
           /\ \A q \in Runs : PhaseOK(q)'
<1>1. run' \in [Runs -> Run]
  BY DEF TypeInv, TypeOK
<1>2. ASSUME NEW q \in Runs PROVE PhaseOK(q)'
  <2>1. CASE q = r
    BY <2>1 DEF PhaseOK, TypeInv, TypeOK
  <2>2. CASE q # r
    <3>1. run'[q] = run[q]
      BY <2>2 DEF TypeInv, TypeOK
    <3> QED
      BY <3>1 DEF PhaseOK, TypeInv
  <2> QED
    BY <2>1, <2>2
<1> QED
  BY <1>1, <1>2

LEMMA ReturnTyped ==
    ASSUME TypeInv, NEW r \in Runs, run' = [run EXCEPT ![r] = Idle]
    PROVE  run' \in [Runs -> Run] /\ \A q \in Runs : PhaseOK(q)'
<1>1. Idle.pc = "idle"
  BY DEF Idle
<1> QED
  BY <1>1, IdleTyped, RunReplaced

\* A step that leaves the ledger, the status and the stores alone is typed as soon
\* as the runs are.
LEMMA OnlyRuns ==
    ASSUME TypeInv, UNCHANGED <<status, ledger, unprojected, claim>>,
           activeGate' \in [Stores -> BOOLEAN],
           run' \in [Runs -> Run], \A q \in Runs : PhaseOK(q)'
    PROVE  TypeInv'
  BY DEF TypeInv, TypeOK

LEMMA StartTyped ==
    ASSUME TypeInv, NEW r \in Runs, Start(r)
    PROVE  TypeInv'
<1> USE DEF TypeInv, TypeOK
<1>1. ASSUME NEW op \in {"review", "checkpoint"}, NEW g \in Gates \cup {NoGate},
             ResolveStory(r, op, g)
      PROVE  TypeInv'
  <2> DEFINE new == [Idle EXCEPT !.pc = "resolved", !.op = op, !.snap = status, !.gate = g]
  <2>1. /\ new \in Run /\ new.pc = "resolved" /\ new.snap = status
        /\ run' = [run EXCEPT ![r] = new]
    BY <1>1, IdleTyped DEF ResolveStory, Run, Idle
  <2>2. run' \in [Runs -> Run] /\ \A q \in Runs : PhaseOK(q)'
    BY <2>1, RunReplaced
  <2> QED
    BY <1>1, <2>2, OnlyRuns DEF ResolveStory
<1>2. ASSUME NEW to \in States, ResolveForSetStatus(r, to)
      PROVE  TypeInv'
  <2> DEFINE row == Transit(NoState, to, NoGate)
             new == [Idle EXCEPT !.pc = "enacting", !.op = "set-status", !.snap = status,
                                 !.rows = <<row>>]
  <2>1. row \in Row
    BY DEF Row, AnyRow, Transit
  <2>2. <<row>> \in Seq(Row)
    BY <2>1
  <2>3. /\ new \in Run /\ new.pc = "enacting" /\ new.op = "set-status" /\ new.snap = status
        /\ run' = [run EXCEPT ![r] = new]
    BY <1>2, <2>2, IdleTyped DEF ResolveForSetStatus, Run, Idle
  <2>4. run' \in [Runs -> Run] /\ \A q \in Runs : PhaseOK(q)'
    BY <2>3, RunReplaced
  <2> QED
    BY <1>2, <2>4, OnlyRuns DEF ResolveForSetStatus
<1> QED
  BY <1>1, <1>2 DEF Start

\* The count of rejects, over the ledger or over a prefix of it, is a number.
LEMMA CountTyped ==
    ASSUME NEW led \in Seq(Row), NEW s
    PROVE  CountEdgeRejects(led, s) \in Nat
<1> DEFINE counted == {i \in DOMAIN led :
                         /\ led[i].kind = "review_reject"
                         /\ led[i].from = s
                         /\ \A j \in DOMAIN led : led[j].exhausted => j < i}
<1>1. DOMAIN led = 1..Len(led) /\ Len(led) \in Nat
  OBVIOUS
<1>2. counted \in SUBSET (1..Len(led))
  BY <1>1
<1> HIDE DEF counted
<1>4. IsFiniteSet(1..Len(led))
  BY <1>1, FS_Interval
<1>5. IsFiniteSet(counted)
  BY <1>2, <1>4, FS_Subset
<1>3. Cardinality(counted) \in Nat
  BY <1>5, FS_CardinalityType
<1> QED
  BY <1>3 DEF CountEdgeRejects, counted

LEMMA PrefixTyped ==
    ASSUME NEW led \in Seq(Row), NEW n \in 0..Len(led)
    PROVE  SubSeq(led, 1, n) \in Seq(Row)
  OBVIOUS

\* The claim, the bound check and the gate run.
LEMMA ReviewTyped ==
    ASSUME TypeInv, NEW r \in Runs,
           \/ ClaimWork(r) \/ ClaimRefused(r) \/ DispatchRefused(r) \/ Dispatch(r)
           \/ NothingToRun(r) \/ JudgeFails(r)
           \/ \E d \in {"accept", "reject"} : Judge(r, d)
    PROVE  TypeInv'
<1> USE DEF TypeInv, TypeOK
<1>0. run[r] \in Run
  OBVIOUS
<1>1. CASE ClaimWork(r)
  <2> DEFINE s == run[r].snap
             hop == Transit(s, CheckpointTo(s), NoGate)
             held == [run[r] EXCEPT !.pc = "claimed", !.left = RunBudget]
             hopping == [held EXCEPT !.pc = "enacting", !.rows = <<hop>>]
  <2>1. s \in States /\ run[r].pc = "resolved"
    BY <1>1 DEF ClaimWork, PhaseOK
  <2>2. RunBudget \in 0..RunBudget
    BY StoryGateAssumption DEF RunBudget
  <2>3. held \in Run /\ held.pc = "claimed" /\ held.snap = s /\ held.op = run[r].op
    BY <1>0, <2>2 DEF Run
  <2>4. HasCheckpoint(s) =>
          hopping \in Run /\ hopping.pc = "enacting" /\ hopping.snap = s
    <3> SUFFICES ASSUME HasCheckpoint(s)
                 PROVE  hopping \in Run /\ hopping.pc = "enacting" /\ hopping.snap = s
      OBVIOUS
    <3>1. CheckpointTo(s) \in States
      BY <2>1, CheckpointEdge
    <3>2. <<hop>> \in Seq(Row)
      BY <2>1, <3>1 DEF Row, AnyRow, Transit
    <3> QED
      BY <2>3, <3>2 DEF Run
  <2>5. \/ AfterClaim(r) = Idle
        \/ IsCheckpointState(s) /\ AfterClaim(r) = hopping
        \/ run[r].op # "checkpoint" /\ AfterClaim(r) = held
    BY DEF AfterClaim, Unsanctioned
  <2>6. run' = [run EXCEPT ![r] = AfterClaim(r)]
    BY <1>1 DEF ClaimWork
  <2>7. run' \in [Runs -> Run] /\ \A q \in Runs : PhaseOK(q)'
    <3>1. CASE AfterClaim(r) = Idle
      BY <2>6, <3>1, ReturnTyped
    <3>2. CASE IsCheckpointState(s) /\ AfterClaim(r) = hopping
      <4>1. HasCheckpoint(s)
        BY <3>2 DEF IsCheckpointState
      <4> HIDE DEF hopping
      <4> QED
        BY <2>1, <2>4, <2>6, <3>2, <4>1, RunReplaced
    <3>3. CASE run[r].op # "checkpoint" /\ AfterClaim(r) = held
      <4> HIDE DEF held
      <4> QED
        BY <2>1, <2>3, <2>6, <3>3, RunReplaced
    <3> QED
      BY <2>5, <3>1, <3>2, <3>3
  <2>8. claim' \in [Stores -> Claim]
    <3>1. [by |-> OperatorOf[r], left |-> ClaimLeaseTTL] \in Claim
      BY StoryGateAssumption DEF Claim, ClaimLeaseTTL
    <3>2. claim' = [claim EXCEPT ![StoreOf[r]] = [by |-> OperatorOf[r], left |-> ClaimLeaseTTL]]
      BY <1>1 DEF ClaimWork
    <3> QED
      BY <3>1, <3>2
  <2> QED
    BY <1>1, <2>7, <2>8 DEF ClaimWork
<1>2. CASE ClaimRefused(r)
  BY <1>2, ReturnTyped, OnlyRuns DEF ClaimRefused
<1>3. CASE DispatchRefused(r)
  BY <1>3, ReturnTyped, OnlyRuns DEF DispatchRefused
<1>4. CASE Dispatch(r)
  <2>1. PICK c \in BoundChecks(r) :
          run' = [run EXCEPT ![r] =
                   [@ EXCEPT !.pc = "judging", !.bound = c.bound, !.prior = c.prior]]
    BY <1>4 DEF Dispatch
  <2>2. run[r].pc = "claimed" /\ run[r].snap \in States /\ run[r].op # "checkpoint"
    BY <1>4 DEF Dispatch, PhaseOK
  <2>3. /\ c.bound \in Nat /\ c.prior \in Nat
        /\ c.bound > 0 => MaxIterations(run[r].snap) > 0
    <3>1. CASE LoopBounded(r)
      <4>1. IsV2(run[r].snap) /\ MaxIterations(run[r].snap) > 0
        BY <3>1 DEF LoopBounded, EnactV2
      <4>2. MaxIterations(run[r].snap) \in Nat
        BY <2>2, <4>1, V2Edges
      <4>3. c.prior \in ReadableCounts(run[r].snap)
        BY <3>1 DEF BoundChecks
      <4>4. ReadableCounts(run[r].snap) \subseteq Nat
        BY CountTyped, PrefixTyped DEF ReadableCounts
      <4> QED
        BY <3>1, <4>1, <4>2, <4>3, <4>4, StoryGateAssumption DEF BoundChecks
    <3>2. CASE ~LoopBounded(r)
      BY <3>2 DEF BoundChecks
    <3> QED
      BY <3>1, <3>2
  <2> DEFINE new == [run[r] EXCEPT !.pc = "judging", !.bound = c.bound, !.prior = c.prior]
  <2>4. /\ new \in Run /\ new.pc = "judging" /\ new.snap = run[r].snap
        /\ new.op = run[r].op /\ new.bound = c.bound
    BY <1>0, <2>3 DEF Run
  <2>5. run' = [run EXCEPT ![r] = new]
    BY <2>1
  <2>6. run' \in [Runs -> Run] /\ \A q \in Runs : PhaseOK(q)'
    <3> HIDE DEF new
    <3> QED
      BY <2>2, <2>3, <2>4, <2>5, RunReplaced
  <2> QED
    BY <1>4, <2>6, OnlyRuns DEF Dispatch
<1>5. CASE NothingToRun(r) \/ JudgeFails(r)
  BY <1>5, ReturnTyped, OnlyRuns DEF NothingToRun, JudgeFails, Return
<1>6. ASSUME NEW d \in {"accept", "reject"}, Judge(r, d)
      PROVE  TypeInv'
  <2> DEFINE bad == d = "accept" /\ ~IsV2(run[r].snap) /\ ~EnactV1(r)
             new == [run[r] EXCEPT !.pc = "enacting", !.rows = PlanRows(r, d), !.mismatch = bad]
  <2>1. /\ run[r].snap \in States /\ run[r].op # "checkpoint"
        /\ run[r].bound > 0 => MaxIterations(run[r].snap) > 0
    BY <1>6 DEF Judge, PhaseOK
  <2>2. PlanRows(r, d) \in Seq(Row)
    BY <1>0, <2>1, PlanRowsTyped
  <2>3. bad \in BOOLEAN
    OBVIOUS
  <2>4. new \in Run /\ new.pc = "enacting" /\ new.snap = run[r].snap /\ new.op = run[r].op
    <3> HIDE DEF bad
    <3> QED
      BY <1>0, <2>2, <2>3 DEF Run
  <2>5. run' = [run EXCEPT ![r] = new]
    BY <1>6 DEF Judge
  <2>6. run' \in [Runs -> Run] /\ \A q \in Runs : PhaseOK(q)'
    <3> HIDE DEF new
    <3> QED
      BY <2>1, <2>4, <2>5, RunReplaced
  <2> QED
    BY <1>6, <2>6, OnlyRuns DEF Judge
<1> QED
  BY <1>1, <1>2, <1>3, <1>4, <1>5, <1>6

\* The client's appends and what follows them.
LEMMA EnactTyped ==
    ASSUME TypeInv, NEW r \in Runs,
           \/ AppendLedger(r) \/ AppendFails(r) \/ AppendReturns(r)
           \/ SetStatusReturns(r) \/ CheckpointLands(r) \/ Observe(r) \/ Finish(r)
    PROVE  TypeInv'
<1> USE DEF TypeInv, TypeOK
<1>0. run[r] \in Run /\ PhaseOK(r)
  OBVIOUS
<1>a. run[r].rows # <<>> => Head(run[r].rows) \in Row /\ Tail(run[r].rows) \in Seq(Row)
  BY <1>0 DEF Run
<1>1. CASE AppendLedger(r)
  <2> DEFINE row == Head(run[r].rows)
             n == Len(ledger) + 1
             rest == [run[r] EXCEPT !.rows = Tail(@)]
             waiting == [run[r] EXCEPT !.rows = Tail(@), !.await = n]
  <2>1. run[r].rows # <<>> /\ row \in Row /\ Tail(run[r].rows) \in Seq(Row) /\ n \in Nat
    BY <1>1, <1>a DEF AppendLedger
  <2>2. rest \in Run /\ waiting \in Run
    BY <1>0, <2>1 DEF Run
  <2>3. /\ rest.pc = run[r].pc /\ rest.snap = run[r].snap /\ rest.op = run[r].op
        /\ rest.bound = run[r].bound
        /\ waiting.pc = run[r].pc /\ waiting.snap = run[r].snap /\ waiting.op = run[r].op
        /\ waiting.bound = run[r].bound
    BY <1>0 DEF Run
  <2>4. run' = [run EXCEPT ![r] = rest] \/ run' = [run EXCEPT ![r] = waiting]
    BY <1>1 DEF AppendLedger
  <2>5. run' \in [Runs -> Run] /\ \A q \in Runs : PhaseOK(q)'
    <3> HIDE DEF rest, waiting
    <3> QED
      BY <1>0, <2>2, <2>3, <2>4, RunReplaced DEF PhaseOK
  <2>6. ledger' = Append(ledger, row)
    BY <1>1 DEF AppendLedger
  <2>7. /\ ledger' \in Seq(Row) /\ Len(ledger') = n /\ ledger'[n] = row
        /\ \A i \in 1..Len(ledger) : ledger'[i] = ledger[i]
    BY <2>1, <2>6
  <2>8. \/ unprojected' = unprojected
        \/ row.kind = "status_transition" /\ unprojected' = unprojected \cup {n}
    BY <1>1 DEF AppendLedger
  <2>9. unprojected' \subseteq {i \in 1..Len(ledger') : ledger'[i].kind = "status_transition"}
    <3> SUFFICES ASSUME NEW i \in unprojected'
                 PROVE  i \in 1..Len(ledger') /\ ledger'[i].kind = "status_transition"
      OBVIOUS
    <3>1. CASE i \in unprojected
      <4>1. i \in 1..Len(ledger) /\ ledger[i].kind = "status_transition"
        BY <3>1
      <4>2. ledger'[i] = ledger[i] /\ i \in 1..Len(ledger')
        BY <2>1, <2>7, <4>1
      <4> QED
        BY <4>1, <4>2
    <3>2. CASE i = n /\ row.kind = "status_transition"
      BY <2>1, <2>7, <3>2
    <3> QED
      BY <2>8, <3>1, <3>2
  <2> QED
    BY <1>1, <2>5, <2>7, <2>9 DEF AppendLedger
<1>2. CASE AppendFails(r)
  <2> DEFINE rest == [run[r] EXCEPT !.rows = Tail(@)]
  <2>1. rest \in Run /\ rest.pc = run[r].pc /\ rest.snap = run[r].snap
        /\ rest.op = run[r].op /\ rest.bound = run[r].bound
    BY <1>0, <1>2, <1>a DEF Run, AppendFails
  <2>2. run' = [run EXCEPT ![r] = rest]
    BY <1>2 DEF AppendFails
  <2>3. run' \in [Runs -> Run] /\ \A q \in Runs : PhaseOK(q)'
    <3> HIDE DEF rest
    <3> QED
      BY <1>0, <2>1, <2>2, RunReplaced DEF PhaseOK
  <2> QED
    BY <1>2, <2>3, OnlyRuns DEF AppendFails
<1>3. CASE AppendReturns(r)
  <2> DEFINE done == [run[r] EXCEPT !.await = 0]
  <2>1. done \in Run /\ done.pc = run[r].pc /\ done.snap = run[r].snap
        /\ done.op = run[r].op /\ done.bound = run[r].bound
    BY <1>0 DEF Run
  <2>2. run' = [run EXCEPT ![r] = done]
    BY <1>3 DEF AppendReturns
  <2>3. run' \in [Runs -> Run] /\ \A q \in Runs : PhaseOK(q)'
    <3> HIDE DEF done
    <3> QED
      BY <1>0, <2>1, <2>2, RunReplaced DEF PhaseOK
  <2> QED
    BY <1>3, <2>3, OnlyRuns DEF AppendReturns
<1>4. CASE SetStatusReturns(r)
  BY <1>4, ReturnTyped, OnlyRuns DEF SetStatusReturns
<1>5. CASE CheckpointLands(r)
  <2> DEFINE to == CheckpointTo(run[r].snap)
             new == [run[r] EXCEPT !.pc = "claimed", !.op = "chained", !.snap = to]
  <2>1. run[r].snap \in States /\ HasCheckpoint(run[r].snap)
    BY <1>0, <1>5 DEF CheckpointLands, Enacted, Enacting, PhaseOK
  <2>2. to \in States
    BY <2>1, CheckpointEdge
  <2>3. new \in Run /\ new.pc = "claimed" /\ new.op = "chained" /\ new.snap = to
    BY <1>0, <2>2 DEF Run
  <2>4. run' = [run EXCEPT ![r] = new] \/ run' = [run EXCEPT ![r] = Idle]
    BY <1>5 DEF CheckpointLands
  <2>5. run' \in [Runs -> Run] /\ \A q \in Runs : PhaseOK(q)'
    <3> HIDE DEF new
    <3> QED
      BY <2>2, <2>3, <2>4, RunReplaced, ReturnTyped
  <2> QED
    BY <1>5, <2>5, OnlyRuns DEF CheckpointLands
<1>6. CASE Observe(r)
  <2>1. PICK obs \in {status} \cup {NoState} :
          \/ Return(r)
          \/ /\ run' = [run EXCEPT ![r] = [@ EXCEPT !.pc = "observed", !.obs = obs]]
             /\ UNCHANGED activeGate
    BY <1>6 DEF Observe
  <2> DEFINE new == [run[r] EXCEPT !.pc = "observed", !.obs = obs]
  <2>2. new \in Run /\ new.pc = "observed" /\ new.snap = run[r].snap
    BY <1>0 DEF Run
  <2>3. run[r].snap \in States
    BY <1>0, <1>6 DEF Observe, Enacted, Enacting, PhaseOK
  <2>4. run' = [run EXCEPT ![r] = new] \/ run' = [run EXCEPT ![r] = Idle]
    BY <2>1 DEF Return
  <2>5. run' \in [Runs -> Run] /\ \A q \in Runs : PhaseOK(q)'
    <3> HIDE DEF new
    <3> QED
      BY <2>2, <2>3, <2>4, RunReplaced, ReturnTyped
  <2>6. activeGate' \in [Stores -> BOOLEAN]
    BY <2>1 DEF Return
  <2> QED
    BY <1>6, <2>5, <2>6, OnlyRuns DEF Observe
<1>7. CASE Finish(r)
  <2>1. NoClaim \in Claim
    BY StoryGateAssumption DEF NoClaim, Claim, ClaimLeaseTTL
  <2>2. claim' \in [Stores -> Claim]
    BY <1>7, <2>1 DEF Finish
  <2>3. run' \in [Runs -> Run] /\ \A q \in Runs : PhaseOK(q)'
    BY <1>7, ReturnTyped DEF Finish, Return
  <2> QED
    BY <1>7, <2>2, <2>3 DEF Finish, Return
<1> QED
  BY <1>1, <1>2, <1>3, <1>4, <1>5, <1>6, <1>7

\* The server, the portal, kills and time.
LEMMA EnvironmentTyped ==
    ASSUME TypeInv,
           \/ Server \/ Tick \/ (\E s \in PortalTargets : PortalPatch(s))
           \/ (\E r \in Runs : Crash(r))
    PROVE  TypeInv'
<1> USE DEF TypeInv, TypeOK
<1>1. ASSUME NEW i \in unprojected, Project(i) \/ ProjectFails(i)
      PROVE  TypeInv'
  <2>1. ledger[i] \in Row /\ ledger[i].kind = "status_transition"
    OBVIOUS
  <2>2. status' \in States
    BY <1>1, <2>1 DEF Project, ProjectFails, Row
  <2>3. UNCHANGED <<ledger, claim, activeGate, run>> /\ unprojected' \subseteq unprojected
    BY <1>1 DEF Project, ProjectFails
  <2>4. \A q \in Runs : PhaseOK(q)'
    BY <2>3 DEF PhaseOK
  <2> QED
    BY <2>2, <2>3, <2>4
<1>2. CASE Tick
  <2>1. ASSUME NEW st \in Stores
        PROVE  [claim[st] EXCEPT !.left = IF @ > 0 THEN @ - 1 ELSE 0] \in Claim
    <3>1. claim[st] \in Claim /\ ClaimLeaseTTL \in Nat
      BY StoryGateAssumption DEF ClaimLeaseTTL
    <3>2. (IF claim[st].left > 0 THEN claim[st].left - 1 ELSE 0) \in 0..ClaimLeaseTTL
      BY <3>1 DEF Claim
    <3> QED
      BY <3>1, <3>2 DEF Claim
  <2>2. claim' \in [Stores -> Claim]
    BY <1>2, <2>1 DEF Tick
  <2>3. ASSUME NEW r \in Runs
        PROVE  /\ run'[r] \in Run
               /\ run'[r].pc = run[r].pc /\ run'[r].op = run[r].op
               /\ run'[r].snap = run[r].snap /\ run'[r].bound = run[r].bound
    <3>1. run[r] \in Run
      OBVIOUS
    <3>2. CASE Holds(r)
      <4>1. run'[r] = [run[r] EXCEPT !.left = @ - 1] /\ run[r].left > 0
        BY <1>2, <3>2 DEF Tick
      <4>2. run[r].left - 1 \in 0..RunBudget
        <5>1. run[r].left \in 0..RunBudget
          BY <3>1 DEF Run
        <5>2. RunBudget \in Nat
          BY StoryGateAssumption DEF RunBudget
        <5> QED
          BY <4>1, <5>1, <5>2
      <4> QED
        BY <3>1, <4>1, <4>2 DEF Run
    <3>3. CASE ~Holds(r)
      BY <1>2, <3>1, <3>3 DEF Tick
    <3> QED
      BY <3>2, <3>3
  <2>4. run' \in [Runs -> Run]
    <3>1. run' = [r \in Runs |-> run'[r]]
      BY <1>2 DEF Tick
    <3> QED
      BY <2>3, <3>1
  <2>5. \A q \in Runs : PhaseOK(q)'
    BY <2>3 DEF PhaseOK
  <2> QED
    BY <1>2, <2>2, <2>4, <2>5 DEF Tick
<1>3. ASSUME NEW s \in PortalTargets, PortalPatch(s)
      PROVE  TypeInv'
  BY <1>3, StoryGateAssumption DEF PortalPatch, PhaseOK
<1>4. ASSUME NEW r \in Runs, Crash(r)
      PROVE  TypeInv'
  BY <1>4, ReturnTyped, OnlyRuns DEF Crash
<1> QED
  BY <1>1, <1>2, <1>3, <1>4 DEF Server

LEMMA TypeNext ==
    ASSUME TypeInv, [Next]_vars
    PROVE  TypeInv'
<1>1. ASSUME NEW r \in Runs, Step(r)
      PROVE  TypeInv'
  BY <1>1, ReviewTyped, EnactTyped DEF Step, LedgerAppend
<1>2. CASE UNCHANGED vars
  BY <1>2 DEF TypeInv, TypeOK, PhaseOK, vars
<1> QED
  BY <1>1, <1>2, StartTyped, EnvironmentTyped DEF Next

\* Every state of every instance is well typed: whatever the interleaving, a row
\* that reaches the ledger names declared states and the status column only ever
\* holds a declared one.
THEOREM TypeCorrect == Spec => []TypeOK
<1>1. Init => TypeInv
  BY TypeInit
<1>2. TypeInv /\ [Next]_vars => TypeInv'
  BY TypeNext
<1>3. TypeInv => TypeOK
  BY DEF TypeInv
<1> QED
  BY <1>1, <1>2, <1>3, PTL DEF Spec

-----------------------------------------------------------------------------
(* A status is ledgered before it is shown.                                *)

\* The ledger only grows, and by appending.
LEMMA LedgerGrows ==
    ASSUME TypeInv, [Next]_vars
    PROVE  /\ \A i \in DOMAIN ledger : i \in DOMAIN ledger' /\ ledger'[i] = ledger[i]
           /\ status' # status => \/ status' \in PortalTargets
                                  \/ \E i \in unprojected : status' = ledger[i].to
<1> USE DEF TypeInv, TypeOK
<1>1. ASSUME NEW r \in Runs, AppendLedger(r)
      PROVE  /\ \A i \in DOMAIN ledger : i \in DOMAIN ledger' /\ ledger'[i] = ledger[i]
             /\ status' = status
  <2>1. ledger' = Append(ledger, Head(run[r].rows)) /\ status' = status
    BY <1>1 DEF AppendLedger
  <2>2. /\ DOMAIN ledger = 1..Len(ledger) /\ Len(ledger) \in Nat
        /\ DOMAIN ledger' = 1..(Len(ledger) + 1)
    BY <2>1
  <2>3. ASSUME NEW i \in DOMAIN ledger
        PROVE  i \in DOMAIN ledger' /\ ledger'[i] = ledger[i]
    BY <2>1, <2>2
  <2> QED
    BY <2>1, <2>3
<1>2. ASSUME NEW r \in Runs, Start(r) \/ Step(r) \/ Crash(r), ~AppendLedger(r)
      PROVE  UNCHANGED <<ledger, status>>
  BY <1>2 DEF Start, Step, LedgerAppend, Crash, ResolveStory, ResolveForSetStatus, ClaimWork, ClaimRefused,
     DispatchRefused, Dispatch, NothingToRun, Judge, JudgeFails, AppendFails, AppendReturns,
     SetStatusReturns, CheckpointLands, Observe, Finish
<1>3. ASSUME NEW i \in unprojected, Project(i) \/ ProjectFails(i)
      PROVE  ledger' = ledger /\ (status' = status \/ status' = ledger[i].to)
  BY <1>3 DEF Project, ProjectFails
<1>4. CASE Tick \/ UNCHANGED vars
  BY <1>4 DEF Tick, vars
<1>5. ASSUME NEW s \in PortalTargets, PortalPatch(s)
      PROVE  ledger' = ledger /\ status' \in PortalTargets
  BY <1>5 DEF PortalPatch
<1> QED
  BY <1>1, <1>2, <1>3, <1>4, <1>5 DEF Next, Server

\* A status no portal user may patch in is written to the ledger before the story
\* shows it (invokeLedgerAppend), through every interleaving, lost append, failed or
\* late projection and kill.
THEOREM StatusIsLedgered == Spec => []StatusLedgered
<1>1. Init => TypeInv /\ StatusLedgered
  BY TypeInit DEF Init, StatusLedgered
<1>2. TypeInv /\ StatusLedgered /\ [Next]_vars => TypeInv' /\ StatusLedgered'
  <2> SUFFICES ASSUME TypeInv, StatusLedgered, [Next]_vars
               PROVE  TypeInv' /\ StatusLedgered'
    OBVIOUS
  <2>1. TypeInv'
    BY TypeNext
  <2>2. \A i \in DOMAIN ledger : i \in DOMAIN ledger' /\ ledger'[i] = ledger[i]
    BY LedgerGrows
  <2>3. CASE status' = status
    BY <2>1, <2>2, <2>3 DEF StatusLedgered
  <2>4. CASE status' \in PortalTargets
    BY <2>1, <2>4 DEF StatusLedgered
  <2>5. ASSUME NEW i \in unprojected, status' = ledger[i].to
        PROVE  StatusLedgered'
    <3>1. i \in DOMAIN ledger /\ ledger[i].kind = "status_transition"
      BY DEF TypeInv, TypeOK
    <3> QED
      BY <2>2, <2>5, <3>1 DEF StatusLedgered
  <2> QED
    BY <2>1, <2>3, <2>4, <2>5, LedgerGrows
<1> QED
  BY <1>1, <1>2, PTL DEF Spec

-----------------------------------------------------------------------------
(* Operators exclude each other in a clone.                                *)

OneRunPerOperator ==
    \A r1, r2 \in Runs :
        StoreOf[r1] = StoreOf[r2] /\ OperatorOf[r1] = OperatorOf[r2] => r1 = r2

\* The lease a run took is still its operator's and outlasts what the run may
\* still take.  Exclusion alone is not inductive: it says nothing of the claim row.
LeaseCovers ==
    \A r \in Runs : Holds(r) =>
        /\ claim[StoreOf[r]].by = OperatorOf[r]
        /\ claim[StoreOf[r]].left > run[r].left

LEMMA HoldsAfter ==
    ASSUME TypeInv, [Next]_vars, NEW q \in Runs,
           Holds(q)', ~Holds(q)
    PROVE  ClaimWork(q)
<1> USE DEF TypeInv, TypeOK
<1>1. ASSUME NEW r \in Runs, Start(r) \/ Step(r) \/ Crash(r), r # q
      PROVE  run'[q] = run[q]
  BY <1>1 DEF Start, Step, LedgerAppend, Crash, ResolveStory, ResolveForSetStatus, ClaimWork, ClaimRefused,
     DispatchRefused, Dispatch, NothingToRun, Judge, JudgeFails, AppendLedger, AppendFails,
     AppendReturns, SetStatusReturns, CheckpointLands, Observe, Finish, Return
<1>2. CASE Start(q)
  <2>1. \/ run'[q].pc = "resolved"
        \/ run'[q].pc = "enacting" /\ run'[q].op = "set-status"
    <3>1. ASSUME NEW op, NEW g, ResolveStory(q, op, g) PROVE run'[q].pc = "resolved"
      BY <3>1 DEF ResolveStory, Idle
    <3>2. ASSUME NEW s, ResolveForSetStatus(q, s)
          PROVE  run'[q].pc = "enacting" /\ run'[q].op = "set-status"
      BY <3>2 DEF ResolveForSetStatus, Idle
    <3> QED
      BY <1>2, <3>1, <3>2 DEF Start
  <2> QED
    BY <2>1 DEF Holds
<1>3. CASE Step(q) /\ ~ClaimWork(q)
  <2>1. CASE \/ ClaimRefused(q) \/ DispatchRefused(q) \/ NothingToRun(q)
             \/ JudgeFails(q) \/ SetStatusReturns(q) \/ Finish(q)
    <3>1. run'[q] = Idle
      BY <2>1 DEF ClaimRefused, DispatchRefused, NothingToRun, JudgeFails,
         SetStatusReturns, Finish, Return
    <3> QED
      BY <3>1 DEF Holds, Idle
  <2>2. CASE AppendLedger(q) \/ AppendFails(q) \/ AppendReturns(q)
    <3>1. run'[q].pc = run[q].pc /\ run'[q].op = run[q].op
      BY <2>2 DEF AppendLedger, AppendFails, AppendReturns, Run
    <3> QED
      BY <3>1 DEF Holds
  <2>3. CASE \/ Dispatch(q) \/ (\E d \in {"accept", "reject"} : Judge(q, d))
    BY <2>3 DEF Dispatch, Judge, Holds
  <2>4. CASE CheckpointLands(q) \/ Observe(q)
    BY <2>4 DEF CheckpointLands, Observe, Enacted, Enacting, Holds
  <2> QED
    BY <1>3, <2>1, <2>2, <2>3, <2>4 DEF Step, LedgerAppend
<1>4. CASE Crash(q)
  BY <1>4 DEF Crash, Holds, Idle
<1>5. CASE Tick
  BY <1>5 DEF Tick, Holds, Run
<1>6. CASE Server \/ (\E s \in PortalTargets : PortalPatch(s)) \/ UNCHANGED vars
  BY <1>6 DEF Server, Project, ProjectFails, PortalPatch, vars, Holds
<1> QED
  BY <1>1, <1>2, <1>3, <1>4, <1>5, <1>6 DEF Next, Holds

\* The steps of other runs leave a run alone, and while a run holds its claim only
\* time shortens what it may still take.
LEMMA HolderKept ==
    ASSUME TypeInv, NEW r \in Runs, Start(r) \/ Step(r) \/ Crash(r),
           NEW q \in Runs, Holds(q), Holds(q)'
    PROVE  run'[q].left = run[q].left
<1> USE DEF TypeInv, TypeOK
<1>1. CASE r # q
  BY <1>1 DEF Start, Step, LedgerAppend, Crash, ResolveStory, ResolveForSetStatus, ClaimWork, ClaimRefused,
     DispatchRefused, Dispatch, NothingToRun, Judge, JudgeFails, AppendLedger, AppendFails,
     AppendReturns, SetStatusReturns, CheckpointLands, Observe, Finish, Return
<1>2. CASE r = q
  <2>1. run[q].pc # "idle" /\ run[q].pc # "resolved"
    BY DEF Holds
  <2>2. ~Start(q) /\ ~ClaimWork(q) /\ ~ClaimRefused(q)
    BY <2>1 DEF Start, ResolveStory, ResolveForSetStatus, ClaimWork, ClaimRefused
  <2>3. run'[q] # Idle
    BY DEF Holds, Idle
  <2>4. CASE AppendLedger(q) \/ AppendFails(q) \/ AppendReturns(q)
    BY <2>4 DEF AppendLedger, AppendFails, AppendReturns, Run
  <2>5. CASE Dispatch(q)
    BY <2>5 DEF Dispatch, Run
  <2>6. CASE \E d \in {"accept", "reject"} : Judge(q, d)
    BY <2>6 DEF Judge, Run
  <2>7. CASE CheckpointLands(q) \/ Observe(q)
    <3>1. CASE CheckpointLands(q)
      BY <2>3, <3>1 DEF CheckpointLands, Run
    <3>2. CASE Observe(q)
      BY ZenonT(60), <2>3, <3>2 DEF Observe, Return, Run
    <3> QED
      BY <2>7, <3>1, <3>2
  <2>8. CASE \/ DispatchRefused(q) \/ NothingToRun(q) \/ JudgeFails(q)
             \/ SetStatusReturns(q) \/ Finish(q) \/ Crash(q)
    BY <2>3, <2>8 DEF DispatchRefused, NothingToRun, JudgeFails, SetStatusReturns, Finish,
       Crash, Return
  <2> QED
    BY <1>2, <2>2, <2>4, <2>5, <2>6, <2>7, <2>8 DEF Step, LedgerAppend
<1> QED
  BY <1>1, <1>2

LEMMA LeaseNext ==
    ASSUME OneRunPerOperator, TypeInv, LeaseCovers, [Next]_vars
    PROVE  LeaseCovers'
<1> SUFFICES ASSUME NEW q \in Runs, Holds(q)'
             PROVE  /\ claim'[StoreOf[q]].by = OperatorOf[q]
                    /\ claim'[StoreOf[q]].left > run'[q].left
  BY DEF LeaseCovers
<1> USE DEF TypeInv, TypeOK
<1>0. StoreOf[q] \in Stores
  BY StoryGateAssumption
<1>1. CASE ~Holds(q)
  <2>1. ClaimWork(q)
    BY <1>1, HoldsAfter
  <2>2. claim'[StoreOf[q]] = [by |-> OperatorOf[q], left |-> ClaimLeaseTTL]
    BY <1>0, <2>1 DEF ClaimWork
  <2>3. run'[q] = AfterClaim(q)
    BY <2>1 DEF ClaimWork
  <2>4. run'[q] # Idle
    BY DEF Holds, Idle
  <2>5. run'[q].left = RunBudget
    BY <2>3, <2>4 DEF AfterClaim, Run
  <2> QED
    BY <2>2, <2>5, StoryGateAssumption DEF ClaimLeaseTTL, RunBudget
<1>2. CASE Holds(q)
  <2> DEFINE st == StoreOf[q]
  <2>1. /\ claim[st].by = OperatorOf[q] /\ claim[st].left > run[q].left
        /\ claim[st].left \in Nat /\ run[q].left \in Nat
    BY <1>0, <1>2, StoryGateAssumption DEF LeaseCovers, Claim, Run, ClaimLeaseTTL, RunBudget
  <2>2. CASE Tick
    <3>1. claim'[st] = [claim[st] EXCEPT !.left = IF @ > 0 THEN @ - 1 ELSE 0]
      BY <1>0, <2>2 DEF Tick
    <3>2. run'[q] = [run[q] EXCEPT !.left = @ - 1] /\ run[q].left > 0
      BY <1>2, <2>2 DEF Tick
    <3>3. claim'[st].by = claim[st].by /\ claim'[st].left = claim[st].left - 1
      BY <1>0, <2>1, <3>1 DEF Claim
    <3>4. run'[q].left = run[q].left - 1
      BY <3>2 DEF Run
    <3> QED
      BY <2>1, <3>3, <3>4
  <2>3. ASSUME NEW r \in Runs, Start(r) \/ Step(r) \/ Crash(r)
        PROVE  claim'[st].by = OperatorOf[q] /\ claim'[st].left > run'[q].left
    <3>1. run'[q].left = run[q].left
      BY <1>2, <2>3, HolderKept
    <3>2. CASE ClaimWork(r) /\ StoreOf[r] = st
      <4>1. run[r].pc = "resolved" /\ Claimable(st, OperatorOf[r])
        BY <3>2 DEF ClaimWork
      <4>2. r # q
        BY <1>2, <4>1 DEF Holds
      <4>3. claim[st].by # OperatorOf[r]
        BY <2>1, <3>2, <4>2 DEF OneRunPerOperator
      <4>4. claim[st].by # NoOperator
        BY <2>1, StoryGateAssumption
      <4> QED
        BY <2>1, <4>1, <4>3, <4>4 DEF Claimable
    <3>3. CASE Finish(r) /\ StoreOf[r] = st
      <4>1. Holds(r)
        BY <3>3 DEF Finish, Holds
      <4>2. claim[st].by = OperatorOf[r]
        BY <3>3, <4>1 DEF LeaseCovers
      <4>3. r = q
        BY <2>1, <3>3, <4>2 DEF OneRunPerOperator
      <4>4. run'[q] = Idle
        BY <3>3, <4>3 DEF Finish, Return
      <4> QED
        BY <4>4 DEF Holds, Idle
    <3>4. CASE (ClaimWork(r) \/ Finish(r)) /\ StoreOf[r] # st
      <4>1. claim'[st] = claim[st]
        BY <1>0, <3>4 DEF ClaimWork, Finish
      <4> QED
        BY <2>1, <3>1, <4>1
    <3>5. CASE ~ClaimWork(r) /\ ~Finish(r)
      <4>1. claim' = claim
        BY <2>3, <3>5 DEF Start, Step, LedgerAppend, Crash, ResolveStory, ResolveForSetStatus, ClaimRefused,
           DispatchRefused, Dispatch, NothingToRun, Judge, JudgeFails, AppendLedger,
           AppendFails, AppendReturns, SetStatusReturns, CheckpointLands, Observe
      <4> QED
        BY <2>1, <3>1, <4>1
    <3> QED
      BY <3>2, <3>3, <3>4, <3>5
  <2>4. CASE Server \/ (\E s \in PortalTargets : PortalPatch(s)) \/ UNCHANGED vars
    <3>1. claim' = claim /\ run' = run
      BY <2>4 DEF Server, Project, ProjectFails, PortalPatch, vars
    <3> QED
      BY <2>1, <3>1
  <2> QED
    BY <2>2, <2>3, <2>4 DEF Next
<1> QED
  BY <1>1, <1>2

\* When each operator runs at most one review at a time in a clone, ClaimWork keeps
\* operators apart: no lease runs out under a run, and no run's terminal CleanupWork
\* removes the claim of another operator's run, even when runs are killed.
THEOREM ClaimsExclude == OneRunPerOperator => (Spec => []ClaimExclusion)
<1> SUFFICES ASSUME OneRunPerOperator PROVE Spec => []ClaimExclusion
  OBVIOUS
<1>1. Init => TypeInv /\ LeaseCovers
  BY TypeInit DEF Init, LeaseCovers, Holds, Idle
<1>2. TypeInv /\ LeaseCovers /\ [Next]_vars => TypeInv' /\ LeaseCovers'
  BY TypeNext, LeaseNext
<1>3. LeaseCovers => ClaimExclusion
  BY DEF LeaseCovers, ClaimExclusion
<1> QED
  BY <1>1, <1>2, <1>3, PTL DEF Spec

-----------------------------------------------------------------------------
(* The marker of the stop hook.                                            *)

\* What runs does the claimed and the judging phase hold: the marker is set and the
\* phase is left only by a review or by a checkpoint that chained into a command.
ClaimedToReview ==
    \A r \in Runs :
        run[r].pc = "resolved" \/ run[r].pc = "claimed" =>
            run[r].op \in {"review", "checkpoint", "chained"}

LEMMA ObserveOutcome ==
    ASSUME TypeInv, NEW q \in Runs, Observe(q)
    PROVE  Return(q) \/ (run'[q].pc = "observed" /\ run'[q].op = run[q].op)
<1>1. SUFFICES ASSUME ~Return(q)
               PROVE  run'[q].pc = "observed" /\ run'[q].op = run[q].op
  OBVIOUS
<1>2. PICK obs : run' = [run EXCEPT ![q] = [@ EXCEPT !.pc = "observed", !.obs = obs]]
  BY <1>1, Zenon DEF Observe
<1> QED
  BY <1>2 DEF Run, TypeInv, TypeOK

LEMMA ClaimedToReviewNext ==
    ASSUME TypeInv, ClaimedToReview, [Next]_vars
    PROVE  ClaimedToReview'
<1> SUFFICES ASSUME NEW q \in Runs,
                    run'[q].pc = "resolved" \/ run'[q].pc = "claimed"
             PROVE  run'[q].op \in {"review", "checkpoint", "chained"}
  BY DEF ClaimedToReview
<1> USE DEF TypeInv, TypeOK
<1>1. ASSUME NEW r \in Runs, Start(r) \/ Step(r) \/ Crash(r), r # q
      PROVE  run'[q] = run[q]
  BY <1>1 DEF Start, Step, LedgerAppend, Crash, ResolveStory, ResolveForSetStatus, ClaimWork, ClaimRefused,
     DispatchRefused, Dispatch, NothingToRun, Judge, JudgeFails, AppendLedger, AppendFails,
     AppendReturns, SetStatusReturns, CheckpointLands, Observe, Finish, Return
<1>2. CASE run'[q].pc = run[q].pc /\ run'[q].op = run[q].op
  BY <1>2 DEF ClaimedToReview
<1>3. CASE Start(q)
  <2>1. ASSUME NEW op \in {"review", "checkpoint"}, NEW g, ResolveStory(q, op, g)
        PROVE  run'[q].op = op
    BY <2>1 DEF ResolveStory, Idle
  <2>2. ASSUME NEW s, ResolveForSetStatus(q, s) PROVE run'[q].pc = "enacting"
    BY <2>2 DEF ResolveForSetStatus, Idle
  <2>3. CASE \E g \in Gates : ResolveStory(q, "review", g)
    BY <2>1, <2>3
  <2>4. CASE ResolveStory(q, "checkpoint", NoGate)
    BY <2>1, <2>4
  <2>5. CASE \E s \in States : ResolveForSetStatus(q, s)
    BY <2>2, <2>5
  <2> QED
    BY <1>3, <2>3, <2>4, <2>5 DEF Start
<1>4. CASE ClaimWork(q)
  <2>1. run[q].pc = "resolved" /\ run'[q] = AfterClaim(q)
    BY <1>4 DEF ClaimWork
  <2>2. run'[q].op = run[q].op
    BY <2>1 DEF AfterClaim, Idle, Run
  <2> QED
    BY <2>1, <2>2 DEF ClaimedToReview
<1>5. CASE AppendLedger(q) \/ AppendFails(q) \/ AppendReturns(q)
  <2>1. run'[q].pc = run[q].pc /\ run'[q].op = run[q].op
    BY <1>5 DEF AppendLedger, AppendFails, AppendReturns, Run
  <2> QED
    BY <1>2, <2>1
<1>6. CASE Dispatch(q) \/ \E d \in {"accept", "reject"} : Judge(q, d)
  <2>1. Dispatch(q) => run'[q].pc = "judging"
    BY DEF Dispatch, Run
  <2>2. ASSUME NEW d \in {"accept", "reject"}, Judge(q, d) PROVE run'[q].pc = "enacting"
    BY <2>2 DEF Judge, Run
  <2> QED
    BY <1>6, <2>1, <2>2
<1>7. CASE \/ ClaimRefused(q) \/ DispatchRefused(q) \/ NothingToRun(q) \/ JudgeFails(q)
           \/ SetStatusReturns(q) \/ Finish(q) \/ Crash(q)
  <2>1. run'[q] = Idle
    BY <1>7 DEF ClaimRefused, DispatchRefused, NothingToRun, JudgeFails, SetStatusReturns,
       Finish, Crash, Return
  <2> QED
    BY <2>1 DEF Idle
<1>8. CASE CheckpointLands(q)
  BY <1>8 DEF CheckpointLands, Idle
<1>9. CASE Observe(q)
  BY <1>9, ObserveOutcome DEF Return, Idle
<1>10. CASE Tick
  <2>1. run'[q].pc = run[q].pc /\ run'[q].op = run[q].op
    BY <1>10 DEF Tick, Run
  <2> QED
    BY <1>2, <2>1
<1>11. CASE Server \/ (\E s \in PortalTargets : PortalPatch(s)) \/ UNCHANGED vars
  <2>1. run' = run
    BY <1>11 DEF Server, Project, ProjectFails, PortalPatch, vars
  <2> QED
    BY <1>2, <2>1
<1>12. CASE Step(q)
  BY <1>4, <1>5, <1>6, <1>7, <1>8, <1>9, <1>12 DEF Step, LedgerAppend
<1>13. ASSUME NEW r \in Runs, Start(r) \/ Step(r) \/ Crash(r)
       PROVE  run'[q].op \in {"review", "checkpoint", "chained"}
  <2>1. CASE r # q
    BY <1>1, <1>2, <1>13, <2>1
  <2>2. CASE r = q
    BY <1>3, <1>7, <1>12, <1>13, <2>2
  <2> QED
    BY <2>1, <2>2
<1> QED
  BY <1>10, <1>11, <1>13 DEF Next

\* A run that has dispatched its gate stays dispatched until it returns.
LEMMA DispatchedUntilReturn ==
    ASSUME TypeInv, "crash" \notin Faults, [Next]_vars, NEW q \in Runs, Dispatched(q)
    PROVE  Dispatched(q)' \/ activeGate'[StoreOf[q]] = FALSE
<1> USE DEF TypeInv, TypeOK
<1>0. StoreOf[q] \in Stores
  BY StoryGateAssumption
<1>1. CASE run'[q].pc = run[q].pc /\ run'[q].op = run[q].op
  BY <1>1 DEF Dispatched
<1>2. ASSUME NEW r \in Runs, Start(r) \/ Step(r) \/ Crash(r), r # q
      PROVE  run'[q] = run[q]
  BY <1>2 DEF Start, Step, LedgerAppend, Crash, ResolveStory, ResolveForSetStatus, ClaimWork, ClaimRefused,
     DispatchRefused, Dispatch, NothingToRun, Judge, JudgeFails, AppendLedger, AppendFails,
     AppendReturns, SetStatusReturns, CheckpointLands, Observe, Finish, Return
<1>3. ~Start(q) /\ ~Crash(q)
  BY DEF Dispatched, Start, ResolveStory, ResolveForSetStatus, Crash
<1>4. CASE Step(q)
  <2>1. /\ ~ClaimWork(q) /\ ~ClaimRefused(q) /\ ~DispatchRefused(q) /\ ~Dispatch(q)
        /\ ~NothingToRun(q) /\ ~SetStatusReturns(q) /\ ~CheckpointLands(q)
    BY DEF Dispatched, ClaimWork, ClaimRefused, DispatchRefused, Dispatch, NothingToRun,
       SetStatusReturns, CheckpointLands
  <2>2. CASE AppendLedger(q) \/ AppendFails(q) \/ AppendReturns(q)
    <3>1. run'[q].pc = run[q].pc /\ run'[q].op = run[q].op
      BY <2>2 DEF AppendLedger, AppendFails, AppendReturns, Run
    <3> QED
      BY <1>1, <3>1
  <2>3. CASE \E d \in {"accept", "reject"} : Judge(q, d)
    <3>1. run'[q].pc = "enacting" /\ run'[q].op = run[q].op
      BY <2>3 DEF Judge, Run
    <3> QED
      BY <3>1 DEF Dispatched
  <2>4. CASE JudgeFails(q) \/ Finish(q)
    BY <1>0, <2>4 DEF JudgeFails, Finish, Return
  <2>5. CASE Observe(q)
    <3>1. CASE Return(q)
      BY <1>0, <3>1 DEF Return
    <3>2. CASE ~Return(q)
      <4>1. run'[q].pc = "observed" /\ run'[q].op = run[q].op
        BY <2>5, <3>2, ObserveOutcome
      <4> QED
        BY <4>1 DEF Dispatched
    <3> QED
      BY <3>1, <3>2
  <2> QED
    BY <1>4, <2>1, <2>2, <2>3, <2>4, <2>5 DEF Step, LedgerAppend
<1>5. CASE Tick
  <2>1. run'[q].pc = run[q].pc /\ run'[q].op = run[q].op
    BY <1>5 DEF Tick, Run
  <2> QED
    BY <1>1, <2>1
<1>6. CASE Server \/ (\E s \in PortalTargets : PortalPatch(s)) \/ UNCHANGED vars
  <2>1. run' = run
    BY <1>6 DEF Server, Project, ProjectFails, PortalPatch, vars
  <2> QED
    BY <1>1, <2>1
<1> QED
  BY <1>1, <1>2, <1>3, <1>4, <1>5, <1>6 DEF Next

\* A marker that is new was set by a dispatch in its clone.
LEMMA MarkerSetByDispatch ==
    ASSUME TypeInv, [Next]_vars, NEW st \in Stores, activeGate'[st], ~activeGate[st]
    PROVE  \E r \in Runs : StoreOf[r] = st /\ Dispatch(r)
<1> USE DEF TypeInv, TypeOK
<1>1. CASE activeGate' = activeGate
  BY <1>1
<1>2. ASSUME NEW r \in Runs, Start(r) \/ Step(r) \/ Crash(r), ~Dispatch(r)
      PROVE  activeGate' = activeGate \/ activeGate' = [activeGate EXCEPT ![StoreOf[r]] = FALSE]
  BY <1>2 DEF Start, Step, LedgerAppend, Crash, ResolveStory, ResolveForSetStatus, ClaimWork, ClaimRefused,
     DispatchRefused, NothingToRun, Judge, JudgeFails, AppendLedger, AppendFails,
     AppendReturns, SetStatusReturns, CheckpointLands, Observe, Finish, Return
<1>3. ASSUME NEW r \in Runs, Start(r) \/ Step(r) \/ Crash(r)
      PROVE  StoreOf[r] = st /\ Dispatch(r)
  <2>1. Dispatch(r)
    BY <1>2, <1>3
  <2>2. activeGate' = [activeGate EXCEPT ![StoreOf[r]] = TRUE]
    BY <2>1 DEF Dispatch
  <2> QED
    BY <2>1, <2>2
<1>4. CASE Tick \/ Server \/ (\E s \in PortalTargets : PortalPatch(s)) \/ UNCHANGED vars
  BY <1>1, <1>4 DEF Tick, Server, Project, ProjectFails, PortalPatch, vars
<1> QED
  BY <1>3, <1>4 DEF Next

LEMMA MarkerNext ==
    ASSUME "crash" \notin Faults, TypeInv, ClaimedToReview, MarkerMeansRunning, [Next]_vars
    PROVE  MarkerMeansRunning'
<1> SUFFICES ASSUME NEW st \in Stores, activeGate'[st]
             PROVE  \E r \in Runs : StoreOf[r] = st /\ Dispatched(r)'
  BY DEF MarkerMeansRunning
<1>1. CASE activeGate[st]
  <2>1. PICK r \in Runs : StoreOf[r] = st /\ Dispatched(r)
    BY <1>1 DEF MarkerMeansRunning
  <2> QED
    BY <2>1, DispatchedUntilReturn
<1>2. CASE ~activeGate[st]
  <2>1. PICK r \in Runs : StoreOf[r] = st /\ Dispatch(r)
    BY <1>2, MarkerSetByDispatch
  <2>2. run[r].op \in {"review", "chained"}
    BY <2>1 DEF Dispatch, ClaimedToReview, TypeInv, PhaseOK
  <2>3. run'[r].pc = "judging" /\ run'[r].op = run[r].op
    BY <2>1 DEF Dispatch, TypeInv, TypeOK, Run
  <2> QED
    BY <2>1, <2>2, <2>3 DEF Dispatched
<1> QED
  BY <1>1, <1>2

\* Where no run is killed, the marker the stop hook reads stands only while a run of
\* that clone is between its dispatch and its return, however the runs overlap and
\* whichever of them clears it.
THEOREM MarkersMeanRunning == "crash" \notin Faults => (Spec => []MarkerMeansRunning)
<1> SUFFICES ASSUME "crash" \notin Faults PROVE Spec => []MarkerMeansRunning
  OBVIOUS
<1>1. Init => TypeInv /\ ClaimedToReview /\ MarkerMeansRunning
  BY TypeInit DEF Init, ClaimedToReview, MarkerMeansRunning, Idle
<1>2. /\ TypeInv /\ ClaimedToReview /\ MarkerMeansRunning /\ [Next]_vars
      => TypeInv' /\ ClaimedToReview' /\ MarkerMeansRunning'
  BY TypeNext, ClaimedToReviewNext, MarkerNext
<1> QED
  BY <1>1, <1>2, PTL DEF Spec

-----------------------------------------------------------------------------
(* A transition row crosses a declared edge, by its own gate.              *)

\* What GateMonopoly says of one row.
Lawful(row) ==
    row.kind = "status_transition" /\ row.from # NoState =>
      \/ /\ IsV2(row.from)
         /\ ReviewerSkill(row.from) \in {NoGate, row.gate}
         /\ row.to \in {Edge(j).to : j \in EdgesOn(row.from, "pass")}
                  \cup {Edge(j).to : j \in EdgesOn(row.from, "fail")}
                  \cup {Edge(j).exhausted : j \in EdgesOn(row.from, "fail")}
      \/ /\ ~IsV2(row.from)
         /\ \E j \in TransitionsFrom(row.from) :
               /\ Edge(j).to = row.to
               /\ Edge(j).gate = row.gate
               /\ row.gate = NoGate => Edge(j).trigger = "checkpoint"

\* The rows a run has planned are lawful before they are appended: the ledger alone
\* says nothing of the next row.
PlansLawful == \A r \in Runs : \A i \in DOMAIN run[r].rows : Lawful(run[r].rows[i])

LEMMA PlanRowsLawful ==
    ASSUME NEW r \in Runs, run[r] \in Run, run[r].snap \in States,
           NEW decision \in {"accept", "reject"}
    PROVE  \A i \in DOMAIN PlanRows(r, decision) : Lawful(PlanRows(r, decision)[i])
<1> DEFINE s == run[r].snap
           g == run[r].gate
<1>1. Lawful(Reject(s, g))
  BY DEF Lawful, Reject, Transit
<1>2. \A to : Lawful(Accept(s, to, g))
  BY DEF Lawful, Accept, Transit
<1>3. CASE EnactV2(r)
  <2>1. IsV2(s) /\ ReviewerSkill(s) \in {NoGate, g}
    BY <1>3 DEF EnactV2, GateMatches
  <2>2. /\ LastOf(EdgesOn(s, "pass")) \in EdgesOn(s, "pass")
        /\ LastOf(EdgesOn(s, "fail")) \in EdgesOn(s, "fail")
    BY <2>1, V2Edges
  <2>3. /\ PassTo(s) \in {Edge(j).to : j \in EdgesOn(s, "pass")}
        /\ FailEdge(s).to \in {Edge(j).to : j \in EdgesOn(s, "fail")}
        /\ FailEdge(s).exhausted \in {Edge(j).exhausted : j \in EdgesOn(s, "fail")}
    BY <2>2 DEF PassTo, FailEdge
  <2>4. /\ Lawful(Transit(s, PassTo(s), g))
        /\ Lawful(Transit(s, FailEdge(s).to, g))
        /\ Lawful(Escalate(s, FailEdge(s).exhausted, g))
    BY <2>1, <2>3 DEF Lawful, Transit, Escalate
  <2>5. PlanRows(r, decision) = PlanV2(s, g, decision, run[r].bound, run[r].prior)
    <3>1. ~EnactV1(r)
      BY <2>1 DEF EnactV1
    <3> QED
      BY <1>3, <3>1 DEF PlanRows
  <2> QED
    BY <1>1, <1>2, <2>4, <2>5 DEF PlanV2
<1>4. CASE ~EnactV2(r) /\ EnactV1(r)
  <2>1. ~IsV2(s) /\ HasGatedEdge(s, g)
    BY <1>4 DEF EnactV1
  <2>2. FirstOf(GatedEdges(s, g)) \in GatedEdges(s, g)
    BY <2>1, GatedEdge
  <2>3. \E j \in TransitionsFrom(s) : Edge(j).to = GatedTo(s, g) /\ Edge(j).gate = g /\ g # NoGate
    BY <2>2 DEF GatedTo, GatedEdges
  <2>4. Lawful(Transit(s, GatedTo(s, g), g))
    BY <2>1, <2>3 DEF Lawful, Transit
  <2>5. PlanRows(r, decision) = PlanV1(s, g, decision)
    BY <1>4 DEF PlanRows
  <2> QED
    BY <1>1, <1>2, <2>4, <2>5 DEF PlanV1
<1>5. CASE ~EnactV2(r) /\ ~EnactV1(r)
  <2>1. PlanRows(r, decision) = <<>>
    BY <1>5 DEF PlanRows
  <2> QED
    BY <2>1
<1> QED
  BY <1>3, <1>4, <1>5

LEMMA CheckpointLawful ==
    ASSUME NEW s \in States, HasCheckpoint(s)
    PROVE  Lawful(Transit(s, CheckpointTo(s), NoGate))
<1>1. PICK j \in CheckpointEdges(s) : Edge(j).to = CheckpointTo(s)
  BY CheckpointEdge
<1>2. /\ ~IsV2(s) /\ j \in TransitionsFrom(s)
      /\ Edge(j).trigger = "checkpoint" /\ Edge(j).gate = NoGate
  BY CheckpointEdge DEF CheckpointEdges
<1> QED
  BY <1>1, <1>2 DEF Lawful, Transit

LEMMA TailLawful ==
    ASSUME NEW rows \in Seq(Row), rows # <<>>, \A i \in DOMAIN rows : Lawful(rows[i])
    PROVE  Lawful(Head(rows)) /\ \A i \in DOMAIN Tail(rows) : Lawful(Tail(rows)[i])
<1>1. 1 \in DOMAIN rows /\ Head(rows) = rows[1]
  OBVIOUS
<1>2. ASSUME NEW i \in DOMAIN Tail(rows)
      PROVE  Lawful(Tail(rows)[i])
  <2>1. i + 1 \in DOMAIN rows /\ Tail(rows)[i] = rows[i + 1]
    OBVIOUS
  <2> QED
    BY <2>1
<1> QED
  BY <1>1, <1>2

\* A step leaves a run's plan alone, empties it, drops its first row, or makes one: of one
\* row that needs no verdict, or of what the gate decided.
LEMMA RowsStep ==
    ASSUME TypeInv, [Next]_vars, NEW q \in Runs
    PROVE  LET x == run[q]
               y == run'[q]
           IN  \/ /\ y.rows = x.rows
                  /\ y.pc = "judging" =>
                       x.pc = "judging" /\ y.op = x.op /\ y.snap = x.snap /\ y.gate = x.gate
               \/ y.rows = <<>> /\ y.pc # "judging"
               \/ x.rows # <<>> /\ y.rows = Tail(x.rows) /\ x.pc = "enacting" /\ y.pc = "enacting"
               \/ /\ Dispatch(q)
                  /\ y.rows = x.rows /\ y.op = x.op /\ y.snap = x.snap /\ y.gate = x.gate
               \/ \E d \in {"accept", "reject"} :
                    Judge(q, d) /\ y.rows = PlanRows(q, d) /\ y.pc = "enacting"
               \/ y.pc = "enacting" /\ \E to \in States : y.rows = <<Transit(NoState, to, NoGate)>>
               \/ /\ y.pc = "enacting" /\ x.snap \in States /\ HasCheckpoint(x.snap)
                  /\ y.rows = <<Transit(x.snap, CheckpointTo(x.snap), NoGate)>>
<1> USE DEF TypeInv, TypeOK
<1> DEFINE x == run[q]
           y == run'[q]
           Kept == /\ y.rows = x.rows
                   /\ y.pc = "judging" =>
                        x.pc = "judging" /\ y.op = x.op /\ y.snap = x.snap /\ y.gate = x.gate
           Emptied == y.rows = <<>> /\ y.pc # "judging"
           SetStatus == y.pc = "enacting" /\ \E to \in States : y.rows = <<Transit(NoState, to, NoGate)>>
<1>0. x \in Run
  OBVIOUS
<1>1. Idle.rows = <<>> /\ Idle.pc # "judging"
  BY DEF Idle
<1>2. ASSUME NEW r \in Runs, Start(r) \/ Step(r) \/ Crash(r), r # q
      PROVE  Kept
  <2>1. run'[q] = run[q]
    BY <1>2 DEF Start, Step, LedgerAppend, Crash, ResolveStory, ResolveForSetStatus, ClaimWork, ClaimRefused,
       DispatchRefused, Dispatch, NothingToRun, Judge, JudgeFails, AppendLedger, AppendFails,
       AppendReturns, SetStatusReturns, CheckpointLands, Observe, Finish, Return
  <2> QED
    BY <2>1
<1>3. ASSUME NEW op \in {"review", "checkpoint"}, NEW g \in Gates \cup {NoGate}, ResolveStory(q, op, g)
      PROVE  Emptied
  BY <1>3 DEF ResolveStory, Idle
<1>4. ASSUME NEW to \in States, ResolveForSetStatus(q, to)
      PROVE  SetStatus
  BY <1>4 DEF ResolveForSetStatus, Idle
<1>5. CASE Start(q)
  BY <1>3, <1>4, <1>5 DEF Start
<1>6. CASE ClaimWork(q)
  <2>1. y = AfterClaim(q) /\ x.snap \in States
    BY <1>6 DEF ClaimWork, PhaseOK
  <2>2. CASE Unsanctioned(x.op, x.snap, x.gate)
    <3>1. y = Idle
      BY <2>1, <2>2 DEF AfterClaim, Unsanctioned
    <3> QED
      BY <1>1, <3>1
  <2>3. CASE ~Unsanctioned(x.op, x.snap, x.gate) /\ x.op = "checkpoint" /\ IsCheckpointState(x.snap)
    <3>1. /\ y.rows = <<Transit(x.snap, CheckpointTo(x.snap), NoGate)>> /\ y.pc = "enacting"
          /\ HasCheckpoint(x.snap)
      BY <1>0, <2>1, <2>3 DEF AfterClaim, Run, IsCheckpointState
    <3> QED
      BY <2>1, <3>1
  <2>4. CASE /\ ~Unsanctioned(x.op, x.snap, x.gate)
             /\ ~(x.op = "checkpoint" /\ IsCheckpointState(x.snap))
    <3>1. y.rows = x.rows /\ y.pc = "claimed"
      BY <1>0, <2>1, <2>4 DEF AfterClaim, Run
    <3> QED
      BY <3>1
  <2> QED
    BY <2>2, <2>3, <2>4
<1>7. CASE Dispatch(q)
  <2>1. PICK c \in BoundChecks(q) :
          run' = [run EXCEPT ![q] = [@ EXCEPT !.pc = "judging", !.bound = c.bound,
                                              !.prior = c.prior]]
    BY <1>7 DEF Dispatch
  <2>2. y.rows = x.rows /\ y.op = x.op /\ y.snap = x.snap /\ y.gate = x.gate
    BY <1>0, <2>1 DEF Run
  <2> QED
    BY <1>7, <2>2
<1>8. ASSUME NEW d \in {"accept", "reject"}, Judge(q, d)
      PROVE  y.rows = PlanRows(q, d) /\ y.pc = "enacting"
  BY <1>8 DEF Judge, Run
<1>9. CASE AppendLedger(q) \/ AppendFails(q)
  BY <1>0, <1>9 DEF AppendLedger, AppendFails, Enacting, Run
<1>10. CASE AppendReturns(q)
  <2>1. y = [x EXCEPT !.await = 0]
    BY <1>10 DEF AppendReturns
  <2> QED
    BY <1>0, <2>1 DEF Run
<1>11. CASE \/ ClaimRefused(q) \/ DispatchRefused(q) \/ NothingToRun(q) \/ JudgeFails(q)
            \/ SetStatusReturns(q) \/ Finish(q) \/ Crash(q)
  <2>1. y = Idle
    BY <1>11 DEF ClaimRefused, DispatchRefused, NothingToRun, JudgeFails, SetStatusReturns,
       Finish, Crash, Return
  <2> QED
    BY <1>1, <2>1
<1>12. CASE CheckpointLands(q)
  <2>1. y = Idle \/ (y.rows = x.rows /\ y.pc = "claimed")
    BY <1>0, <1>12 DEF CheckpointLands, Run
  <2> QED
    BY <1>1, <2>1
<1>13. CASE Observe(q)
  <2>1. CASE Return(q)
    BY <1>1, <2>1 DEF Return
  <2>2. CASE ~Return(q)
    <3>1. PICK obs : run' = [run EXCEPT ![q] = [@ EXCEPT !.pc = "observed", !.obs = obs]]
      BY <1>13, <2>2, Zenon DEF Observe
    <3>2. y.rows = x.rows /\ y.pc = "observed"
      BY <1>0, <3>1 DEF Run
    <3> QED
      BY <3>2
  <2> QED
    BY <2>1, <2>2
<1>14. CASE Tick
  <2>1. y = x \/ y = [x EXCEPT !.left = @ - 1]
    BY <1>14 DEF Tick
  <2> QED
    BY <1>0, <2>1 DEF Run
<1>15. CASE Server \/ (\E s \in PortalTargets : PortalPatch(s)) \/ UNCHANGED vars
  BY <1>15 DEF Server, Project, ProjectFails, PortalPatch, vars
<1>16. CASE Step(q) \/ Crash(q)
  BY <1>6, <1>7, <1>8, <1>9, <1>10, <1>11, <1>12, <1>13, <1>16 DEF Step, LedgerAppend
<1>17. ASSUME NEW r \in Runs, Start(r) \/ Step(r) \/ Crash(r), r = q
       PROVE  Start(q) \/ Step(q) \/ Crash(q)
  BY <1>17
<1> QED
  BY <1>2, <1>5, <1>14, <1>15, <1>16, <1>17 DEF Next

LEMMA PlansLawfulNext ==
    ASSUME TypeInv, PlansLawful, [Next]_vars
    PROVE  PlansLawful'
<1> SUFFICES ASSUME NEW q \in Runs
             PROVE  \A i \in DOMAIN run'[q].rows : Lawful(run'[q].rows[i])
  BY DEF PlansLawful, Lawful
<1>0. run[q].rows \in Seq(Row)
  BY DEF Run, TypeInv, TypeOK
<1>1. CASE run'[q].rows = run[q].rows
  BY <1>1 DEF PlansLawful
<1>2. CASE run'[q].rows = <<>>
  BY <1>2
<1>3. CASE run[q].rows # <<>> /\ run'[q].rows = Tail(run[q].rows)
  BY <1>0, <1>3, TailLawful DEF PlansLawful
<1>4. CASE \E d \in {"accept", "reject"} : Judge(q, d) /\ run'[q].rows = PlanRows(q, d)
  <2>1. run[q].snap \in States
    BY <1>4 DEF Judge, TypeInv, PhaseOK
  <2> QED
    BY <1>4, <2>1, PlanRowsLawful DEF TypeInv, TypeOK
<1>5. CASE \E to \in States : run'[q].rows = <<Transit(NoState, to, NoGate)>>
  <2>1. \A to : Lawful(Transit(NoState, to, NoGate))
    BY DEF Lawful, Transit
  <2> QED
    BY <1>5, <2>1
<1>6. CASE /\ run[q].snap \in States /\ HasCheckpoint(run[q].snap)
           /\ run'[q].rows = <<Transit(run[q].snap, CheckpointTo(run[q].snap), NoGate)>>
  BY <1>6, CheckpointLawful
<1> QED
  BY <1>1, <1>2, <1>3, <1>4, <1>5, <1>6, RowsStep

LEMMA MonopolyNext ==
    ASSUME TypeInv, PlansLawful, \A i \in DOMAIN ledger : Lawful(ledger[i]), [Next]_vars
    PROVE  \A i \in DOMAIN ledger' : Lawful(ledger'[i])
<1> USE DEF TypeInv, TypeOK
<1>1. CASE ledger' = ledger
  BY <1>1
<1>2. ASSUME NEW r \in Runs, AppendLedger(r)
      PROVE  \A i \in DOMAIN ledger' : Lawful(ledger'[i])
  <2> DEFINE row == Head(run[r].rows)
  <2>1. ledger' = Append(ledger, row) /\ run[r].rows # <<>> /\ run[r].rows \in Seq(Row)
    BY <1>2 DEF AppendLedger, Run
  <2>2. Lawful(row)
    BY <2>1, TailLawful DEF PlansLawful
  <2>3. row \in Row
    BY <2>1
  <2> HIDE DEF row
  <2>4. ASSUME NEW i \in DOMAIN ledger'
        PROVE  ledger'[i] = row \/ (i \in DOMAIN ledger /\ ledger'[i] = ledger[i])
    BY <2>1, <2>3
  <2> QED
    BY <2>2, <2>4
<1>3. ASSUME NEW r \in Runs, Start(r) \/ Step(r) \/ Crash(r), ~AppendLedger(r)
      PROVE  ledger' = ledger
  BY <1>3 DEF Start, Step, LedgerAppend, Crash, ResolveStory, ResolveForSetStatus, ClaimWork, ClaimRefused,
     DispatchRefused, Dispatch, NothingToRun, Judge, JudgeFails, AppendFails, AppendReturns,
     SetStatusReturns, CheckpointLands, Observe, Finish
<1>4. CASE Tick \/ Server \/ (\E s \in PortalTargets : PortalPatch(s)) \/ UNCHANGED vars
  BY <1>1, <1>4 DEF Tick, Server, Project, ProjectFails, PortalPatch, vars
<1> QED
  BY <1>1, <1>2, <1>3, <1>4 DEF Next

\* Whatever runs interleave, are killed or lose their calls, a review's transition row
\* crosses an edge the workflow declares, and only by the gate declared for it.
THEOREM GatesMonopolise == Spec => []GateMonopoly
<1> DEFINE Rows == \A i \in DOMAIN ledger : Lawful(ledger[i])
<1>1. Init => TypeInv /\ PlansLawful /\ Rows
  BY TypeInit DEF Init, PlansLawful, Idle
<1>2. TypeInv /\ PlansLawful /\ Rows /\ [Next]_vars => TypeInv' /\ PlansLawful' /\ Rows'
  BY TypeNext, PlansLawfulNext, MonopolyNext DEF Lawful
<1>3. Rows => GateMonopoly
  BY DEF Lawful, GateMonopoly
<1> QED
  BY <1>1, <1>2, <1>3, PTL DEF Spec

-----------------------------------------------------------------------------
(* Counting the rejects of a state.                                        *)

Counted(led, s) ==
    {i \in DOMAIN led :
        /\ led[i].kind = "review_reject"
        /\ led[i].from = s
        /\ \A j \in DOMAIN led : led[j].exhausted => j < i}

LEMMA CountedFinite ==
    ASSUME NEW led \in Seq(Row), NEW s
    PROVE  /\ CountEdgeRejects(led, s) = Cardinality(Counted(led, s))
           /\ Counted(led, s) \subseteq 1..Len(led)
           /\ IsFiniteSet(Counted(led, s))
           /\ Cardinality(Counted(led, s)) \in Nat
<1>1. Len(led) \in Nat /\ DOMAIN led = 1..Len(led)
  OBVIOUS
<1>2. Counted(led, s) \subseteq 1..Len(led)
  BY <1>1 DEF Counted
<1>3. IsFiniteSet(1..Len(led))
  BY <1>1, FS_Interval
<1>4. IsFiniteSet(Counted(led, s))
  BY <1>2, <1>3, FS_Subset
<1>5. Cardinality(Counted(led, s)) \in Nat
  BY <1>4, FS_CardinalityType
<1> QED
  BY <1>2, <1>4, <1>5 DEF CountEdgeRejects, Counted

\* Whether a row is a reject of a state.
Adds(row, s) == IF row.kind = "review_reject" /\ row.from = s THEN 1 ELSE 0

\* A reject counts one more for its state; another row that is no escalation, nothing.
LEMMA CountAppended ==
    ASSUME NEW led \in Seq(Row), NEW row \in Row, ~row.exhausted, NEW s
    PROVE  CountEdgeRejects(Append(led, row), s) = CountEdgeRejects(led, s) + Adds(row, s)
<1> DEFINE n == Len(led) + 1
           new == Append(led, row)
<1>1. /\ Len(led) \in Nat /\ new \in Seq(Row) /\ DOMAIN led = 1..Len(led) /\ DOMAIN new = 1..n
      /\ new[n] = row /\ \A i \in 1..Len(led) : new[i] = led[i]
  OBVIOUS
<1>2. \A i : i \in 1..n <=> i \in 1..Len(led) \/ i = n
  BY <1>1
<1>3. n \notin 1..Len(led) /\ \A i \in 1..Len(led) : i < n
  BY <1>1
<1> HIDE DEF n, new
<1>4. \A i \in 1..Len(led) : i \in Counted(new, s) <=> i \in Counted(led, s)
  BY <1>1, <1>2 DEF Counted
<1>5. n \in Counted(new, s) <=> row.kind = "review_reject" /\ row.from = s
  BY <1>1, <1>2, <1>3 DEF Counted
<1>6. Counted(new, s) \subseteq 1..n /\ Counted(led, s) \subseteq 1..Len(led)
  BY <1>1 DEF Counted
<1>7. Counted(new, s) = IF row.kind = "review_reject" /\ row.from = s
                        THEN Counted(led, s) \cup {n} ELSE Counted(led, s)
  <2>1. ASSUME NEW i
        PROVE  i \in Counted(new, s)
                 <=> i \in Counted(led, s) \/ (i = n /\ row.kind = "review_reject" /\ row.from = s)
    <3>1. CASE i \in 1..Len(led)
      BY <1>3, <1>4, <3>1
    <3>2. CASE i = n
      BY <1>3, <1>5, <1>6, <3>2
    <3>3. CASE i \notin 1..n
      BY <1>2, <1>6, <3>3
    <3> QED
      BY <1>2, <3>1, <3>2, <3>3
  <2> QED
    BY <2>1
<1>8. n \notin Counted(led, s)
  BY <1>3, <1>6
<1>9. Cardinality(Counted(led, s) \cup {n}) = Cardinality(Counted(led, s)) + 1
  BY <1>8, CountedFinite, FS_AddElement
<1>10. CountEdgeRejects(new, s) = Cardinality(Counted(new, s))
  BY <1>1, CountedFinite
<1>11. Cardinality(Counted(led, s)) \in Nat /\ CountEdgeRejects(led, s) = Cardinality(Counted(led, s))
  BY CountedFinite
<1> QED
  BY <1>7, <1>9, <1>10, <1>11 DEF Adds, new

\* An escalation opens a fresh window for every state.
LEMMA CountEscalated ==
    ASSUME NEW led \in Seq(Row), NEW row \in Row, row.exhausted, NEW s
    PROVE  CountEdgeRejects(Append(led, row), s) = 0
<1> DEFINE n == Len(led) + 1
           new == Append(led, row)
<1>1. /\ Len(led) \in Nat /\ new \in Seq(Row) /\ DOMAIN new = 1..n /\ n \in 1..n
      /\ new[n] = row
  OBVIOUS
<1>2. \A i \in 1..n : ~(n < i)
  BY <1>1
<1>3. Counted(new, s) = {}
  <2> HIDE DEF n, new
  <2> QED
    BY <1>1, <1>2 DEF Counted
<1>4. CountEdgeRejects(new, s) = Cardinality(Counted(new, s))
  BY <1>1, CountedFinite
<1> QED
  BY <1>3, <1>4, FS_EmptySet

\* The whole ledger is read and the declared bound is not overridden.
CountsInFull == "ledger_list" \notin Faults /\ KvBounds = {}

-----------------------------------------------------------------------------
(* Runs that race overrun a fail loop by one reject each at most.          *)

\* A run that may yet write a reject of a state: its gate is at work, or decided so.
Rejecting(r, s) ==
    \/ run[r].pc = "judging" /\ EnactV2(r) /\ run[r].snap = s
    \/ \E i \in DOMAIN run[r].rows : Adds(run[r].rows[i], s) = 1

Rejectors(s) == {r \in Runs : Rejecting(r, s)}

\* A plan rejects once, and first.
RejectsFirst ==
    \A r \in Runs : \A i \in DOMAIN run[r].rows : run[r].rows[i].kind = "review_reject" => i = 1

\* The rejects written and those still to come.
RoomForRejects(s) ==
    CountEdgeRejects(ledger, s) + Cardinality(Rejectors(s)) < MaxIterations(s) + Cardinality(Runs)

OverrunInv == RejectsFirst /\ \A s \in States : MaxIterations(s) > 0 => RoomForRejects(s)

LEMMA MaxTyped ==
    ASSUME NEW s \in States
    PROVE  MaxIterations(s) \in Nat /\ (~IsV2(s) => MaxIterations(s) = 0)
<1>1. CASE IsV2(s)
  BY <1>1, V2Edges
<1>2. CASE ~IsV2(s)
  BY <1>2 DEF MaxIterations
<1> QED
  BY <1>1, <1>2

LEMMA RejectorsFinite ==
    ASSUME IsFiniteSet(Runs), NEW s
    PROVE  /\ Rejectors(s) \subseteq Runs /\ IsFiniteSet(Rejectors(s))
           /\ Cardinality(Rejectors(s)) \in Nat /\ Cardinality(Runs) \in Nat
           /\ Cardinality(Rejectors(s)) <= Cardinality(Runs)
<1>1. Rejectors(s) \subseteq Runs
  BY DEF Rejectors
<1> QED
  BY <1>1, FS_Subset, FS_CardinalityType

\* A gate's plan rejects once, and a reject of a reviewed state is one the gate was asked for.
LEMMA PlanRejects ==
    ASSUME NEW r \in Runs, NEW d \in {"accept", "reject"}, NEW i \in DOMAIN PlanRows(r, d),
           PlanRows(r, d)[i].kind = "review_reject"
    PROVE  /\ i = 1 /\ PlanRows(r, d)[i].from = run[r].snap
           /\ IsV2(run[r].snap) => EnactV2(r)
<1> DEFINE s == run[r].snap
           g == run[r].gate
<1> USE DEF Accept, Reject, Escalate, Transit
<1>1. CASE EnactV2(r)
  <2>1. ~EnactV1(r)
    BY <1>1 DEF EnactV2, EnactV1
  <2>2. PlanRows(r, d) = PlanV2(s, g, d, run[r].bound, run[r].prior)
    BY <1>1, <2>1 DEF PlanRows
  <2> QED
    BY <1>1, <2>2 DEF PlanV2
<1>2. CASE ~EnactV2(r) /\ EnactV1(r)
  <2>1. PlanRows(r, d) = PlanV1(s, g, d) /\ ~IsV2(s)
    BY <1>2 DEF PlanRows, EnactV1
  <2> QED
    BY <2>1 DEF PlanV1
<1>3. CASE ~EnactV2(r) /\ ~EnactV1(r)
  BY <1>3 DEF PlanRows
<1> QED
  BY <1>1, <1>2, <1>3

LEMMA TailRows ==
    ASSUME NEW rows \in Seq(Row), rows # <<>>, NEW i \in DOMAIN Tail(rows)
    PROVE  i + 1 \in DOMAIN rows /\ i \in Nat /\ i > 0 /\ Tail(rows)[i] = rows[i + 1]
  OBVIOUS

LEMMA OneRow ==
    ASSUME NEW row, NEW i \in DOMAIN <<row>>
    PROVE  i = 1 /\ <<row>>[i] = row
  OBVIOUS

LEMMA RejectsFirstNext ==
    ASSUME TypeInv, RejectsFirst, [Next]_vars
    PROVE  RejectsFirst'
<1> SUFFICES ASSUME NEW q \in Runs, NEW i \in DOMAIN run'[q].rows,
                    run'[q].rows[i].kind = "review_reject"
             PROVE  i = 1
  BY DEF RejectsFirst
<1>0. run[q].rows \in Seq(Row)
  BY DEF Run, TypeInv, TypeOK
<1>1. CASE run'[q].rows = run[q].rows
  BY <1>1 DEF RejectsFirst
<1>2. CASE run'[q].rows = <<>>
  BY <1>2
<1>3. CASE run[q].rows # <<>> /\ run'[q].rows = Tail(run[q].rows)
  <2>1. i + 1 \in DOMAIN run[q].rows /\ i > 0 /\ i \in Nat /\ run[q].rows[i + 1].kind = "review_reject"
    BY <1>0, <1>3, TailRows
  <2>2. i + 1 = 1
    BY <2>1 DEF RejectsFirst
  <2> QED
    BY <2>1, <2>2
<1>4. CASE \E d \in {"accept", "reject"} : Judge(q, d) /\ run'[q].rows = PlanRows(q, d)
  BY <1>4, PlanRejects
<1>5. CASE \/ \E to \in States : run'[q].rows = <<Transit(NoState, to, NoGate)>>
           \/ run'[q].rows = <<Transit(run[q].snap, CheckpointTo(run[q].snap), NoGate)>>
  BY <1>5, OneRow
<1> QED
  BY <1>1, <1>2, <1>3, <1>4, <1>5, RowsStep

\* No run takes up a reject of a bounded state but by a dispatch that passes the bound check.
LEMMA RejectorsStay ==
    ASSUME TypeInv, RejectsFirst, [Next]_vars, NEW s \in States, MaxIterations(s) > 0,
           NEW q \in Runs, Rejecting(q, s)'
    PROVE  Rejecting(q, s) \/ (Dispatch(q) /\ LoopBounded(q) /\ run[q].snap = s)
<1> DEFINE x == run[q]
           y == run'[q]
<1>0. x.rows \in Seq(Row) /\ IsV2(s)
  BY MaxTyped DEF Run, TypeInv, TypeOK
<1>1. \/ y.pc = "judging" /\ EnactV2(q)' /\ y.snap = s
      \/ \E i \in DOMAIN y.rows : Adds(y.rows[i], s) = 1
  BY DEF Rejecting
<1>2. CASE /\ y.rows = x.rows
           /\ y.pc = "judging" =>
                x.pc = "judging" /\ y.op = x.op /\ y.snap = x.snap /\ y.gate = x.gate
  BY <1>1, <1>2 DEF Rejecting, EnactV2
<1>3. CASE y.rows = <<>> /\ y.pc # "judging"
  BY <1>1, <1>3
<1>4. CASE x.rows # <<>> /\ y.rows = Tail(x.rows) /\ x.pc = "enacting" /\ y.pc = "enacting"
  <2>1. PICK i \in DOMAIN Tail(x.rows) : Adds(Tail(x.rows)[i], s) = 1
    BY <1>1, <1>4
  <2>2. i + 1 \in DOMAIN x.rows /\ Adds(x.rows[i + 1], s) = 1
    BY <1>0, <1>4, <2>1, TailRows
  <2> QED
    BY <2>2 DEF Rejecting
<1>5. CASE Dispatch(q) /\ y.rows = x.rows /\ y.op = x.op /\ y.snap = x.snap /\ y.gate = x.gate
  BY <1>1, <1>5 DEF Rejecting, EnactV2, LoopBounded
<1>6. CASE \E d \in {"accept", "reject"} :
             Judge(q, d) /\ y.rows = PlanRows(q, d) /\ y.pc = "enacting"
  <2>1. PICK d \in {"accept", "reject"} : Judge(q, d) /\ y.rows = PlanRows(q, d)
    BY <1>6
  <2>2. PICK i \in DOMAIN PlanRows(q, d) : Adds(PlanRows(q, d)[i], s) = 1
    BY <1>1, <1>6, <2>1
  <2>3. PlanRows(q, d)[i].kind = "review_reject" /\ PlanRows(q, d)[i].from = s
    BY <2>2 DEF Adds
  <2>4. x.snap = s /\ EnactV2(q) /\ x.pc = "judging"
    BY <1>0, <2>1, <2>3, PlanRejects DEF Judge
  <2> QED
    BY <2>4 DEF Rejecting
<1>7. CASE /\ y.pc = "enacting"
           /\ \/ \E to \in States : y.rows = <<Transit(NoState, to, NoGate)>>
              \/ y.rows = <<Transit(x.snap, CheckpointTo(x.snap), NoGate)>>
  <2>1. \A from, to : Adds(Transit(from, to, NoGate), s) = 0
    BY DEF Transit, Adds
  <2>2. PICK i \in DOMAIN y.rows : Adds(y.rows[i], s) = 1
    BY <1>1, <1>7
  <2> QED
    BY <1>7, <2>1, <2>2, OneRow
<1> QED
  BY <1>2, <1>3, <1>4, <1>5, <1>6, <1>7, RowsStep

\* The rejects to come stay within the room while the count does not grow.
LEMMA RoomKept ==
    ASSUME IsFiniteSet(Runs), CountsInFull, TypeInv, RejectsFirst, [Next]_vars, NEW s \in States,
           MaxIterations(s) > 0, RoomForRejects(s), TypeInv',
           CountEdgeRejects(ledger', s) <= CountEdgeRejects(ledger, s)
    PROVE  RoomForRejects(s)'
<1>1. /\ CountEdgeRejects(ledger, s) \in Nat /\ CountEdgeRejects(ledger', s) \in Nat
      /\ MaxIterations(s) \in Nat
  BY CountTyped, MaxTyped DEF TypeInv, TypeOK
<1>2. /\ Cardinality(Rejectors(s)) \in Nat /\ Cardinality(Runs) \in Nat
      /\ Cardinality(Rejectors(s))' \in Nat
      /\ Cardinality(Rejectors(s))' <= Cardinality(Runs)
  <2>1. Rejectors(s)' \subseteq Runs
    BY DEF Rejectors
  <2> QED
    BY <2>1, RejectorsFinite, FS_Subset, FS_CardinalityType
<1>3. CASE \E q \in Runs : Dispatch(q) /\ LoopBounded(q) /\ run[q].snap = s
  <2>1. PICK q \in Runs : Dispatch(q) /\ LoopBounded(q) /\ run[q].snap = s
    BY <1>3
  <2>2. PICK c \in BoundChecks(q) : ~Spent(c)
    BY <2>1 DEF Dispatch
  <2>3. c.bound = MaxIterations(s) /\ c.prior = CountEdgeRejects(ledger, s)
    BY <2>1 DEF BoundChecks, ReadableCounts, CountsInFull
  <2> QED
    BY <1>1, <1>2, <2>2, <2>3 DEF Spent, RoomForRejects
<1>4. CASE ~\E q \in Runs : Dispatch(q) /\ LoopBounded(q) /\ run[q].snap = s
  <2>1. Rejectors(s)' \subseteq Rejectors(s)
    BY <1>4, RejectorsStay DEF Rejectors
  <2>2. Cardinality(Rejectors(s))' <= Cardinality(Rejectors(s))
    BY <2>1, RejectorsFinite, FS_Subset
  <2> QED
    BY <1>1, <1>2, <2>2 DEF RoomForRejects
<1> QED
  BY <1>3, <1>4

LEMMA OverrunNext ==
    ASSUME IsFiniteSet(Runs), CountsInFull, TypeInv, OverrunInv, [Next]_vars
    PROVE  OverrunInv'
<1>1. RejectsFirst' /\ TypeInv'
  BY RejectsFirstNext, TypeNext DEF OverrunInv
<1>2. SUFFICES ASSUME NEW s \in States, MaxIterations(s) > 0 PROVE RoomForRejects(s)'
  BY <1>1 DEF OverrunInv, RoomForRejects
<1>3. RejectsFirst /\ RoomForRejects(s)
  BY <1>2 DEF OverrunInv
<1>4. CountEdgeRejects(ledger, s) \in Nat /\ MaxIterations(s) \in Nat
  BY CountTyped, MaxTyped DEF TypeInv, TypeOK
<1>5. CASE ledger' = ledger
  BY <1>1, <1>2, <1>3, <1>4, <1>5, RoomKept
<1>6. ASSUME NEW r \in Runs, AppendLedger(r) PROVE RoomForRejects(s)'
  <2> DEFINE row == Head(run[r].rows)
  <2>1. run[r].rows \in Seq(Row) /\ ledger \in Seq(Row) /\ run \in [Runs -> Run]
    BY DEF Run, TypeInv, TypeOK
  <2>2. /\ ledger' = Append(ledger, row) /\ run[r].rows # <<>> /\ run[r].pc = "enacting"
        /\ run'[r].pc = "enacting" /\ run'[r].rows = Tail(run[r].rows)
        /\ \A q \in Runs : q # r => run'[q] = run[q]
    <3>1. ledger' = Append(ledger, row) /\ run[r].rows # <<>> /\ run[r].pc = "enacting"
      BY <1>6 DEF AppendLedger, Enacting
    <3>2. PICK to \in Run : to.pc = run[r].pc /\ to.rows = Tail(run[r].rows) /\ run' = [run EXCEPT ![r] = to]
      <4> DEFINE drop == [run[r] EXCEPT !.rows = Tail(@)]
                 wait == [run[r] EXCEPT !.rows = Tail(@), !.await = Len(ledger) + 1]
      <4>1. run' = [run EXCEPT ![r] = drop] \/ run' = [run EXCEPT ![r] = wait]
        BY <1>6, Zenon DEF AppendLedger
      <4>2. Tail(run[r].rows) \in Seq(Row) /\ Len(ledger) + 1 \in Nat
        BY <2>1, <3>1
      <4>3. drop \in Run /\ wait \in Run
        BY ZenonT(60), <2>1, <4>2 DEF Run
      <4>4. drop.pc = run[r].pc /\ drop.rows = Tail(run[r].rows) /\ wait.pc = run[r].pc /\ wait.rows = Tail(run[r].rows)
        BY <2>1 DEF Run
      <4> HIDE DEF drop, wait
      <4> QED
        BY <4>1, <4>3, <4>4
    <3> QED
      BY <2>1, <3>1, <3>2
  <2>3. row \in Row /\ row = run[r].rows[1] /\ 1 \in DOMAIN run[r].rows
    BY <2>1, <2>2
  <2> HIDE DEF row
  <2>4. CASE row.exhausted
    <3>1. CountEdgeRejects(ledger', s) = 0
      BY <2>1, <2>2, <2>3, <2>4, CountEscalated
    <3> QED
      BY <1>1, <1>2, <1>3, <1>4, <3>1, RoomKept
  <2>5. CASE ~row.exhausted /\ Adds(row, s) # 1
    <3>1. CountEdgeRejects(ledger', s) = CountEdgeRejects(ledger, s)
      BY <1>4, <2>1, <2>2, <2>3, <2>5, CountAppended DEF Adds
    <3> QED
      BY <1>1, <1>2, <1>3, <1>4, <3>1, RoomKept
  <2>6. CASE ~row.exhausted /\ Adds(row, s) = 1
    <3>1. CountEdgeRejects(ledger', s) = CountEdgeRejects(ledger, s) + 1
      BY <2>1, <2>2, <2>3, <2>6, CountAppended
    <3>2. r \in Rejectors(s)
      BY <2>3, <2>6 DEF Rejectors, Rejecting
    <3>3. ~Rejecting(r, s)'
      <4> SUFFICES ASSUME NEW i \in DOMAIN Tail(run[r].rows), Adds(Tail(run[r].rows)[i], s) = 1
                   PROVE  FALSE
        BY <2>2 DEF Rejecting
      <4>1. i + 1 \in DOMAIN run[r].rows /\ i \in Nat /\ i > 0 /\ run[r].rows[i + 1].kind = "review_reject"
        BY <2>1, <2>2, TailRows DEF Adds
      <4>2. i + 1 = 1
        BY <1>3, <4>1 DEF RejectsFirst
      <4> QED
        BY <4>1, <4>2
    <3>4. ASSUME NEW q \in Runs, Rejecting(q, s)' PROVE q # r /\ Rejecting(q, s)
      BY <2>2, <3>3, <3>4 DEF Rejecting, EnactV2
    <3>5. Rejectors(s)' \subseteq Rejectors(s) \ {r}
      BY <3>4 DEF Rejectors
    <3>6. /\ Cardinality(Rejectors(s)) \in Nat /\ IsFiniteSet(Rejectors(s))
          /\ Cardinality(Rejectors(s) \ {r}) = Cardinality(Rejectors(s)) - 1
          /\ IsFiniteSet(Rejectors(s) \ {r})
      BY <3>2, RejectorsFinite, FS_RemoveElement
    <3>7. Cardinality(Rejectors(s))' \in Nat /\ Cardinality(Rejectors(s))' <= Cardinality(Rejectors(s)) - 1
      BY <3>5, <3>6, FS_Subset, FS_CardinalityType
    <3> QED
      BY <1>3, <1>4, <3>1, <3>6, <3>7, RejectorsFinite DEF RoomForRejects
  <2> QED
    BY <2>4, <2>5, <2>6 DEF Adds
<1>7. ASSUME NEW r \in Runs, Start(r) \/ Step(r) \/ Crash(r), ~AppendLedger(r)
      PROVE  ledger' = ledger
  BY <1>7 DEF Start, Step, LedgerAppend, Crash, ResolveStory, ResolveForSetStatus, ClaimWork, ClaimRefused,
     DispatchRefused, Dispatch, NothingToRun, Judge, JudgeFails, AppendFails, AppendReturns,
     SetStatusReturns, CheckpointLands, Observe, Finish
<1>8. CASE Tick \/ Server \/ (\E p \in PortalTargets : PortalPatch(p)) \/ UNCHANGED vars
  BY <1>5, <1>8 DEF Tick, Server, Project, ProjectFails, PortalPatch, vars
<1> QED
  BY <1>5, <1>6, <1>7, <1>8 DEF Next

LEMMA LeftTyped == TypeInv => LeftStates \subseteq States
BY DEF LeftStates, TypeInv, TypeOK, Row, AnyRow

\* However many commands race through the bound check of one fail loop, and whatever is killed,
\* lost or late, the loop's rejects pass its bound by less than one for each of them: a count
\* that is read before the gate runs, and never again, lets each run add one.
THEOREM OverrunsAreBounded ==
    IsFiniteSet(Runs) /\ CountsInFull => (Spec => []RejectOverrun)
<1> SUFFICES ASSUME IsFiniteSet(Runs), CountsInFull PROVE Spec => []RejectOverrun
  OBVIOUS
<1>1. Init => TypeInv /\ OverrunInv
  <2> SUFFICES ASSUME Init PROVE OverrunInv
    BY TypeInit
  <2>1. RejectsFirst
    BY DEF Init, RejectsFirst, Idle
  <2>2. ASSUME NEW s \in States, MaxIterations(s) > 0 PROVE RoomForRejects(s)
    <3>1. <<>> \in Seq(Row) /\ Counted(<<>>, s) = {}
      BY DEF Counted
    <3>2. CountEdgeRejects(ledger, s) = 0
      BY <3>1, CountedFinite, FS_EmptySet DEF Init
    <3> QED
      BY <2>2, <3>2, RejectorsFinite, MaxTyped DEF RoomForRejects
  <2> QED
    BY <2>1, <2>2 DEF OverrunInv
<1>2. TypeInv /\ OverrunInv /\ [Next]_vars => TypeInv' /\ OverrunInv'
  BY TypeNext, OverrunNext
<1>3. TypeInv /\ OverrunInv => RejectOverrun
  <2> SUFFICES ASSUME TypeInv, NEW s \in States, MaxIterations(s) > 0, RoomForRejects(s)
               PROVE  CountEdgeRejects(ledger, s) < MaxIterations(s) + Cardinality(Runs)
    BY LeftTyped DEF OverrunInv, RejectOverrun
  <2>1. CountEdgeRejects(ledger, s) \in Nat /\ MaxIterations(s) \in Nat
    BY CountTyped, MaxTyped DEF TypeInv, TypeOK
  <2> QED
    BY <2>1, RejectorsFinite DEF RoomForRejects
<1> QED
  BY <1>1, <1>2, <1>3, PTL DEF Spec

-----------------------------------------------------------------------------
(* One operator at work, with no call lost: the ledger of the story is a   *)
(* path of its workflow, its status is where the path ends, and the review *)
(* machinery implements StoryLifecycle.  For every workflow, clone and     *)
(* operator, and a ledger of any length.                                   *)

\* One command at a time, no call lost, no kill and no portal.  What was read back of
\* the status and a page of the ledger may still be unavailable.
OneAtATime ==
    /\ \E r \in Runs : Runs = {r}
    /\ Faults \subseteq {"observe", "ledger_list"}
    /\ PortalTargets = {}

-----------------------------------------------------------------------------
(* Sequences of rows.                                                      *)

\* LastOf is the greatest member.
LEMMA LastOfIs ==
    ASSUME NEW S \in SUBSET Nat, NEW n \in S, \A j \in S : j <= n
    PROVE  LastOf(S) = n
<1>1. \A i \in S : (\A j \in S : j <= i) => i = n
  <2> SUFFICES ASSUME NEW i \in S, \A j \in S : j <= i PROVE i = n
    OBVIOUS
  <2>1. i \in Nat /\ n \in Nat /\ i <= n /\ n <= i
    OBVIOUS
  <2> QED
    BY <2>1
<1> QED
  BY <1>1 DEF LastOf

\* An appended row leaves the others where they were.
LEMMA Appended ==
    ASSUME TypeInv, NEW row \in Row, ledger' = Append(ledger, row)
    PROVE  LET n == Len(ledger) + 1
           IN  /\ Len(ledger) \in Nat /\ Len(ledger') = n
               /\ DOMAIN ledger = 1..Len(ledger) /\ DOMAIN ledger' = 1..n
               /\ ledger'[n] = row
               /\ \A i \in 1..Len(ledger) : ledger'[i] = ledger[i]
               /\ TransitionRows \subseteq 1..Len(ledger)
               /\ row.kind = "status_transition" => TransitionRows' = TransitionRows \cup {n}
               /\ row.kind # "status_transition" => TransitionRows' = TransitionRows
<1> DEFINE n == Len(ledger) + 1
<1>1. ledger \in Seq(Row) /\ Len(ledger) \in Nat /\ DOMAIN ledger = 1..Len(ledger)
  BY DEF TypeInv, TypeOK
<1>2. /\ Len(ledger') = n /\ DOMAIN ledger' = 1..n /\ ledger'[n] = row
      /\ \A i \in 1..Len(ledger) : ledger'[i] = ledger[i]
  BY <1>1
<1>3. TransitionRows \subseteq 1..Len(ledger)
  BY <1>1 DEF TransitionRows
<1>4. \A i : i \in 1..n <=> i \in 1..Len(ledger) \/ i = n
  BY <1>1
<1>5. \A i : i \in TransitionRows' <=> i \in TransitionRows \/ (i = n /\ row.kind = "status_transition")
  <2>1. n \notin 1..Len(ledger)
    BY <1>1
  <2> HIDE DEF n
  <2> QED
    BY <1>1, <1>2, <1>4, <2>1 DEF TransitionRows
<1>6. /\ row.kind = "status_transition" => TransitionRows' = TransitionRows \cup {n}
      /\ row.kind # "status_transition" => TransitionRows' = TransitionRows
  <2> HIDE DEF n
  <2> QED
    BY <1>5
<1> QED
  BY <1>1, <1>2, <1>3, <1>6

-----------------------------------------------------------------------------
(* The steps of the run, by what they do to its plan.                      *)

\* What a run that stays where it is keeps.
SamePlan(x, y) ==
    /\ y.pc = x.pc /\ y.op = x.op /\ y.snap = x.snap /\ y.gate = x.gate
    /\ y.rows = x.rows /\ y.bound = x.bound /\ y.prior = x.prior

Still == UNCHANGED <<status, ledger, unprojected>>

Stays(x, y) == SamePlan(x, y) /\ (y.await = x.await \/ (y.await = 0 /\ x.await \notin unprojected))

Resolves(x, y) ==
    /\ x.pc = "idle" /\ y.pc = "resolved" /\ y.snap = status
    /\ y.op \in {"review", "checkpoint"} /\ (y.op = "checkpoint" => y.gate = NoGate)

SetsStatus(x, y) ==
    /\ x.pc = "idle" /\ y.pc = "enacting" /\ y.op = "set-status" /\ y.snap = status
    /\ \E to \in States : UngatedAdvance(status, to) /\ y.rows = <<Transit(NoState, to, NoGate)>>

Done(x) == x.pc = "enacting" /\ x.await = 0 /\ x.rows = <<>>

Rests(x, y) ==
    /\ x.pc # "enacting" \/ Done(x)
    /\ y.pc \in {"idle", "observed"}
    /\ y.op = "none" \/ (y.op = x.op /\ y.gate = x.gate)

Claims(x, y) ==
    /\ x.pc = "resolved" /\ y.pc = "claimed"
    /\ y.op = x.op /\ y.snap = x.snap /\ y.gate = x.gate

Checkpoints(x, y) ==
    /\ x.pc = "resolved" /\ y.pc = "enacting"
    /\ y.op = x.op /\ x.op = "checkpoint" /\ y.snap = x.snap /\ y.gate = x.gate
    /\ HasCheckpoint(x.snap)
    /\ y.rows = <<Transit(x.snap, CheckpointTo(x.snap), NoGate)>>

Dispatches(r, x, y) ==
    /\ x.pc = "claimed" /\ y.pc = "judging"
    /\ y.op = x.op /\ y.snap = x.snap /\ y.gate = x.gate
    /\ \E c \in BoundChecks(r) : ~Spent(c) /\ y.bound = c.bound /\ y.prior = c.prior

Judges(r, x, y) ==
    /\ x.pc = "judging" /\ y.pc = "enacting"
    /\ y.op = x.op /\ y.snap = x.snap /\ y.gate = x.gate /\ y.bound = x.bound /\ y.prior = x.prior
    /\ \E d \in {"accept", "reject"} : y.rows = PlanRows(r, d)

Chains(x, y) ==
    /\ Done(x) /\ x.op = "checkpoint"
    /\ y.pc = "claimed" /\ y.op = "chained" /\ y.gate = x.gate

\* The steps of the sole run and of the server.
LEMMA SoleStep ==
    ASSUME OneAtATime, TypeInv, [Next]_vars, NEW r \in Runs
    PROVE  LET x == run[r]
               y == run'[r]
           IN  \/ /\ Still
                  /\ \/ Stays(x, y) \/ Resolves(x, y) \/ SetsStatus(x, y) \/ Rests(x, y)
                     \/ Claims(x, y) \/ Checkpoints(x, y) \/ Dispatches(r, x, y)
                     \/ Judges(r, x, y) \/ Chains(x, y)
               \/ AppendLedger(r)
               \/ \E i \in unprojected : Project(i)
<1> USE DEF TypeInv, TypeOK
<1> DEFINE x == run[r]
           y == run'[r]
           Goal == \/ Stays(x, y) \/ Resolves(x, y) \/ SetsStatus(x, y) \/ Rests(x, y)
                   \/ Claims(x, y) \/ Checkpoints(x, y) \/ Dispatches(r, x, y)
                   \/ Judges(r, x, y) \/ Chains(x, y)
<1>0. x \in Run /\ PhaseOK(r)
  OBVIOUS
<1>1. ASSUME NEW op \in {"review", "checkpoint"}, NEW g \in Gates \cup {NoGate},
             op = "checkpoint" => g = NoGate, ResolveStory(r, op, g)
      PROVE  Still /\ Resolves(x, y)
  BY <1>1 DEF ResolveStory, Idle, Resolves, Still
<1>2. ASSUME NEW to \in States, ResolveForSetStatus(r, to)
      PROVE  Still /\ SetsStatus(x, y)
  BY <1>2 DEF ResolveForSetStatus, Idle, SetsStatus, Still
<1>3. CASE Start(r)
  BY <1>1, <1>2, <1>3 DEF Start
<1>4. CASE ClaimWork(r)
  <2>1. Still /\ x.pc = "resolved" /\ y = AfterClaim(r)
    BY <1>4 DEF ClaimWork, Still
  <2>2. CASE Unsanctioned(x.op, x.snap, x.gate)
    <3>1. y = Idle
      BY <2>1, <2>2 DEF AfterClaim, Unsanctioned
    <3> QED
      BY <2>1, <3>1 DEF Rests, Idle
  <2>3. CASE /\ ~Unsanctioned(x.op, x.snap, x.gate)
             /\ x.op = "checkpoint" /\ IsCheckpointState(x.snap)
    <3>1. Checkpoints(x, y)
      BY <1>0, <2>1, <2>3 DEF AfterClaim, Run, Checkpoints, IsCheckpointState
    <3> QED
      BY <2>1, <3>1
  <2>4. CASE /\ ~Unsanctioned(x.op, x.snap, x.gate)
             /\ ~(x.op = "checkpoint" /\ IsCheckpointState(x.snap))
    <3>1. Claims(x, y)
      BY <1>0, <2>1, <2>4 DEF AfterClaim, Run, Claims
    <3> QED
      BY <2>1, <3>1
  <2> QED
    BY <2>2, <2>3, <2>4
<1>5. CASE \/ ClaimRefused(r) \/ DispatchRefused(r) \/ NothingToRun(r) \/ JudgeFails(r)
           \/ SetStatusReturns(r) \/ Finish(r)
  <2>1. Still /\ y = Idle /\ (x.pc # "enacting" \/ Done(x))
    BY <1>5 DEF ClaimRefused, DispatchRefused, NothingToRun, JudgeFails, SetStatusReturns,
       Finish, Return, Enacted, Enacting, Done, Still
  <2> QED
    BY <2>1 DEF Rests, Idle
<1>6. CASE Dispatch(r)
  <2>1. PICK c \in BoundChecks(r) :
          /\ ~Spent(c)
          /\ run' = [run EXCEPT ![r] = [@ EXCEPT !.pc = "judging", !.bound = c.bound,
                                                 !.prior = c.prior]]
    BY <1>6 DEF Dispatch
  <2>2. Still /\ x.pc = "claimed"
    BY <1>6 DEF Dispatch, Still
  <2>3. /\ y.pc = "judging" /\ y.op = x.op /\ y.snap = x.snap /\ y.gate = x.gate
        /\ y.bound = c.bound /\ y.prior = c.prior
    BY <1>0, <2>1 DEF Run
  <2> QED
    BY <2>1, <2>2, <2>3 DEF Dispatches
<1>7. ASSUME NEW d \in {"accept", "reject"}, Judge(r, d)
      PROVE  Still /\ Judges(r, x, y)
  BY <1>0, <1>7 DEF Judge, Run, Still, Judges
<1>8. CASE AppendReturns(r)
  <2>1. "timeout" \notin Faults
    BY DEF OneAtATime
  <2> QED
    BY <1>0, <1>8, <2>1 DEF AppendReturns, Run, Still, Stays, SamePlan
<1>9. CASE CheckpointLands(r)
  <2>1. Still /\ Done(x) /\ x.op = "checkpoint"
    BY <1>9 DEF CheckpointLands, Still, Enacted, Enacting, Done
  <2>2. CASE y = Idle
    BY <2>1, <2>2 DEF Rests, Idle
  <2>3. CASE y # Idle
    <3>1. y.pc = "claimed" /\ y.op = "chained" /\ y.gate = x.gate
      BY <1>0, <1>9, <2>3 DEF CheckpointLands, Run
    <3> QED
      BY <2>1, <3>1 DEF Chains
  <2> QED
    BY <2>2, <2>3
<1>10. CASE Observe(r)
  <2>1. Still /\ Done(x)
    BY <1>10 DEF Observe, Still, Enacted, Enacting, Done
  <2>2. CASE Return(r)
    BY <2>1, <2>2 DEF Return, Rests, Idle
  <2>3. CASE ~Return(r)
    <3>1. PICK obs : run' = [run EXCEPT ![r] = [@ EXCEPT !.pc = "observed", !.obs = obs]]
      BY <1>10, <2>3, Zenon DEF Observe
    <3>2. y.pc = "observed" /\ y.op = x.op /\ y.gate = x.gate
      BY <1>0, <3>1 DEF Run
    <3> QED
      BY <2>1, <3>2 DEF Rests
  <2> QED
    BY <2>2, <2>3
<1>11. ~AppendFails(r) /\ ~Crash(r)
  BY DEF OneAtATime, AppendFails, Crash
<1>12. CASE Step(r)
  <2>1. CASE LedgerAppend(r)
    BY <1>11, <2>1 DEF LedgerAppend
  <2>2. CASE ~LedgerAppend(r)
    BY <1>4, <1>5, <1>6, <1>7, <1>8, <1>9, <1>10, <1>12, <2>2 DEF Step
  <2> QED
    BY <2>1, <2>2
<1>13. CASE Tick
  <2>1. Still /\ (y = x \/ y = [x EXCEPT !.left = @ - 1])
    BY <1>13 DEF Tick, Still
  <2>2. y = [x EXCEPT !.left = @ - 1] => SamePlan(x, y) /\ y.await = x.await
    BY <1>0 DEF Run, SamePlan
  <2> QED
    BY <2>1, <2>2 DEF Stays, SamePlan
<1>14. CASE UNCHANGED vars
  BY <1>14 DEF vars, Still, Stays, SamePlan
<1>15. CASE Server
  <2>1. "project" \notin Faults
    BY DEF OneAtATime
  <2> QED
    BY <1>15, <2>1 DEF Server, ProjectFails
<1>16. ~\E s \in PortalTargets : PortalPatch(s)
  BY DEF OneAtATime
<1>17. \A q \in Runs : q = r
  BY DEF OneAtATime
<1> QED
  BY <1>3, <1>11, <1>12, <1>13, <1>14, <1>15, <1>16, <1>17 DEF Next

-----------------------------------------------------------------------------
(* The path invariant: where an enactment stands.                          *)

\* A review's plan that moves the story: the verdict and the move it earns.
Earned(x, v, t) ==
    \/ /\ x.op = "review" /\ IsV2(x.snap) /\ GateMatches(x.snap, x.gate)
       /\ \/ /\ v = Accept(x.snap, PassTo(x.snap), x.gate)
             /\ t = Transit(x.snap, PassTo(x.snap), x.gate)
          \/ /\ v = Reject(x.snap, x.gate)
             /\ \/ /\ BoundSpent(x.bound, x.prior)
                   /\ t = Escalate(x.snap, FailEdge(x.snap).exhausted, x.gate)
                \/ /\ ~BoundSpent(x.bound, x.prior)
                   /\ t = Transit(x.snap, FailEdge(x.snap).to, x.gate)
    \/ /\ ~IsV2(x.snap) /\ HasGatedEdge(x.snap, x.gate)
       /\ v = Accept(x.snap, GatedTo(x.snap, x.gate), x.gate)
       /\ t = Transit(x.snap, GatedTo(x.snap, x.gate), x.gate)

\* A plan of one row: set-status, or a checkpoint.
Unearned(x, t) ==
    \/ \E to \in States : UngatedAdvance(x.snap, to) /\ t = Transit(NoState, to, NoGate)
    \/ HasCheckpoint(x.snap) /\ t = Transit(x.snap, CheckpointTo(x.snap), NoGate)

\* A reject that leaves the story where it is.
StaysPut(x) ==
    ~IsV2(x.snap) /\ HasGatedEdge(x.snap, x.gate) /\ x.rows = <<Reject(x.snap, x.gate)>>

LastRow == ledger[Len(ledger)]

\* Nothing is being written.
Resting(x) == unprojected = {} /\ (x.pc = "enacting" => x.rows = <<>>)

\* The plan of one of these forms is about to be written.
Planned(x) ==
    /\ x.pc = "enacting" /\ x.snap = status /\ unprojected = {}
    /\ \/ \E v, t \in Row : x.rows = <<v, t>> /\ Earned(x, v, t)
       \/ \E t \in Row : x.rows = <<t>> /\ Unearned(x, t)
       \/ StaysPut(x)

\* The verdict is written, its move is not.
Judged(x) ==
    /\ x.pc = "enacting" /\ x.snap = status /\ unprojected = {}
    /\ Len(ledger) > 0
    /\ \E t \in Row : x.rows = <<t>> /\ Earned(x, LastRow, t)

\* The move is written, and the server has yet to project it.
Moving(x) ==
    /\ x.pc = "enacting" /\ x.snap = status /\ x.rows = <<>>
    /\ unprojected = {Len(ledger)} /\ x.await = Len(ledger)
    /\ LastRow.kind = "status_transition"
    /\ Unearned(x, LastRow) \/ (Len(ledger) > 1 /\ Earned(x, ledger[Len(ledger) - 1], LastRow))

\* What a run read still holds when it plans; a chained command has no gate to enact with.
Reads(x) ==
    /\ x.op \in {"checkpoint", "chained"} => x.gate = NoGate
    /\ x.pc = "resolved" \/ (x.pc \in {"claimed", "judging"} /\ x.op # "chained")
          => x.snap = status

EndOf(S) == IF S = {} THEN InitialStatus ELSE ledger[LastOf(S)].to

PathInv ==
    /\ LedgerIsPath /\ VerdictBeforeMove
    /\ status = EndOf(TransitionRows \ unprojected)
    /\ \A r \in Runs :
          /\ Reads(run[r])
          /\ Resting(run[r]) \/ Planned(run[r]) \/ Judged(run[r]) \/ Moving(run[r])

LEMMA PathInit == Init => PathInv
<1> SUFFICES ASSUME Init PROVE PathInv
  OBVIOUS
<1>1. ledger = <<>> /\ unprojected = {} /\ DOMAIN ledger = {}
  BY DEF Init
<1>2. TransitionRows = {}
  BY <1>1 DEF TransitionRows
<1> QED
  BY <1>1, <1>2 DEF Init, PathInv, LedgerIsPath, VerdictBeforeMove, EndOf, Reads, Resting, Idle

\* The rows a judged run plans.
LEMMA PlanIs ==
    ASSUME TypeInv, NEW r \in Runs, run[r].pc = "judging", Reads(run[r]), unprojected = {},
           NEW y, Judges(r, run[r], y)
    PROVE  \/ y.rows = <<>>
           \/ \E v, t \in Row : y.rows = <<v, t>> /\ Earned(y, v, t)
           \/ StaysPut(y)
<1> DEFINE x == run[r]
<1>0. x \in Run /\ PhaseOK(r)
  BY DEF TypeInv, TypeOK
<1>1. PICK d \in {"accept", "reject"} : y.rows = PlanRows(r, d)
  BY DEF Judges
<1>2. /\ y.op = x.op /\ y.snap = x.snap /\ y.gate = x.gate
      /\ y.bound = x.bound /\ y.prior = x.prior
  BY DEF Judges
<1>3. y.rows \in Seq(Row)
  BY <1>0, <1>1, PlanRowsTyped DEF PhaseOK
<1>4. CASE EnactV2(r)
  <2>1. x.op = "review" /\ IsV2(x.snap) /\ GateMatches(x.snap, x.gate) /\ ~EnactV1(r)
    BY <1>4 DEF EnactV2, EnactV1
  <2>2. y.rows = PlanV2(x.snap, x.gate, d, x.bound, x.prior)
    BY <1>1, <1>4, <2>1 DEF PlanRows
  <2>3. \E v, t : y.rows = <<v, t>> /\ Earned(y, v, t)
    <3>1. CASE d = "accept"
      BY <1>2, <2>1, <2>2, <3>1 DEF PlanV2, Earned
    <3>2. CASE d = "reject" /\ BoundSpent(x.bound, x.prior)
      BY <1>2, <2>1, <2>2, <3>2 DEF PlanV2, Earned
    <3>3. CASE d = "reject" /\ ~BoundSpent(x.bound, x.prior)
      BY <1>2, <2>1, <2>2, <3>3 DEF PlanV2, Earned
    <3> QED
      BY <3>1, <3>2, <3>3
  <2> QED
    BY <1>3, <2>3
<1>5. CASE ~EnactV2(r) /\ EnactV1(r)
  <2>1. ~IsV2(x.snap) /\ HasGatedEdge(x.snap, x.gate)
    BY <1>5 DEF EnactV1
  <2>2. y.rows = PlanV1(x.snap, x.gate, d)
    BY <1>1, <1>5 DEF PlanRows
  <2>3. CASE d = "accept"
    <3>1. \E v, t : y.rows = <<v, t>> /\ Earned(y, v, t)
      BY <1>2, <2>1, <2>2, <2>3 DEF PlanV1, Earned
    <3> QED
      BY <1>3, <3>1
  <2>4. CASE d = "reject"
    BY <1>2, <2>1, <2>2, <2>4 DEF PlanV1, StaysPut
  <2> QED
    BY <2>3, <2>4
<1>6. CASE ~EnactV2(r) /\ ~EnactV1(r)
  BY <1>1, <1>6 DEF PlanRows
<1> QED
  BY <1>4, <1>5, <1>6

\* A move that leaves the state the story is in extends the walk.
LEMMA PathExtends ==
    ASSUME TypeInv, LedgerIsPath, unprojected = {}, status = EndOf(TransitionRows),
           NEW row \in Row, ledger' = Append(ledger, row),
           row.kind = "status_transition" => row.from \in {NoState, status}
    PROVE  LedgerIsPath'
<1> DEFINE n == Len(ledger) + 1
<1>1. /\ Len(ledger) \in Nat /\ ledger'[n] = row
      /\ \A i \in 1..Len(ledger) : ledger'[i] = ledger[i]
      /\ TransitionRows \subseteq 1..Len(ledger)
      /\ TransitionRows' \in {TransitionRows, TransitionRows \cup {n}}
      /\ row.kind # "status_transition" => TransitionRows' = TransitionRows
  BY Appended
<1>2. SUFFICES ASSUME NEW i \in TransitionRows', ledger'[i].from # NoState
               PROVE  ledger'[i].from = IF Previous(i)' = {} THEN InitialStatus
                                        ELSE ledger'[LastOf(Previous(i)')].to
  BY DEF LedgerIsPath
<1>3. CASE i \in TransitionRows
  <2>1. i \in 1..Len(ledger) /\ ~(n < i)
    BY <1>1, <1>3
  <2>2. Previous(i)' = Previous(i) /\ Previous(i) \subseteq 1..Len(ledger)
    BY <1>1, <2>1 DEF Previous
  <2>3. Previous(i) # {} => LastOf(Previous(i)) \in Previous(i)
    BY <1>1, <2>2, LastOfIn
  <2>4. ledger[i].from # NoState /\ ledger'[i] = ledger[i]
    BY <1>1, <1>2, <2>1
  <2> QED
    BY <1>1, <1>3, <2>2, <2>3, <2>4 DEF LedgerIsPath
<1>4. CASE i \notin TransitionRows
  <2>1. i = n /\ row.kind = "status_transition" /\ row.from = status
    BY <1>1, <1>2, <1>4
  <2>2. Previous(i)' = TransitionRows
    <3>1. \A j \in 1..Len(ledger) : j < n
      BY <1>1
    <3>2. ~(n < n)
      BY <1>1
    <3> HIDE DEF n
    <3> QED
      BY <1>1, <2>1, <3>1, <3>2 DEF Previous
  <2>3. TransitionRows # {} => LastOf(TransitionRows) \in TransitionRows
    BY <1>1, LastOfIn
  <2> QED
    BY <1>1, <2>1, <2>2, <2>3 DEF EndOf
<1> QED
  BY <1>3, <1>4

\* A move that its verdict precedes, or that needs none, keeps the verdicts before the moves.
LEMMA VerdictExtends ==
    ASSUME TypeInv, VerdictBeforeMove, NEW row \in Row, ledger' = Append(ledger, row),
           \/ row.kind # "status_transition"
           \/ row.from = NoState
           \/ HasCheckpoint(row.from)
           \/ /\ Len(ledger) > 0
              /\ LastRow.from = row.from /\ LastRow.gate = row.gate
              /\ LastRow.kind = "review_accept" => LastRow.to = row.to
              /\ LastRow.kind = "review_reject" => IsV2(row.from)
    PROVE  VerdictBeforeMove'
<1> DEFINE n == Len(ledger) + 1
<1>1. /\ Len(ledger) \in Nat /\ ledger'[n] = row
      /\ \A i \in 1..Len(ledger) : ledger'[i] = ledger[i]
      /\ TransitionRows \subseteq 1..Len(ledger)
      /\ TransitionRows' \in {TransitionRows, TransitionRows \cup {n}}
      /\ row.kind # "status_transition" => TransitionRows' = TransitionRows
  BY Appended
<1>2. SUFFICES ASSUME NEW i \in TransitionRows', ledger'[i].from # NoState,
                      ~HasCheckpoint(ledger'[i].from)
               PROVE  /\ i > 1
                      /\ ledger'[i - 1].from = ledger'[i].from
                      /\ ledger'[i - 1].gate = ledger'[i].gate
                      /\ ledger'[i - 1].kind = "review_accept" => ledger'[i - 1].to = ledger'[i].to
                      /\ ledger'[i - 1].kind = "review_reject" => IsV2(ledger'[i].from)
  BY DEF VerdictBeforeMove
<1>3. CASE i \in TransitionRows
  <2>1. i \in 1..Len(ledger) /\ ledger'[i] = ledger[i]
    BY <1>1, <1>3
  <2>2. i > 1 => i - 1 \in 1..Len(ledger)
    BY <1>1, <2>1
  <2>3. i > 1 => ledger'[i - 1] = ledger[i - 1]
    BY <1>1, <2>2
  <2> QED
    BY <1>2, <1>3, <2>1, <2>3 DEF VerdictBeforeMove
<1>4. CASE i \notin TransitionRows
  <2>1. i = n /\ row.kind = "status_transition"
    BY <1>1, <1>4
  <2>2. Len(ledger) > 0 => n > 1 /\ ledger'[n - 1] = LastRow
    BY <1>1 DEF LastRow
  <2> QED
    BY <1>1, <1>2, <2>1, <2>2
<1> QED
  BY <1>3, <1>4

\* A verdict and its move leave the same state by the same gate, and agree on where to.
LEMMA EarnedRows ==
    ASSUME NEW x, NEW v, NEW t, Earned(x, v, t)
    PROVE  /\ v.kind \in {"review_accept", "review_reject"} /\ t.kind = "status_transition"
           /\ v.from = x.snap /\ t.from = x.snap /\ v.gate = x.gate /\ t.gate = x.gate
           /\ ~v.exhausted
           /\ v.kind = "review_accept" => v.to = t.to /\ ~t.exhausted
           /\ v.kind = "review_reject" => IsV2(x.snap)
  BY DEF Earned, Accept, Reject, Transit, Escalate

LEMMA UnearnedRow ==
    ASSUME NEW x, NEW t, Unearned(x, t)
    PROVE  /\ t.kind = "status_transition" /\ ~t.exhausted
           /\ t.from = NoState \/ (t.from = x.snap /\ HasCheckpoint(x.snap))
  BY DEF Unearned, Transit

\* What a run and its plan are worth to Earned and Unearned.
SameRun(x, y) ==
    /\ y.op = x.op /\ y.snap = x.snap /\ y.gate = x.gate
    /\ y.bound = x.bound /\ y.prior = x.prior

LEMMA SamePlans ==
    ASSUME NEW x, NEW y, SameRun(x, y), NEW v, NEW t
    PROVE  (Earned(x, v, t) => Earned(y, v, t)) /\ (Unearned(x, t) => Unearned(y, t))
  BY DEF SameRun, Earned, Unearned

\* The kinds of append: a verdict, with its move to come; a move that needs no verdict; a
\* reject that leaves the story where it is; the move that the last verdict earned.
WritesVerdict(x, y, row) ==
    /\ Planned(x) /\ unprojected' = {}
    /\ \E t \in Row : Earned(x, row, t) /\ y.rows = <<t>>

WritesUnearned(x, y, row) ==
    /\ Planned(x) /\ unprojected' = {Len(ledger) + 1} /\ y.await = Len(ledger) + 1
    /\ Unearned(x, row) /\ y.rows = <<>>

WritesStay(x, y, row) ==
    /\ Planned(x) /\ unprojected' = {}
    /\ ~IsV2(x.snap) /\ row = Reject(x.snap, x.gate) /\ y.rows = <<>>

WritesMove(x, y, row) ==
    /\ Judged(x) /\ unprojected' = {Len(ledger) + 1} /\ y.await = Len(ledger) + 1
    /\ Earned(x, LastRow, row) /\ y.rows = <<>>

Writes(x, y, row) ==
    /\ unprojected = {} /\ x.snap = status /\ status' = status
    /\ ledger' = Append(ledger, row)
    /\ x.pc = "enacting" /\ y.pc = "enacting" /\ SameRun(x, y)
    /\ \/ WritesVerdict(x, y, row) \/ WritesUnearned(x, y, row)
       \/ WritesStay(x, y, row) \/ WritesMove(x, y, row)

\* The row that an append writes, by how far the plan got.
LEMMA WriteStep ==
    ASSUME TypeInv, PathInv, NEW r \in Runs, AppendLedger(r)
    PROVE  \E row \in Row : Writes(run[r], run'[r], row)
<1> DEFINE x == run[r]
           y == run'[r]
           n == Len(ledger) + 1
           row == Head(x.rows)
<1>0. x \in Run /\ run \in [Runs -> Run]
  BY DEF TypeInv, TypeOK
<1>1. /\ x.pc = "enacting" /\ x.await = 0 /\ x.rows # <<>> /\ status' = status
      /\ ledger' = Append(ledger, row)
  BY DEF AppendLedger, Enacting
<1>2. row \in Row /\ Tail(x.rows) \in Seq(Row)
  BY <1>0, <1>1 DEF Run
<1>3. /\ y.pc = x.pc /\ SameRun(x, y) /\ y.rows = Tail(x.rows)
      /\ row.kind = "status_transition" => unprojected' = unprojected \cup {n} /\ y.await = n
      /\ row.kind # "status_transition" => unprojected' = unprojected
  BY <1>0 DEF AppendLedger, Run, SameRun
<1>4. Planned(x) \/ Judged(x)
  <2>1. Resting(x) \/ Planned(x) \/ Judged(x) \/ Moving(x)
    BY DEF PathInv
  <2> QED
    BY <1>1, <2>1 DEF Resting, Moving
<1>5. unprojected = {} /\ x.snap = status
  BY <1>4 DEF Planned, Judged
<1>6. ASSUME NEW v \in Row, NEW t \in Row, x.rows = <<v, t>>
      PROVE  row = v /\ y.rows = <<t>>
  BY <1>3, <1>6
<1>7. ASSUME NEW t, x.rows = <<t>>
      PROVE  row = t /\ y.rows = <<>>
  BY <1>3, <1>7
<1> HIDE DEF row
<1> USE DEF Writes, WritesVerdict, WritesUnearned, WritesStay, WritesMove
<1>8. CASE \E v, t \in Row : x.rows = <<v, t>> /\ Earned(x, v, t) /\ Planned(x)
  <2>1. PICK v \in Row, t \in Row : x.rows = <<v, t>> /\ Earned(x, v, t) /\ Planned(x)
    BY <1>8
  <2>2. row = v /\ y.rows = <<t>> /\ v.kind # "status_transition"
    BY <1>6, <2>1, EarnedRows
  <2> HIDE DEF x, y, n
  <2> QED
    BY <1>1, <1>2, <1>3, <1>5, <2>1, <2>2 DEF x, y, n
<1>9. CASE \E t \in Row : x.rows = <<t>> /\ Unearned(x, t) /\ Planned(x)
  <2>1. PICK t \in Row : x.rows = <<t>> /\ Unearned(x, t) /\ Planned(x)
    BY <1>9
  <2>2. row = t /\ y.rows = <<>> /\ t.kind = "status_transition"
    BY <1>7, <2>1, UnearnedRow
  <2> QED
    BY <1>1, <1>2, <1>3, <1>5, <2>1, <2>2
<1>10. CASE StaysPut(x) /\ Planned(x)
  <2>1. row = Reject(x.snap, x.gate) /\ y.rows = <<>> /\ ~IsV2(x.snap)
    BY <1>7, <1>10 DEF StaysPut
  <2>2. row.kind # "status_transition"
    BY <2>1 DEF Reject, Transit
  <2> QED
    BY <1>1, <1>2, <1>3, <1>5, <1>10, <2>1, <2>2
<1>11. CASE Judged(x)
  <2>1. PICK t \in Row : x.rows = <<t>> /\ Earned(x, LastRow, t)
    BY <1>11 DEF Judged
  <2>2. row = t /\ y.rows = <<>> /\ t.kind = "status_transition"
    BY <1>7, <2>1, EarnedRows
  <2> QED
    BY <1>1, <1>2, <1>3, <1>5, <1>11, <2>1, <2>2
<1> QED
  BY <1>4, <1>8, <1>9, <1>10, <1>11 DEF Planned

\* Where the projected rows end does not move when a row is appended.
LEMMA EndKept ==
    ASSUME TypeInv, NEW row \in Row, ledger' = Append(ledger, row),
           unprojected = {}, status = EndOf(TransitionRows), status' = status,
           unprojected' = IF row.kind = "status_transition" THEN {Len(ledger) + 1} ELSE {}
    PROVE  status' = EndOf(TransitionRows \ unprojected)'
<1> DEFINE n == Len(ledger) + 1
<1>1. /\ Len(ledger) \in Nat
      /\ \A i \in 1..Len(ledger) : ledger'[i] = ledger[i]
      /\ TransitionRows \subseteq 1..Len(ledger)
      /\ row.kind = "status_transition" => TransitionRows' = TransitionRows \cup {n}
      /\ row.kind # "status_transition" => TransitionRows' = TransitionRows
  BY Appended
<1>2. n \notin TransitionRows
  BY <1>1
<1>3. TransitionRows' \ unprojected' = TransitionRows
  BY <1>1, <1>2
<1>4. TransitionRows # {} => LastOf(TransitionRows) \in TransitionRows
  BY <1>1, LastOfIn
<1>5. TransitionRows # {} => ledger'[LastOf(TransitionRows)] = ledger[LastOf(TransitionRows)]
  BY <1>1, <1>4
<1> QED
  BY <1>3, <1>5 DEF EndOf

\* How far the plan is after the append.
LEMMA WritePhase ==
    ASSUME TypeInv, PathInv, NEW r \in Runs, NEW row \in Row, Writes(run[r], run'[r], row)
    PROVE  LET x == run[r]
               y == run'[r]
           IN  /\ \A v, t : (Earned(x, v, t) => Earned(y, v, t)) /\ (Unearned(x, t) => Unearned(y, t))
               /\ LastRow' = row /\ Len(ledger') = Len(ledger) + 1
               /\ Len(ledger) > 0 => ledger'[Len(ledger')  - 1] = LastRow
               /\ unprojected' = IF row.kind = "status_transition" THEN {Len(ledger) + 1} ELSE {}
               /\ status = EndOf(TransitionRows)
               /\ Reads(x)'
               /\ WritesVerdict(x, y, row) => Judged(x)'
               /\ WritesUnearned(x, y, row) => Moving(x)'
               /\ WritesStay(x, y, row) => Resting(x)'
               /\ WritesMove(x, y, row) => Moving(x)'
<1> DEFINE x == run[r]
           y == run'[r]
           n == Len(ledger) + 1
<1>1. /\ unprojected = {} /\ x.snap = status /\ status' = status
      /\ ledger' = Append(ledger, row)
      /\ x.pc = "enacting" /\ y.pc = "enacting" /\ SameRun(x, y)
  BY DEF Writes
<1>2. /\ Len(ledger) \in Nat /\ Len(ledger') = n /\ LastRow' = row
      /\ Len(ledger) > 0 => ledger'[Len(ledger)] = LastRow
      /\ n - 1 = Len(ledger)
  BY <1>1, Appended DEF LastRow
<1>3. \A v, t : (Earned(x, v, t) => Earned(y, v, t)) /\ (Unearned(x, t) => Unearned(y, t))
  BY <1>1, SamePlans
<1>4. y.snap = x.snap /\ y.op = x.op /\ y.gate = x.gate
  BY <1>1 DEF SameRun
<1>5. status = EndOf(TransitionRows)
  <2>1. TransitionRows \ unprojected = TransitionRows
    BY <1>1
  <2> QED
    BY <2>1 DEF PathInv
<1>6. Reads(x)'
  <2>1. Reads(x)
    BY DEF PathInv
  <2> QED
    BY <1>1, <1>4, <2>1 DEF Reads
<1>7. WritesVerdict(x, y, row) => row.kind # "status_transition" /\ unprojected' = {} /\ Judged(x)'
  <2> SUFFICES ASSUME WritesVerdict(x, y, row)
               PROVE  row.kind # "status_transition" /\ unprojected' = {} /\ Judged(x)'
    OBVIOUS
  <2>1. PICK t \in Row : unprojected' = {} /\ Earned(x, row, t) /\ y.rows = <<t>>
    BY DEF WritesVerdict
  <2>2. row.kind # "status_transition"
    BY <2>1, EarnedRows
  <2>3. Judged(x)'
    <3> HIDE DEF n
    <3>1. Len(ledger') > 0
      BY <1>2 DEF n
    <3> QED
      BY <1>1, <1>2, <1>3, <1>4, <2>1, <3>1 DEF Judged
  <2> QED
    BY <2>1, <2>2, <2>3
<1>8. WritesUnearned(x, y, row) => row.kind = "status_transition" /\ unprojected' = {n} /\ Moving(x)'
  <2> SUFFICES ASSUME WritesUnearned(x, y, row)
               PROVE  row.kind = "status_transition" /\ unprojected' = {n} /\ Moving(x)'
    OBVIOUS
  <2>1. unprojected' = {n} /\ y.await = n /\ Unearned(x, row) /\ y.rows = <<>>
    BY DEF WritesUnearned
  <2>2. row.kind = "status_transition"
    BY <2>1, UnearnedRow
  <2> HIDE DEF n
  <2>3. Moving(x)'
    BY <1>1, <1>2, <1>3, <1>4, <2>1, <2>2 DEF Moving
  <2> QED
    BY <2>1, <2>2, <2>3
<1>9. WritesStay(x, y, row) => row.kind # "status_transition" /\ unprojected' = {} /\ Resting(x)'
  BY DEF WritesStay, Resting, Reject, Transit
<1>10. WritesMove(x, y, row) => row.kind = "status_transition" /\ unprojected' = {n} /\ Moving(x)'
  <2> SUFFICES ASSUME WritesMove(x, y, row)
               PROVE  row.kind = "status_transition" /\ unprojected' = {n} /\ Moving(x)'
    OBVIOUS
  <2>1. unprojected' = {n} /\ y.await = n /\ Earned(x, LastRow, row) /\ y.rows = <<>> /\ Len(ledger) > 0
    BY DEF WritesMove, Judged
  <2>2. row.kind = "status_transition"
    BY <2>1, EarnedRows
  <2>3. n > 1
    BY <1>2, <2>1
  <2> HIDE DEF n
  <2>4. Earned(y, ledger'[n - 1], row)
    BY <1>2, <1>3, <2>1
  <2>5. Moving(x)'
    BY <1>1, <1>2, <1>4, <2>1, <2>2, <2>3, <2>4 DEF Moving
  <2> QED
    BY <2>1, <2>2, <2>5
<1>11. unprojected' = IF row.kind = "status_transition" THEN {n} ELSE {}
  BY <1>7, <1>8, <1>9, <1>10 DEF Writes
<1> QED
  BY <1>2, <1>3, <1>5, <1>6, <1>7, <1>8, <1>9, <1>10, <1>11

\* The projection of the last row moves the status to where the walk ends.
LEMMA EndProjected ==
    ASSUME TypeInv, NEW i \in unprojected, unprojected = {Len(ledger)}, Project(i)
    PROVE  /\ unprojected' = {} /\ TransitionRows' = TransitionRows
           /\ Len(ledger) \in TransitionRows /\ LastOf(TransitionRows) = Len(ledger)
           /\ status' = LastRow.to
           /\ status' = EndOf(TransitionRows \ unprojected)'
<1>1. i = Len(ledger) /\ ledger' = ledger /\ unprojected' = {} /\ status' = LastRow.to
  BY DEF Project, LastRow
<1>2. /\ ledger \in Seq(Row) /\ Len(ledger) \in Nat /\ DOMAIN ledger = 1..Len(ledger)
      /\ Len(ledger) \in 1..Len(ledger) /\ LastRow.kind = "status_transition"
  BY <1>1 DEF TypeInv, TypeOK, LastRow
<1>3. Len(ledger) \in TransitionRows /\ TransitionRows' = TransitionRows
  BY <1>1, <1>2 DEF TransitionRows, LastRow
<1>4. TransitionRows \in SUBSET Nat /\ \A j \in TransitionRows : j <= Len(ledger)
  BY <1>2 DEF TransitionRows
<1>5. LastOf(TransitionRows) = Len(ledger)
  BY <1>3, <1>4, LastOfIs
<1>6. TransitionRows' \ unprojected' = TransitionRows
  BY <1>1, <1>3
<1> QED
  BY <1>1, <1>3, <1>5, <1>6 DEF EndOf, LastRow

\* The invariant of the only run is the invariant.
LEMMA SolePath ==
    ASSUME OneAtATime, NEW r \in Runs, LedgerIsPath', VerdictBeforeMove',
           status' = EndOf(TransitionRows \ unprojected)', Reads(run[r])',
           Resting(run[r])' \/ Planned(run[r])' \/ Judged(run[r])' \/ Moving(run[r])'
    PROVE  PathInv'
<1>1. \A q \in Runs : q = r
  BY DEF OneAtATime
<1>2. \A q \in Runs : run'[q] = run'[r]
  BY <1>1
<1> QED
  BY <1>2 DEF PathInv

\* The ledger and the status stay, so the walk does.
LEMMA StillKept ==
    ASSUME PathInv, Still
    PROVE  /\ LedgerIsPath' /\ VerdictBeforeMove' /\ LastRow' = LastRow
           /\ status' = EndOf(TransitionRows \ unprojected)'
<1>1. ledger' = ledger /\ unprojected' = unprojected /\ status' = status
  BY DEF Still
<1>2. TransitionRows' = TransitionRows /\ LastRow' = LastRow
  BY <1>1 DEF TransitionRows, LastRow
<1>3. \A i : Previous(i)' = Previous(i)
  BY <1>2 DEF Previous
<1>4. LedgerIsPath'
  BY <1>1, <1>2, <1>3 DEF PathInv, LedgerIsPath
<1>5. VerdictBeforeMove'
  BY <1>1, <1>2 DEF PathInv, VerdictBeforeMove
<1>6. status' = EndOf(TransitionRows \ unprojected)'
  BY <1>1, <1>2 DEF PathInv, EndOf
<1> QED
  BY <1>2, <1>4, <1>5, <1>6

\* The steps of a run but for its appends and its waiting.
Proceeds(r, x, y) ==
    \/ Resolves(x, y) \/ SetsStatus(x, y) \/ Rests(x, y) \/ Claims(x, y) \/ Checkpoints(x, y)
    \/ Dispatches(r, x, y) \/ Judges(r, x, y) \/ Chains(x, y)

\* A run that waits keeps its plan.
LEMMA StaysKept ==
    ASSUME TypeInv, NEW r \in Runs, Still, Stays(run[r], run'[r])
    PROVE  LET x == run[r]
               y == run'[r]
           IN  /\ SameRun(x, y) /\ y.pc = x.pc
               /\ \A v, t : (Earned(x, v, t) => Earned(y, v, t)) /\ (Unearned(x, t) => Unearned(y, t))
               /\ Reads(x) => Reads(x)'
               /\ Resting(x) => Resting(x)'
               /\ Planned(x) => Planned(x)'
               /\ Judged(x) => Judged(x)'
               /\ Moving(x) => Moving(x)'
<1> DEFINE x == run[r]
           y == run'[r]
<1>1. SameRun(x, y) /\ y.pc = x.pc /\ y.rows = x.rows /\ (x.await \in unprojected => y.await = x.await)
  BY DEF Stays, SamePlan, SameRun
<1>2. \A v, t : (Earned(x, v, t) => Earned(y, v, t)) /\ (Unearned(x, t) => Unearned(y, t))
  BY <1>1, SamePlans
<1>3. ledger' = ledger /\ unprojected' = unprojected /\ status' = status /\ LastRow' = LastRow
  BY DEF Still, LastRow
<1>4. Reads(x) => Reads(x)'
  BY <1>1, <1>3 DEF Reads, SameRun
<1>5. (Resting(x) => Resting(x)') /\ (Planned(x) => Planned(x)')
  BY <1>1, <1>2, <1>3 DEF Resting, Planned, StaysPut, SameRun
<1>6. (Judged(x) => Judged(x)') /\ (Moving(x) => Moving(x)')
  BY <1>1, <1>2, <1>3 DEF Judged, Moving, SameRun
<1> QED
  BY <1>1, <1>2, <1>4, <1>5, <1>6

\* A run that goes on had nothing to write, and it has a plan or still nothing to write.
LEMMA ProceedsTo ==
    ASSUME TypeInv, PathInv, NEW r \in Runs, Still, Proceeds(r, run[r], run'[r])
    PROVE  /\ unprojected' = {} /\ unprojected = {} /\ status' = status
           /\ run[r].pc # "enacting" \/ Done(run[r])
           /\ Reads(run[r])' /\ (Resting(run[r])' \/ Planned(run[r])')
<1> DEFINE x == run[r]
           y == run'[r]
<1>1. /\ Reads(x) /\ (Resting(x) \/ Planned(x) \/ Judged(x) \/ Moving(x))
      /\ x \in Run /\ PhaseOK(r)
  BY DEF PathInv, TypeInv, TypeOK
<1>2. x.pc # "enacting" \/ Done(x)
  BY DEF Proceeds, Resolves, SetsStatus, Rests, Claims, Checkpoints, Dispatches, Judges, Chains
<1>3. unprojected' = {} /\ unprojected = {} /\ status' = status
  <2>1. 0 \notin unprojected
    BY DEF TypeInv, TypeOK
  <2> QED
    BY <1>1, <1>2, <2>1 DEF Done, Resting, Planned, Judged, Moving, StaysPut, Still
<1>4. Reads(x)'
  BY <1>1, <1>3
     DEF Proceeds, Reads, Resolves, SetsStatus, Rests, Claims, Checkpoints, Dispatches, Judges, Chains
<1>5. Resting(x)' \/ Planned(x)'
  <2>1. CASE SetsStatus(x, y)
    <3>1. PICK to \in States : UngatedAdvance(status, to) /\ y.rows = <<Transit(NoState, to, NoGate)>>
      BY <2>1 DEF SetsStatus
    <3>2. Transit(NoState, to, NoGate) \in Row
      BY DEF Transit, Row, AnyRow
    <3>3. y.pc = "enacting" /\ y.snap = status
      BY <2>1 DEF SetsStatus
    <3>4. Unearned(y, Transit(NoState, to, NoGate))
      BY <3>1, <3>3 DEF Unearned
    <3>5. Planned(x)'
      BY <1>3, <3>1, <3>2, <3>3, <3>4 DEF Planned
    <3> QED
      BY <3>5
  <2>2. CASE Checkpoints(x, y)
    <3> DEFINE hop == Transit(x.snap, CheckpointTo(x.snap), NoGate)
    <3>1. /\ x.pc = "resolved" /\ HasCheckpoint(x.snap) /\ y.rows = <<hop>>
          /\ y.pc = "enacting" /\ y.snap = x.snap
      BY <2>2 DEF Checkpoints
    <3>2. x.snap \in States /\ x.snap = status
      BY <1>1, <3>1 DEF PhaseOK, Reads
    <3>3. hop \in Row
      BY <3>1, <3>2, CheckpointEdge DEF Transit, Row, AnyRow
    <3>4. Unearned(y, hop)
      BY <3>1 DEF Unearned
    <3>5. Planned(x)'
      <4> HIDE DEF hop
      <4> QED
        BY <1>3, <3>1, <3>2, <3>3, <3>4 DEF Planned
    <3> QED
      BY <3>5
  <2>3. CASE Judges(r, x, y)
    <3>1. x.pc = "judging" /\ y.pc = "enacting" /\ y.snap = x.snap /\ y.op = x.op /\ y.gate = x.gate
      BY <2>3 DEF Judges
    <3>2. \/ y.rows = <<>>
          \/ \E v, t \in Row : y.rows = <<v, t>> /\ Earned(y, v, t)
          \/ StaysPut(y)
      BY <1>1, <1>3, <2>3, <3>1, PlanIs
    <3>3. CASE y.rows = <<>>
      BY <1>3, <3>3 DEF Resting
    <3>4. CASE y.rows # <<>>
      <4>1. x.op # "chained"
        <5>1. x.op = "chained" => x.gate = NoGate
          BY <1>1 DEF Reads
        <5>2. ~HasGatedEdge(y.snap, NoGate)
          BY DEF HasGatedEdge, GatedEdges
        <5>3. x.op = "review" \/ HasGatedEdge(y.snap, y.gate)
          BY <3>1, <3>2, <3>4 DEF Earned, StaysPut
        <5> QED
          BY <3>1, <5>1, <5>2, <5>3
      <4>2. y.snap = status
        BY <1>1, <3>1, <4>1 DEF Reads
      <4>3. Planned(x)'
        BY <1>3, <3>1, <3>2, <3>4, <4>2 DEF Planned, StaysPut
      <4> QED
        BY <4>3
    <3> QED
      BY <3>3, <3>4
  <2>4. CASE ~SetsStatus(x, y) /\ ~Checkpoints(x, y) /\ ~Judges(r, x, y)
    BY <1>3, <2>4 DEF Proceeds, Resting, Resolves, Rests, Claims, Dispatches, Chains
  <2> QED
    BY <2>1, <2>2, <2>3, <2>4
<1> QED
  BY <1>2, <1>3, <1>4, <1>5

LEMMA PathNext ==
    ASSUME OneAtATime, TypeInv, PathInv, [Next]_vars
    PROVE  PathInv'
<1>1. PICK r : r \in Runs /\ Runs = {r}
  BY DEF OneAtATime
<1> DEFINE x == run[r]
           y == run'[r]
<1>2. /\ LedgerIsPath /\ VerdictBeforeMove /\ status = EndOf(TransitionRows \ unprojected)
      /\ Reads(x) /\ (Resting(x) \/ Planned(x) \/ Judged(x) \/ Moving(x))
      /\ x \in Run /\ PhaseOK(r)
  BY <1>1 DEF PathInv, TypeInv, TypeOK
<1>3. CASE Still /\ Stays(x, y)
  BY <1>1, <1>2, <1>3, StaysKept, StillKept, SolePath
<1>4. CASE Still /\ Proceeds(r, x, y)
  BY <1>1, <1>4, ProceedsTo, StillKept, SolePath
<1>5. CASE AppendLedger(r)
  <2>1. PICK row \in Row : Writes(x, y, row)
    BY <1>1, <1>5, WriteStep
  <2>2. unprojected = {} /\ x.snap = status /\ status' = status /\ ledger' = Append(ledger, row)
    BY <2>1 DEF Writes
  <2>3. /\ status = EndOf(TransitionRows)
        /\ unprojected' = IF row.kind = "status_transition" THEN {Len(ledger) + 1} ELSE {}
        /\ Reads(x)' /\ (Resting(x)' \/ Judged(x)' \/ Moving(x)')
    BY <1>1, <2>1, WritePhase DEF Writes
  <2>4. \/ row.kind # "status_transition"
        \/ row.from = NoState
        \/ row.from = status /\ HasCheckpoint(status)
        \/ /\ row.from = status /\ Len(ledger) > 0
           /\ LastRow.from = row.from /\ LastRow.gate = row.gate
           /\ LastRow.kind = "review_accept" => LastRow.to = row.to
           /\ LastRow.kind = "review_reject" => IsV2(row.from)
    <3>1. CASE WritesVerdict(x, y, row)
      BY <3>1, EarnedRows DEF WritesVerdict
    <3>2. CASE WritesUnearned(x, y, row)
      BY <2>2, <3>2, UnearnedRow DEF WritesUnearned
    <3>3. CASE WritesStay(x, y, row)
      BY <3>3 DEF WritesStay, Reject, Transit
    <3>4. CASE WritesMove(x, y, row)
      BY <2>2, <3>4, EarnedRows DEF WritesMove, Judged
    <3> QED
      BY <2>1, <3>1, <3>2, <3>3, <3>4 DEF Writes
  <2>5. LedgerIsPath'
    BY <1>2, <2>2, <2>3, <2>4, PathExtends
  <2>6. VerdictBeforeMove'
    BY <1>2, <2>2, <2>4, VerdictExtends
  <2>7. status' = EndOf(TransitionRows \ unprojected)'
    BY <2>2, <2>3, EndKept
  <2> QED
    BY <1>1, <2>3, <2>5, <2>6, <2>7, SolePath
<1>6. ASSUME NEW i \in unprojected, Project(i) PROVE PathInv'
  <2>1. x.pc = "enacting" /\ x.rows = <<>> /\ unprojected = {Len(ledger)}
    BY <1>2, <1>6 DEF Resting, Planned, Judged, Moving
  <2>2. /\ ledger' = ledger /\ y = x /\ unprojected' = {}
        /\ status' = EndOf(TransitionRows \ unprojected)'
    BY <1>6, <2>1, EndProjected DEF Project
  <2>3. LedgerIsPath' /\ VerdictBeforeMove'
    BY <1>2, <2>2 DEF LedgerIsPath, VerdictBeforeMove, TransitionRows, Previous
  <2>4. Reads(x)' /\ Resting(x)'
    BY <1>2, <2>1, <2>2 DEF Reads, Resting
  <2> QED
    BY <1>1, <2>2, <2>3, <2>4, SolePath
<1> QED
  BY <1>1, <1>3, <1>4, <1>5, <1>6, SoleStep DEF Proceeds

LEMMA PathAlways ==
    ASSUME OneAtATime
    PROVE  Spec => [](TypeInv /\ PathInv)
<1>1. Init => TypeInv /\ PathInv
  BY TypeInit, PathInit
<1>2. TypeInv /\ PathInv /\ [Next]_vars => (TypeInv /\ PathInv)'
  BY TypeNext, PathNext
<1> QED
  BY <1>1, <1>2, PTL DEF Spec

\* The ledger of a story that one operator works on is one walk through its workflow, each
\* gate's move is preceded by the verdict that earns it, and at rest the status column shows
\* where the walk ends: what invokeLedgerAppend writes in two transactions is never seen
\* apart by the command that asked for it.
THEOREM WalkTold ==
    OneAtATime => (Spec => [](LedgerIsPath /\ VerdictBeforeMove /\ StatusIsLatest))
<1> SUFFICES ASSUME OneAtATime
             PROVE  Spec => [](LedgerIsPath /\ VerdictBeforeMove /\ StatusIsLatest)
  OBVIOUS
<1>1. TypeInv /\ PathInv => LedgerIsPath /\ VerdictBeforeMove /\ StatusIsLatest
  <2> SUFFICES ASSUME PathInv, Quiet
               PROVE  status = IF TransitionRows = {} THEN InitialStatus
                               ELSE ledger[LastOf(TransitionRows)].to
    BY DEF PathInv, StatusIsLatest
  <2>1. TransitionRows \ unprojected = TransitionRows
    BY DEF Quiet
  <2> QED
    BY <2>1 DEF PathInv, EndOf
<1> QED
  BY <1>1, PathAlways, PTL

-----------------------------------------------------------------------------
(* The rows the server has projected, and what comes before them.          *)

LEMMA CommittedTyped == TypeInv => Committed \in Seq(Row)
<1> SUFFICES ASSUME TypeInv, TransitionRows \ unprojected # {}
             PROVE  SubSeq(ledger, 1, LastOf(TransitionRows \ unprojected)) \in Seq(Row)
  BY DEF Committed
<1>1. ledger \in Seq(Row) /\ Len(ledger) \in Nat /\ DOMAIN ledger = 1..Len(ledger)
  BY DEF TypeInv, TypeOK
<1>2. TransitionRows \ unprojected \in SUBSET (1..Len(ledger))
  BY <1>1 DEF TransitionRows
<1>3. LastOf(TransitionRows \ unprojected) \in 1..Len(ledger)
  BY <1>1, <1>2, LastOfIn
<1>4. LastOf(TransitionRows \ unprojected) \in 0..Len(ledger)
  BY <1>1, <1>3
<1> QED
  BY <1>1, <1>4, PrefixTyped

\* What is committed does not change when a row is appended.
LEMMA CommittedKept ==
    ASSUME TypeInv, NEW row \in Row, ledger' = Append(ledger, row), unprojected = {},
           unprojected' = IF row.kind = "status_transition" THEN {Len(ledger) + 1} ELSE {}
    PROVE  Committed' = Committed
<1> DEFINE n == Len(ledger) + 1
<1>1. /\ Len(ledger) \in Nat /\ ledger \in Seq(Row)
      /\ TransitionRows \subseteq 1..Len(ledger)
      /\ row.kind = "status_transition" => TransitionRows' = TransitionRows \cup {n}
      /\ row.kind # "status_transition" => TransitionRows' = TransitionRows
  BY Appended DEF TypeInv, TypeOK
<1>2. n \notin TransitionRows
  BY <1>1
<1>3. TransitionRows' \ unprojected' = TransitionRows /\ TransitionRows \ unprojected = TransitionRows
  BY <1>1, <1>2
<1>4. TransitionRows # {} => LastOf(TransitionRows) \in 1..Len(ledger)
  BY <1>1, LastOfIn
<1>5. ASSUME NEW k \in 1..Len(ledger) PROVE SubSeq(ledger', 1, k) = SubSeq(ledger, 1, k)
  BY <1>1, <1>5
<1> QED
  BY <1>3, <1>4, <1>5 DEF Committed

\* Once the last row is projected the whole ledger is committed.
LEMMA CommittedAll ==
    ASSUME TypeInv, NEW i \in unprojected, unprojected = {Len(ledger)}, Project(i)
    PROVE  Committed' = ledger
<1>1. /\ unprojected' = {} /\ TransitionRows' = TransitionRows
      /\ Len(ledger) \in TransitionRows /\ LastOf(TransitionRows) = Len(ledger)
  BY EndProjected
<1>2. ledger' = ledger /\ ledger \in Seq(Row)
  BY DEF Project, TypeInv, TypeOK
<1>3. TransitionRows' \ unprojected' = TransitionRows
  BY <1>1
<1>4. SubSeq(ledger, 1, Len(ledger)) = ledger
  BY <1>2
<1> QED
  BY <1>1, <1>2, <1>3, <1>4 DEF Committed

-----------------------------------------------------------------------------
(* The counting invariant: what the bound check read still holds when the  *)
(* verdict is enacted, and a projected move takes its verdict's count with *)
(* it.                                                                     *)

Written(s) == CountEdgeRejects(ledger, s)
Counts(s) == CountEdgeRejects(Committed, s)

\* Every reject of a reviewed state is committed; or all are but the verdict v.
Settled == \A s \in States : IsV2(s) => Written(s) = Counts(s)
Pending(v) == \A s \in States : IsV2(s) => Written(s) = Counts(s) + Adds(v, s)

\* The bound check of a run that will enact a reviewed edge.
Checked(x) ==
    x.op = "review" /\ IsV2(x.snap) /\ GateMatches(x.snap, x.gate) =>
        /\ x.bound = MaxIterations(x.snap)
        /\ x.bound > 0 => x.prior = Counts(x.snap)

CountedMove(x) ==
    \/ Unearned(x, LastRow) /\ Settled
    \/ /\ Len(ledger) > 1 /\ Earned(x, ledger[Len(ledger) - 1], LastRow)
       /\ IF LastRow.exhausted THEN \A s \in States : IsV2(s) => Written(s) = 0
          ELSE Pending(ledger[Len(ledger) - 1])

Counting(x) ==
    \/ Resting(x) /\ Settled /\ (x.pc = "judging" => Checked(x))
    \/ Planned(x) /\ Settled /\ Checked(x)
    \/ Judged(x) /\ Pending(LastRow) /\ Checked(x)
    \/ Moving(x) /\ CountedMove(x) /\ Checked(x)

WithinBounds == \A s \in States : MaxIterations(s) > 0 => Counts(s) < MaxIterations(s)

CountInv == WithinBounds /\ \A r \in Runs : Counting(run[r])

LEMMA CountsTyped ==
    ASSUME TypeInv, NEW s
    PROVE  Written(s) \in Nat /\ Counts(s) \in Nat
  BY CommittedTyped, CountTyped DEF Written, Counts, TypeInv, TypeOK

LEMMA CountInit == Init => CountInv
<1> SUFFICES ASSUME Init PROVE CountInv
  OBVIOUS
<1>1. ledger = <<>> /\ unprojected = {} /\ DOMAIN ledger = {} /\ <<>> \in Seq(Row)
  BY DEF Init
<1>2. Committed = <<>>
  BY <1>1 DEF Committed, TransitionRows
<1>3. ASSUME NEW s PROVE CountEdgeRejects(<<>>, s) = 0
  <2>1. Counted(<<>>, s) = {}
    BY DEF Counted
  <2> QED
    BY <1>1, <2>1, CountedFinite, FS_EmptySet
<1>4. \A s : Written(s) = 0 /\ Counts(s) = 0
  BY <1>1, <1>2, <1>3 DEF Written, Counts
<1>5. WithinBounds
  BY <1>4, MaxTyped DEF WithinBounds
<1>6. \A r \in Runs : run[r].pc = "idle" /\ Resting(run[r])
  BY <1>1 DEF Init, Idle, Resting
<1> QED
  BY <1>4, <1>5, <1>6 DEF CountInv, Counting, Settled

\* The ledger stays, so the counts do.
LEMMA CountsKept ==
    ASSUME Still
    PROVE  /\ Committed' = Committed /\ Settled' = Settled
           /\ \A s : Written(s)' = Written(s) /\ Counts(s)' = Counts(s)
           /\ WithinBounds' = WithinBounds
<1>1. ledger' = ledger /\ unprojected' = unprojected
  BY DEF Still
<1>2. TransitionRows' = TransitionRows
  BY <1>1 DEF TransitionRows
<1>3. Committed' = Committed
  BY <1>1, <1>2 DEF Committed
<1>4. \A s : Written(s)' = Written(s) /\ Counts(s)' = Counts(s)
  BY <1>1, <1>3 DEF Written, Counts
<1> QED
  BY <1>3, <1>4 DEF Settled, WithinBounds

\* What an appended row does to the counts.
LEMMA CountsAppended ==
    ASSUME TypeInv, NEW row \in Row, ledger' = Append(ledger, row), unprojected = {},
           unprojected' = IF row.kind = "status_transition" THEN {Len(ledger) + 1} ELSE {}
    PROVE  /\ \A s : Counts(s)' = Counts(s)
           /\ ~row.exhausted => \A s : Written(s)' = Written(s) + Adds(row, s)
           /\ row.exhausted => \A s : Written(s)' = 0
           /\ WithinBounds' = WithinBounds
<1>1. ledger \in Seq(Row)
  BY DEF TypeInv, TypeOK
<1>2. \A s : Counts(s)' = Counts(s)
  BY CommittedKept DEF Counts
<1> QED
  BY <1>1, <1>2, CountAppended, CountEscalated DEF Written, WithinBounds

LEMMA SoleCount ==
    ASSUME OneAtATime, NEW r \in Runs, WithinBounds', Counting(run[r])'
    PROVE  CountInv'
<1>1. \A q \in Runs : q = r
  BY DEF OneAtATime
<1>2. \A q \in Runs : run'[q] = run'[r]
  BY <1>1
<1> QED
  BY <1>2 DEF CountInv

\* The bound check reads the declared bound and all the rejects.
LEMMA BoundRead ==
    ASSUME CountsInFull, TypeInv, Settled, NEW r \in Runs, NEW y, Dispatches(r, run[r], y)
    PROVE  Checked(y)
<1> DEFINE x == run[r]
<1>1. PICK c \in BoundChecks(r) : y.bound = c.bound /\ y.prior = c.prior
  BY DEF Dispatches
<1>2. y.op = x.op /\ y.snap = x.snap /\ y.gate = x.gate /\ x.snap \in States
  BY DEF Dispatches, TypeInv, PhaseOK
<1>3. SUFFICES ASSUME x.op = "review", IsV2(x.snap), GateMatches(x.snap, x.gate)
               PROVE  /\ c.bound = MaxIterations(x.snap)
                      /\ c.bound > 0 => c.prior = Counts(x.snap)
  BY <1>1, <1>2 DEF Checked
<1>4. EnactV2(r)
  BY <1>3 DEF EnactV2
<1>5. CASE LoopBounded(r)
  BY <1>2, <1>3, <1>5 DEF BoundChecks, ReadableCounts, CountsInFull, Settled, Written
<1>6. CASE ~LoopBounded(r)
  BY <1>2, <1>4, <1>6, MaxTyped DEF BoundChecks, LoopBounded
<1> QED
  BY <1>5, <1>6

\* What a projected move does: the counts it commits stay within their bounds, and the story
\* takes a step of its lifecycle.
LEMMA Commits ==
    ASSUME TypeInv, WithinBounds, NEW r \in Runs, Moving(run[r]), CountedMove(run[r]),
           Checked(run[r]), NEW i \in unprojected, Project(i)
    PROVE  WithinBounds' /\ Settled'
<1> DEFINE x == run[r]
<1>1. unprojected = {Len(ledger)} /\ ledger' = ledger
  BY DEF Moving, Project
<1>2. \A s : Counts(s)' = Written(s) /\ Written(s)' = Written(s)
  BY <1>1, CommittedAll DEF Counts, Written
<1>3. Settled'
  BY <1>2 DEF Settled
<1>4. SUFFICES ASSUME NEW s \in States, MaxIterations(s) > 0
               PROVE  Written(s) < MaxIterations(s)
  BY <1>2, <1>3 DEF WithinBounds
<1>5. IsV2(s) /\ Counts(s) < MaxIterations(s) /\ MaxIterations(s) \in Nat /\ Counts(s) \in Nat
  BY <1>4, MaxTyped, CountsTyped DEF WithinBounds
<1>6. CASE Settled
  BY <1>5, <1>6 DEF Settled
<1>7. CASE LastRow.exhausted /\ \A q \in States : IsV2(q) => Written(q) = 0
  BY <1>4, <1>5, <1>7
<1>8. CASE /\ Len(ledger) > 1 /\ Earned(x, ledger[Len(ledger) - 1], LastRow)
           /\ ~LastRow.exhausted /\ Pending(ledger[Len(ledger) - 1])
  <2> DEFINE v == ledger[Len(ledger) - 1]
  <2>1. Written(s) = Counts(s) + Adds(v, s)
    BY <1>5, <1>8 DEF Pending
  <2>2. CASE v.kind = "review_reject" /\ v.from = s
    <3>1. v.from = x.snap /\ IsV2(x.snap)
      BY <1>8, <2>2, EarnedRows
    <3>2. x.op = "review" /\ GateMatches(x.snap, x.gate) /\ ~BoundSpent(x.bound, x.prior)
      BY <1>8, <2>2, <3>1 DEF Earned, Accept, Escalate, Transit
    <3>3. x.bound = MaxIterations(s) /\ x.prior = Counts(s)
      BY <1>4, <2>2, <3>1, <3>2 DEF Checked
    <3> QED
      BY <1>4, <1>5, <2>1, <2>2, <3>2, <3>3 DEF BoundSpent, Adds
  <2>3. CASE ~(v.kind = "review_reject" /\ v.from = s)
    BY <1>5, <2>1, <2>3 DEF Adds
  <2> QED
    BY <2>2, <2>3
<1> QED
  BY <1>6, <1>7, <1>8 DEF CountedMove

\* A plan not begun is not one whose verdict is written.
LEMMA PhasesApart ==
    ASSUME TypeInv, NEW r \in Runs, Planned(run[r])
    PROVE  ~Resting(run[r]) /\ ~Judged(run[r]) /\ ~Moving(run[r])
<1> DEFINE x == run[r]
<1>1. x.snap \in States /\ x.snap # NoState
  BY WorkflowAssumption DEF Planned, TypeInv, PhaseOK, WellFormed
<1>2. x.rows # <<>>
  BY SMTT(30) DEF Planned, StaysPut
<1>3. ASSUME NEW t, NEW v, x.rows = <<t>>, Earned(x, v, t)
      PROVE  FALSE
  <2>1. t.kind = "status_transition" /\ t.from = x.snap /\ t.gate = x.gate
    BY <1>3, EarnedRows
  <2>2. x.rows[1] = t /\ Len(x.rows) = 1
    BY <1>3
  <2>3. CASE \E p, q \in Row : x.rows = <<p, q>>
    BY <2>2, <2>3
  <2>4. CASE StaysPut(x)
    BY <2>1, <2>2, <2>4 DEF StaysPut, Reject, Transit
  <2>5. CASE \E u \in Row : x.rows = <<u>> /\ Unearned(x, u)
    <3>1. Unearned(x, t)
      BY <2>2, <2>5
    <3>2. HasCheckpoint(x.snap) /\ t.gate = NoGate
      BY <1>1, <2>1, <3>1 DEF Unearned, Transit
    <3>3. HasGatedEdge(x.snap, x.gate)
      BY <1>3, <3>2 DEF Earned, HasCheckpoint
    <3> QED
      BY <2>1, <3>2, <3>3 DEF HasGatedEdge, GatedEdges
  <2> QED
    BY <2>3, <2>4, <2>5 DEF Planned
<1> QED
  BY <1>2, <1>3 DEF Planned, Resting, Judged, Moving

LEMMA CountNext ==
    ASSUME OneAtATime, CountsInFull, TypeInv, PathInv, CountInv, [Next]_vars
    PROVE  CountInv'
<1>1. PICK r : r \in Runs /\ Runs = {r}
  BY DEF OneAtATime
<1> DEFINE x == run[r]
           y == run'[r]
<1>2. WithinBounds /\ Counting(x)
  BY <1>1 DEF CountInv
<1>3. CASE Still /\ Stays(x, y)
  <2>1. SameRun(x, y) /\ y.pc = x.pc /\ \A v, t : (Earned(x, v, t) => Earned(y, v, t)) /\ (Unearned(x, t) => Unearned(y, t))
    BY <1>1, <1>3, StaysKept
  <2>2. (Checked(x) => Checked(x)') /\ (\A v : Pending(v) => Pending(v)')
    BY <1>3, <2>1, CountsKept DEF Checked, SameRun, Pending
  <2>3. LastRow' = LastRow /\ ledger' = ledger
    BY <1>3 DEF Still, LastRow
  <2>4. CountedMove(x) => CountedMove(x)'
    BY <1>3, <2>1, <2>2, <2>3, CountsKept DEF CountedMove, Pending
  <2>5. Pending(LastRow) => Pending(LastRow)'
    BY <2>2, <2>3
  <2>6. Counting(x)'
    BY <1>1, <1>2, <1>3, <2>1, <2>2, <2>4, <2>5, StaysKept, CountsKept DEF Counting
  <2> QED
    BY <1>1, <1>2, <1>3, <2>6, CountsKept, SoleCount
<1>4. CASE Still /\ Proceeds(r, x, y)
  <2>1. /\ unprojected = {} /\ (x.pc # "enacting" \/ Done(x))
        /\ Resting(x)' \/ Planned(x)'
    BY <1>1, <1>4, ProceedsTo
  <2>2. Settled /\ (x.pc = "judging" => Checked(x))
    BY <1>2, <2>1 DEF Counting, Planned, Judged, Moving, Done, StaysPut
  <2>3. Settled' /\ WithinBounds' /\ \A s : Counts(s)' = Counts(s)
    BY <1>2, <1>4, <2>2, CountsKept
  <2>4. y.pc \in {"judging", "enacting"} => Checked(x)'
    <3>1. CASE Dispatches(r, x, y)
      <4>1. Checked(y)
        BY <1>1, <2>2, <3>1, BoundRead
      <4> QED
        BY <2>3, <4>1 DEF Checked
    <3>2. CASE Judges(r, x, y)
      BY <2>2, <2>3, <3>2 DEF Judges, Checked
    <3>3. CASE ~Dispatches(r, x, y) /\ ~Judges(r, x, y)
      BY <1>4, <3>3 DEF Proceeds, Resolves, SetsStatus, Rests, Claims, Checkpoints, Chains, Checked
    <3> QED
      BY <3>1, <3>2, <3>3
  <2>5. Counting(x)'
    BY <2>1, <2>3, <2>4 DEF Counting, Planned
  <2> QED
    BY <1>1, <2>3, <2>5, SoleCount
<1>5. CASE AppendLedger(r)
  <2>1. PICK row \in Row : Writes(x, y, row)
    BY <1>1, <1>5, WriteStep
  <2>2. /\ unprojected = {} /\ ledger' = Append(ledger, row) /\ SameRun(x, y)
        /\ x.pc = "enacting" /\ y.pc = "enacting"
    BY <2>1 DEF Writes
  <2>3. unprojected' = IF row.kind = "status_transition" THEN {Len(ledger) + 1} ELSE {}
    BY <1>1, <2>1, WritePhase
  <2>4. /\ \A s : Counts(s)' = Counts(s) /\ Counts(s) \in Nat
        /\ ~row.exhausted => \A s : Written(s)' = Written(s) + Adds(row, s)
        /\ row.exhausted => \A s : Written(s)' = 0
        /\ WithinBounds'
    BY <1>2, <2>2, <2>3, CountsAppended, CountsTyped
  <2>5. LastRow' = row
    BY <1>1, <2>1, WritePhase
  <2>6. Checked(x) => Checked(x)'
    BY <2>2, <2>4 DEF Checked, SameRun
  <2>7. CASE WritesVerdict(x, y, row)
    <3>1. Settled /\ Checked(x) /\ ~row.exhausted
      BY <1>1, <1>2, <2>7, PhasesApart, EarnedRows DEF WritesVerdict, Counting
    <3>2. Pending(row)'
      BY <2>4, <3>1 DEF Pending, Settled
    <3>3. Judged(x)'
      BY <1>1, <2>1, <2>7, WritePhase
    <3>4. Counting(x)'
      BY <2>5, <2>6, <3>1, <3>2, <3>3 DEF Counting
    <3> QED
      BY <1>1, <2>4, <3>4, SoleCount
  <2>8. CASE WritesUnearned(x, y, row)
    <3>1. Settled /\ Checked(x)
      BY <1>1, <1>2, <2>8, PhasesApart DEF WritesUnearned, Counting
    <3>2. ~row.exhausted /\ row.kind = "status_transition"
      BY <2>8, UnearnedRow DEF WritesUnearned
    <3>3. Settled'
      BY <2>4, <3>1, <3>2 DEF Settled, Adds
    <3>4. Moving(x)' /\ Unearned(y, row)
      BY <1>1, <2>1, <2>8, WritePhase DEF WritesUnearned
    <3>5. Counting(x)'
      BY <2>5, <2>6, <3>1, <3>3, <3>4 DEF Counting, CountedMove
    <3> QED
      BY <1>1, <2>4, <3>5, SoleCount
  <2>9. CASE WritesStay(x, y, row)
    <3>1. Settled
      BY <1>1, <1>2, <2>9, PhasesApart DEF WritesStay, Counting
    <3>2. ~row.exhausted /\ ~IsV2(row.from)
      BY <2>9 DEF WritesStay, Reject, Transit
    <3>3. Settled'
      BY <2>4, <3>1, <3>2 DEF Settled, Adds
    <3>4. Counting(x)'
      BY <1>1, <2>1, <2>2, <2>9, <3>3, WritePhase DEF Counting
    <3> QED
      BY <1>1, <2>4, <3>4, SoleCount
  <2>10. CASE WritesMove(x, y, row)
    <3>1. Pending(LastRow) /\ Checked(x)
      BY <1>1, <1>2, <2>10, PhasesApart DEF WritesMove, Counting, Judged, Resting, Moving
    <3>2. row.kind = "status_transition" /\ Earned(y, LastRow, row) /\ Len(ledger) > 0
      BY <1>1, <2>1, <2>10, WritePhase, EarnedRows DEF WritesMove, Judged
    <3>3. Moving(x)' /\ Len(ledger') > 1 /\ ledger'[Len(ledger') - 1] = LastRow
      BY <1>1, <2>1, <2>10, <3>2, WritePhase DEF Moving, Writes, TypeInv, TypeOK
    <3>4. ~row.exhausted => \A s \in States : IsV2(s) => Written(s)' = Counts(s)' + Adds(LastRow, s)
      BY <2>4, <3>1, <3>2 DEF Pending, Adds
    <3>5. CountedMove(x)'
      BY <2>4, <2>5, <3>2, <3>3, <3>4 DEF CountedMove, Pending
    <3>6. Counting(x)'
      BY <2>6, <3>1, <3>3, <3>5 DEF Counting
    <3> QED
      BY <1>1, <2>4, <3>6, SoleCount
  <2> QED
    BY <2>1, <2>7, <2>8, <2>9, <2>10 DEF Writes
<1>6. ASSUME NEW i \in unprojected, Project(i) PROVE CountInv'
  <2>1. Moving(x) /\ CountedMove(x) /\ Checked(x)
    BY <1>2, <1>6 DEF Counting, Resting, Planned, Judged
  <2>2. WithinBounds' /\ Settled'
    BY <1>1, <1>2, <1>6, <2>1, Commits
  <2>3. x.pc = "enacting" /\ x.rows = <<>> /\ unprojected' = {} /\ y = x
    BY <1>6, <2>1 DEF Moving, Project
  <2>4. Counting(x)'
    BY <2>2, <2>3 DEF Counting, Resting
  <2> QED
    BY <1>1, <2>2, <2>4, SoleCount
<1> QED
  BY <1>1, <1>3, <1>4, <1>5, <1>6, SoleStep DEF Proceeds

LEMMA CountsAlways ==
    ASSUME OneAtATime, CountsInFull
    PROVE  Spec => [](TypeInv /\ PathInv /\ CountInv)
<1>1. Init => TypeInv /\ PathInv /\ CountInv
  BY TypeInit, PathInit, CountInit
<1>2. TypeInv /\ PathInv /\ CountInv /\ [Next]_vars => (TypeInv /\ PathInv /\ CountInv)'
  BY TypeNext, PathNext, CountNext
<1> QED
  BY <1>1, <1>2, PTL DEF Spec

\* At rest no bounded fail loop is spent: whatever the workflow, the reject that spends it also
\* escalates, so the bound check never refuses a review of a story at rest.
THEOREM LoopsEscalate == OneAtATime /\ CountsInFull => (Spec => []ExhaustionEscalates)
<1> SUFFICES ASSUME OneAtATime, CountsInFull PROVE Spec => []ExhaustionEscalates
  OBVIOUS
<1>1. TypeInv /\ PathInv /\ CountInv => ExhaustionEscalates
  <2> SUFFICES ASSUME CountInv, Quiet, NEW s \in States, MaxIterations(s) > 0
               PROVE  Written(s) < MaxIterations(s)
    BY LeftTyped DEF ExhaustionEscalates, Written
  <2>1. PICK r : r \in Runs /\ Counting(run[r]) /\ run[r].pc = "idle"
    BY DEF OneAtATime, CountInv, Quiet
  <2>2. Settled
    BY <2>1 DEF Counting, Planned, Judged, Moving
  <2>3. IsV2(s)
    BY MaxTyped
  <2> QED
    BY <2>2, <2>3 DEF CountInv, WithinBounds, Settled
<1> QED
  BY <1>1, CountsAlways, PTL

\* One operator working alone, with nothing lost: in every workflow every move of the story is
\* earned, its status is where its ledger ends, and a spent loop has escalated.
THEOREM MovesAreEarned == OneAtATime /\ CountsInFull => (Spec => []MovesEarned)
<1> SUFFICES ASSUME OneAtATime, CountsInFull PROVE Spec => []MovesEarned
  OBVIOUS
<1>1. Spec => [](LedgerIsPath /\ VerdictBeforeMove /\ StatusIsLatest)
  BY WalkTold
<1>2. Spec => []ExhaustionEscalates
  BY LoopsEscalate
<1> QED
  BY <1>1, <1>2, PTL DEF MovesEarned

-----------------------------------------------------------------------------
(* The review machinery implements the abstract lifecycle.                 *)

Rejects == [s \in States |-> IF IsV2(s) THEN Counts(s) ELSE 0]

\* The queries of the abstract specification are those of the workflow.
LEMMA SameQueries ==
    ASSUME NEW s
    PROVE  /\ Lifecycle!IsV2(s) = IsV2(s) /\ Lifecycle!PassTo(s) = PassTo(s)
           /\ Lifecycle!FailEdge(s) = FailEdge(s) /\ Lifecycle!MaxIterations(s) = MaxIterations(s)
           /\ Lifecycle!Bounded(s) = (MaxIterations(s) > 0)
           /\ \A g : Lifecycle!HasGatedEdge(s, g) = HasGatedEdge(s, g)
           /\ \A g : Lifecycle!GatedTo(s, g) = GatedTo(s, g)
           /\ \A u : Lifecycle!UngatedAdvance(s, u) = UngatedAdvance(s, u)
  BY DEF Lifecycle!IsV2, Lifecycle!PassTo, Lifecycle!FailEdge, Lifecycle!MaxIterations,
         Lifecycle!Bounded, Lifecycle!HasGatedEdge, Lifecycle!GatedTo, Lifecycle!UngatedAdvance,
         Lifecycle!EdgesOn, Lifecycle!GatedEdges, Lifecycle!TransitionsFrom, Lifecycle!Edge,
         Lifecycle!Edges, Lifecycle!LastOf, Lifecycle!FirstOf,
         IsV2, PassTo, FailEdge, MaxIterations, HasGatedEdge, GatedTo, UngatedAdvance,
         EdgesOn, GatedEdges, TransitionsFrom, Edge, Edges, LastOf, FirstOf

\* A checkpoint crosses an edge that anyone may.
LEMMA CheckpointUngated ==
    ASSUME NEW s \in States, HasCheckpoint(s)
    PROVE  UngatedAdvance(s, CheckpointTo(s))
<1>1. PICK i \in CheckpointEdges(s) : CheckpointTo(s) = Edge(i).to
  <2>1. CheckpointEdges(s) # {}
    BY FS_EmptySet DEF HasCheckpoint
  <2> QED
    BY <2>1 DEF CheckpointTo
<1>2. i \in TransitionsFrom(s) /\ Edge(i).gate = NoGate
  BY DEF CheckpointEdges
<1>3. Edge(i) \in Transition
  BY <1>2, EdgeTyped DEF TransitionsFrom
<1>4. Edge(i).on \notin {"pass", "fail"}
  BY <1>2 DEF HasCheckpoint, IsV2, EdgesOn
<1> QED
  BY <1>1, <1>2, <1>3, <1>4 DEF Transition, UngatedAdvance

\* The projection of a move is a step of the lifecycle.
LEMMA MoveImplements ==
    ASSUME TypeInv, NEW r \in Runs, Moving(run[r]), CountedMove(run[r]), Checked(run[r]),
           NEW i \in unprojected, Project(i)
    PROVE  Lifecycle!LifecycleNext
<1> DEFINE x == run[r]
           v == ledger[Len(ledger) - 1]
<1>1. unprojected = {Len(ledger)} /\ status = x.snap /\ x.snap \in States /\ x \in Run
  BY DEF Moving, TypeInv, TypeOK, PhaseOK
<1>2. status' = LastRow.to
  BY <1>1, EndProjected
<1>3. \A s : Counts(s)' = Written(s)
  BY <1>1, CommittedAll DEF Counts, Written, Project
<1>4. Rejects' = [s \in States |-> IF IsV2(s) THEN Written(s) ELSE 0]
  BY <1>3 DEF Rejects
<1>5. ASSUME Settled PROVE Rejects' = Rejects
  BY <1>4, <1>5 DEF Rejects, Settled
<1>6. ASSUME Rejects' = Rejects, NEW u \in States, UngatedAdvance(status, u), status' = u
      PROVE  Lifecycle!Advance
  BY <1>6, SameQueries DEF Lifecycle!Advance, Rejects, Counts
<1>7. CASE Unearned(x, LastRow) /\ Settled
  <2>1. PICK u \in States : UngatedAdvance(status, u) /\ status' = u
    <3>1. CASE \E to \in States : UngatedAdvance(x.snap, to) /\ LastRow = Transit(NoState, to, NoGate)
      BY <1>1, <1>2, <3>1 DEF Transit
    <3>2. CASE HasCheckpoint(x.snap) /\ LastRow = Transit(x.snap, CheckpointTo(x.snap), NoGate)
      <4>1. CheckpointTo(x.snap) \in States /\ UngatedAdvance(x.snap, CheckpointTo(x.snap))
        BY <1>1, <3>2, CheckpointEdge, CheckpointUngated
      <4> QED
        BY <1>1, <1>2, <3>2, <4>1 DEF Transit
    <3> QED
      BY <1>7, <3>1, <3>2 DEF Unearned
  <2> QED
    BY <1>5, <1>6, <1>7, <2>1 DEF Lifecycle!LifecycleNext
<1>8. CASE /\ Len(ledger) > 1 /\ Earned(x, v, LastRow)
           /\ IF LastRow.exhausted THEN \A s \in States : IsV2(s) => Written(s) = 0
              ELSE Pending(v)
  <2>1. CASE /\ IsV2(status) /\ v.kind = "review_accept"
             /\ LastRow = Transit(status, PassTo(status), x.gate)
    <3>1. Pending(v) /\ status' = PassTo(status)
      BY <1>2, <1>8, <2>1 DEF Transit
    <3>2. Settled
      BY <2>1, <3>1, CountsTyped DEF Pending, Settled, Adds
    <3> QED
      BY <1>5, <2>1, <3>1, <3>2, SameQueries
         DEF Lifecycle!LifecycleNext, Lifecycle!Pass, Rejects, Counts
  <2>2. CASE /\ IsV2(status) /\ v = Reject(status, x.gate) /\ ~BoundSpent(x.bound, x.prior)
             /\ x.op = "review" /\ GateMatches(status, x.gate)
             /\ LastRow = Transit(status, FailEdge(status).to, x.gate)
    <3>1. Pending(v) /\ status' = FailEdge(status).to
      BY <1>2, <1>8, <2>2 DEF Transit
    <3>2. \A s \in States : Adds(v, s) = IF s = status THEN 1 ELSE 0
      BY <2>2 DEF Adds, Reject, Transit
    <3>3. Rejects' = [Rejects EXCEPT ![status] = @ + 1]
      BY <1>1, <1>4, <2>2, <3>1, <3>2, CountsTyped DEF Rejects, Pending
    <3>4. MaxIterations(status) > 0 => Rejects[status] + 1 < MaxIterations(status)
      <4>1. x.bound = MaxIterations(status) /\ (x.bound > 0 => x.prior = Counts(status))
        BY <1>1, <2>2 DEF Checked
      <4>2. MaxIterations(status) \in Nat /\ Counts(status) \in Nat /\ Rejects[status] = Counts(status)
        BY <1>1, <2>2, MaxTyped, CountsTyped DEF Rejects
      <4> QED
        BY <2>2, <4>1, <4>2 DEF BoundSpent
    <3> QED
      BY <2>2, <3>1, <3>3, <3>4, SameQueries
         DEF Lifecycle!LifecycleNext, Lifecycle!Fail, Rejects, Counts
  <2>3. CASE /\ IsV2(status) /\ BoundSpent(x.bound, x.prior)
             /\ x.op = "review" /\ GateMatches(status, x.gate)
             /\ LastRow = Escalate(status, FailEdge(status).exhausted, x.gate)
    <3>1. LastRow.exhausted /\ status' = FailEdge(status).exhausted
      BY <1>2, <2>3 DEF Escalate, Transit
    <3>2. Rejects' = [s \in States |-> 0]
      BY <1>4, <1>8, <3>1
    <3>3. MaxIterations(status) > 0 /\ Rejects[status] + 1 >= MaxIterations(status)
      <4>1. x.bound = MaxIterations(status) /\ (x.bound > 0 => x.prior = Counts(status))
        BY <1>1, <2>3 DEF Checked
      <4>2. Rejects[status] = Counts(status)
        BY <1>1, <2>3 DEF Rejects
      <4> QED
        BY <2>3, <4>1, <4>2 DEF BoundSpent
    <3> QED
      BY <2>3, <3>1, <3>2, <3>3, SameQueries
         DEF Lifecycle!LifecycleNext, Lifecycle!Exhaust, Rejects, Counts
  <2>4. CASE /\ ~IsV2(status) /\ HasGatedEdge(status, x.gate) /\ v.kind = "review_accept"
             /\ LastRow = Transit(status, GatedTo(status, x.gate), x.gate)
    <3>1. Pending(v) /\ status' = GatedTo(status, x.gate)
      BY <1>2, <1>8, <2>4 DEF Transit
    <3>2. Settled
      BY <2>4, <3>1, CountsTyped DEF Pending, Settled, Adds
    <3>3. x.gate \in Gates
      BY <1>1, <2>4 DEF HasGatedEdge, GatedEdges, Run
    <3> QED
      BY <1>5, <2>4, <3>1, <3>2, <3>3, SameQueries
         DEF Lifecycle!LifecycleNext, Lifecycle!Advance, Rejects, Counts
  <2> QED
    BY <1>1, <1>8, <2>1, <2>2, <2>3, <2>4 DEF Earned, Accept, Transit
<1> QED
  BY <1>7, <1>8 DEF CountedMove

LEMMA StepImplements ==
    ASSUME OneAtATime, TypeInv, PathInv, CountInv, [Next]_vars
    PROVE  [Lifecycle!LifecycleNext]_(Lifecycle!lvars)
<1>1. PICK r : r \in Runs /\ Runs = {r}
  BY DEF OneAtATime
<1>2. ASSUME status' = status, \A s : Counts(s)' = Counts(s)
      PROVE  UNCHANGED Lifecycle!lvars
  BY <1>2 DEF Lifecycle!lvars, Counts
<1>3. CASE Still
  BY <1>2, <1>3, CountsKept DEF Still
<1>4. CASE AppendLedger(r)
  <2>1. PICK row \in Row : Writes(run[r], run'[r], row)
    BY <1>1, <1>4, WriteStep
  <2>2. unprojected' = IF row.kind = "status_transition" THEN {Len(ledger) + 1} ELSE {}
    BY <1>1, <2>1, WritePhase
  <2>3. \A s : Counts(s)' = Counts(s)
    BY <2>1, <2>2, CountsAppended DEF Writes
  <2> QED
    BY <1>2, <2>1, <2>3 DEF Writes
<1>5. ASSUME NEW i \in unprojected, Project(i) PROVE Lifecycle!LifecycleNext
  <2>1. Moving(run[r]) /\ CountedMove(run[r]) /\ Checked(run[r])
    BY <1>1, <1>5 DEF CountInv, Counting, Resting, Planned, Judged
  <2> QED
    BY <1>1, <1>5, <2>1, MoveImplements
<1> QED
  BY <1>1, <1>3, <1>4, <1>5, SoleStep

\* One operator's commands, with no call lost and no bound overridden, take the story through
\* its declared lifecycle and through nothing else, whatever the workflow: each projected row is
\* one Pass, Fail, Exhaust or Advance of StoryLifecycle, and every other step of the command
\* and of the server is invisible.
THEOREM LifecycleImplemented ==
    OneAtATime /\ CountsInFull => (Spec => ImplementsLifecycle)
<1> SUFFICES ASSUME OneAtATime, CountsInFull PROVE Spec => ImplementsLifecycle
  OBVIOUS
<1>1. Init => Lifecycle!LifecycleInit
  <2> SUFFICES ASSUME Init PROVE Lifecycle!LifecycleInit
    OBVIOUS
  <2>1. Committed = <<>> /\ <<>> \in Seq(Row)
    BY DEF Init, Committed, TransitionRows
  <2>2. ASSUME NEW s PROVE CountEdgeRejects(<<>>, s) = 0
    <3>1. Counted(<<>>, s) = {}
      BY DEF Counted
    <3> QED
      BY <2>1, <3>1, CountedFinite, FS_EmptySet
  <2> QED
    BY <2>1, <2>2 DEF Init, Lifecycle!LifecycleInit
<1>2. TypeInv /\ PathInv /\ CountInv /\ [Next]_vars =>
        [\/ UNCHANGED <<status, ledger, unprojected>>
         \/ Lifecycle!LifecycleNext]_(Lifecycle!lvars)
  BY StepImplements
<1> QED
  BY <1>1, <1>2, CountsAlways, PTL DEF Spec, ImplementsLifecycle
=============================================================================
