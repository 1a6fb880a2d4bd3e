------------------------------ MODULE StoryGate ------------------------------
(***************************************************************************)
(* One story under review.  Operators run `satellites story                *)
(* status_transition` and `story set-status` (internal/cli) against a      *)
(* server (internal/verb/ledger.go) that appends to the story's ledger     *)
(* and projects each status_transition row onto documents.status.  Each    *)
(* repository clone has a local store with the work_claim row and the      *)
(* active_gate marker of the story.                                        *)
(*                                                                         *)
(* A run is one command invocation: a process whose steps are its calls to *)
(* the server and the store.  What it read at the start (snap) is never    *)
(* read again before it enacts.  The server's append and projection are    *)
(* separate steps of their own, so a run may give up on a row the server   *)
(* has yet to project.  Left out: the local inbox and its flush, the       *)
(* engagement refresh and the evidence row, which touch no variable here.  *)
(***************************************************************************)
EXTENDS Workflow

CONSTANTS
    Runs,             \* command invocations that may be under way at once
    Operators,        \* authenticated users
    Stores,           \* local state.db files, one per clone
    NoOperator,       \* the claimant of an absent work_claim row
    OperatorOf,       \* who starts a run
    StoreOf,          \* the clone a run works in
    SystemTerminal,   \* states the built-in workflows call terminal
    KvBounds,         \* values workflow.max_iterations may resolve to
    PortalTargets,    \* statuses a portal user may patch in by hand
    Faults,           \* which kinds of failure may happen
    GateDispatchTimeout, SummariserTimeout, LeaseMargin,  \* in ticks
    MaxRows           \* no new command starts once the ledger has this many rows

FaultKinds == {"append", "project", "timeout", "observe", "ledger_list", "crash"}

ASSUME StoryGateAssumption ==
    /\ OperatorOf \in [Runs -> Operators]
    /\ StoreOf \in [Runs -> Stores]
    /\ NoOperator \notin Operators
    /\ SystemTerminal \subseteq States
    /\ KvBounds \subseteq Nat \ {0}
    /\ PortalTargets \subseteq States
    /\ Faults \subseteq FaultKinds
    /\ GateDispatchTimeout \in Nat /\ SummariserTimeout \in Nat
    /\ LeaseMargin \in Nat \ {0}
    /\ MaxRows \in Nat

VARIABLES
    status,      \* documents.status of the story
    ledger,      \* its ledger: the verdict and status_transition rows, in order
    unprojected, \* indices of rows inserted but not yet projected by the server
    claim,       \* work_claim row of each store: claimant and remaining lease
    activeGate,  \* whether each store holds an active_gate marker
    run          \* the runs

vars == <<status, ledger, unprojected, claim, activeGate, run>>

AnyRow == [kind : {"review_accept", "review_reject", "status_transition"},
           from : States \cup {NoState}, to : States \cup {NoState},
           gate : Gates \cup {NoGate}, exhausted : BOOLEAN]
Row == {row \in AnyRow : row.kind = "status_transition" => row.to \in States}

\* Mutant: the lease covers the two dispatches and nothing else.
TightLease == GateDispatchTimeout + SummariserTimeout

ClaimLeaseTTL == GateDispatchTimeout + SummariserTimeout + LeaseMargin

\* The two dispatches are killed at their timeouts; the rest of a run is
\* assumed to fit in the margin the lease adds to them.
RunBudget == GateDispatchTimeout + SummariserTimeout + LeaseMargin - 1

Claim == [by : Operators \cup {NoOperator}, left : 0..ClaimLeaseTTL]
NoClaim == [by |-> NoOperator, left |-> 0]

Run == [pc : {"idle", "resolved", "claimed", "judging", "enacting", "observed"},
        op : {"none", "review", "checkpoint", "chained", "set-status"},
        snap : States \cup {NoState},    \* story.Status as first read
        gate : Gates \cup {NoGate},      \* --skill
        bound : Nat, prior : Nat,        \* loop bound and rejects counted
        rows : Seq(Row),                 \* planned rows still to append
        await : Nat,                     \* ledger index awaited, 0 = none
        mismatch : BOOLEAN,              \* accepted, but governs no edge
        obs : States \cup {NoState},     \* status read back
        left : 0..RunBudget]             \* time the run may still take
Idle == [pc |-> "idle", op |-> "none", snap |-> NoState, gate |-> NoGate,
         bound |-> 0, prior |-> 0, rows |-> <<>>, await |-> 0,
         mismatch |-> FALSE, obs |-> NoState, left |-> 0]

TypeOK ==
    /\ status \in States
    /\ ledger \in Seq(Row)
    /\ unprojected \subseteq {i \in 1..Len(ledger) : ledger[i].kind = "status_transition"}
    /\ claim \in [Stores -> Claim]
    /\ activeGate \in [Stores -> BOOLEAN]
    /\ run \in [Runs -> Run]

Init ==
    /\ status = InitialStatus
    /\ ledger = <<>>
    /\ unprojected = {}
    /\ claim = [st \in Stores |-> NoClaim]
    /\ activeGate = [st \in Stores |-> FALSE]
    /\ run = [r \in Runs |-> Idle]

-----------------------------------------------------------------------------
(* The rows a command plans.                                               *)

Transit(from, to, gate) ==
    [kind |-> "status_transition", from |-> from, to |-> to,
     gate |-> gate, exhausted |-> FALSE]
Escalate(from, to, gate) == [Transit(from, to, gate) EXCEPT !.exhausted = TRUE]
Accept(from, to, gate) == [Transit(from, to, gate) EXCEPT !.kind = "review_accept"]
Reject(from, gate) == [Transit(from, NoState, gate) EXCEPT !.kind = "review_reject"]

\* CountEdgeRejects: the rejects of state s since the latest escalation row.
CountEdgeRejects(led, s) ==
    Cardinality({i \in DOMAIN led :
        /\ led[i].kind = "review_reject"
        /\ led[i].from = s
        /\ \A j \in DOMAIN led : led[j].exhausted => j < i})

\* A v2 edge is enacted only by the gate the state declares.  The code decides
\* this on the status first read and keeps the answer when a checkpoint chains
\* into its target, so a chained command enacts nothing.
EnactV2(r) == /\ run[r].op = "review"
              /\ IsV2(run[r].snap)
              /\ GateMatches(run[r].snap, run[r].gate)

EnactV1(r) == ~IsV2(run[r].snap) /\ HasGatedEdge(run[r].snap, run[r].gate)

BoundSpent(bound, prior) == bound > 0 /\ prior + 1 >= bound

\* PlanV2Enactment
PlanV2(s, g, decision, bound, prior) ==
    IF decision = "accept"
    THEN <<Accept(s, PassTo(s), g), Transit(s, PassTo(s), g)>>
    ELSE <<Reject(s, g),
           IF BoundSpent(bound, prior)
           THEN Escalate(s, FailEdge(s).exhausted, g)
           ELSE Transit(s, FailEdge(s).to, g)>>

\* Mutant: the move is recorded before the verdict.
PlanV1MoveFirst(s, g, decision) ==
    IF decision = "accept"
    THEN <<Transit(s, GatedTo(s, g), g), Accept(s, GatedTo(s, g), g)>>
    ELSE <<Reject(s, g)>>

\* The unconditional gated edge: a reject stays put.
PlanV1(s, g, decision) ==
    IF decision = "accept"
    THEN <<Accept(s, GatedTo(s, g), g), Transit(s, GatedTo(s, g), g)>>
    ELSE <<Reject(s, g)>>

PlanRows(r, decision) ==
    LET s == run[r].snap
        g == run[r].gate
    IN  CASE EnactV2(r) -> PlanV2(s, g, decision, run[r].bound, run[r].prior)
          [] EnactV1(r) -> PlanV1(s, g, decision)
          [] OTHER -> <<>>

-----------------------------------------------------------------------------
(* Starting a command.                                                     *)

Room == Len(ledger) < MaxRows

\* An operator state is left only by a gate with an unconditional edge out.
OperatorStop(s, g) == ActorOf[s] = "operator" /\ ~HasGatedEdge(s, g)

ResolveStory(r, op, g) ==
    /\ run[r].pc = "idle"
    /\ Room
    /\ ~OperatorStop(status, g)
    /\ run' = [run EXCEPT ![r] =
                 [Idle EXCEPT !.pc = "resolved", !.op = op, !.snap = status, !.gate = g]]
    /\ UNCHANGED <<status, ledger, unprojected, claim, activeGate>>

\* Mutant: an operator moves the story anywhere.
ResolveForAnyStatus(r, to) ==
    /\ run[r].pc = "idle"
    /\ Room
    /\ run' = [run EXCEPT ![r] =
                 [Idle EXCEPT !.pc = "enacting", !.op = "set-status", !.snap = status,
                              !.rows = <<Transit(NoState, to, NoGate)>>]]
    /\ UNCHANGED <<status, ledger, unprojected, claim, activeGate>>

ResolveForSetStatus(r, to) ==
    /\ run[r].pc = "idle"
    /\ Room
    /\ UngatedAdvance(status, to)
    /\ run' = [run EXCEPT ![r] =
                 [Idle EXCEPT !.pc = "enacting", !.op = "set-status", !.snap = status,
                              !.rows = <<Transit(NoState, to, NoGate)>>]]
    /\ UNCHANGED <<status, ledger, unprojected, claim, activeGate>>

-----------------------------------------------------------------------------
(* The work claim and the decision of --checkpoint.                        *)

Claimable(st, o) == claim[st].by \in {NoOperator, o} \/ claim[st].left = 0

IsCheckpointState(s) == HasCheckpoint(s) /\ ActorOf[s] # "operator"

Unsanctioned(op, s, g) ==
    \/ op = "checkpoint" /\ ~IsCheckpointState(s)
    \/ op = "review" /\ IsCheckpointState(s) /\ ~HasGatedEdge(s, g)

AfterClaim(r) ==
    LET s == run[r].snap
        held == [run[r] EXCEPT !.pc = "claimed", !.left = RunBudget]
    IN  CASE Unsanctioned(run[r].op, s, run[r].gate) -> Idle
          [] run[r].op = "checkpoint" /\ IsCheckpointState(s) ->
               [held EXCEPT !.pc = "enacting", !.rows = <<Transit(s, CheckpointTo(s), NoGate)>>]
          [] OTHER -> held

ClaimWork(r) ==
    LET st == StoreOf[r]
        o == OperatorOf[r]
    IN  /\ run[r].pc = "resolved"
        /\ Claimable(st, o)
        /\ claim' = [claim EXCEPT ![st] = [by |-> o, left |-> ClaimLeaseTTL]]
        /\ run' = [run EXCEPT ![r] = AfterClaim(r)]
        /\ UNCHANGED <<status, ledger, unprojected, activeGate>>

ClaimRefused(r) ==
    /\ run[r].pc = "resolved"
    /\ ~Claimable(StoreOf[r], OperatorOf[r])
    /\ run' = [run EXCEPT ![r] = Idle]
    /\ UNCHANGED <<status, ledger, unprojected, claim, activeGate>>

-----------------------------------------------------------------------------
(* The bound check, the gate run and its plan.                             *)

\* Mutant: the deferred ClearActiveGate is missing.
ReturnLeavingMarker(r) ==
    /\ run' = [run EXCEPT ![r] = Idle]
    /\ UNCHANGED activeGate

\* A run returns; the deferred call deletes the marker, whoever set it.
Return(r) ==
    /\ run' = [run EXCEPT ![r] = Idle]
    /\ activeGate' = [activeGate EXCEPT ![StoreOf[r]] = FALSE]

LoopBounded(r) == EnactV2(r) /\ MaxIterations(run[r].snap) > 0

\* An unreachable ledger page ends the read: the rest counts as no rejects.
ReadableCounts(s) ==
    {CountEdgeRejects(ledger, s)} \cup
    IF "ledger_list" \in Faults
    THEN {CountEdgeRejects(SubSeq(ledger, 1, n), s) : n \in 0..Len(ledger)}
    ELSE {}

\* The bound, which a key-value may override, and the rejects counted against it.
BoundChecks(r) ==
    IF LoopBounded(r)
    THEN [bound : {MaxIterations(run[r].snap)} \cup KvBounds,
          prior : ReadableCounts(run[r].snap)]
    ELSE {[bound |-> 0, prior |-> 0]}

\* Mutant: one review too many is dispatched.
Overspent(c) == c.bound > 0 /\ c.prior > c.bound

Spent(c) == c.bound > 0 /\ c.prior >= c.bound

DispatchRefused(r) ==
    /\ run[r].pc = "claimed"
    /\ \E c \in BoundChecks(r) : Spent(c)
    /\ run' = [run EXCEPT ![r] = Idle]
    /\ UNCHANGED <<status, ledger, unprojected, claim, activeGate>>

\* A satellites state runs its command instead of a gate; it must have one.
MayDispatch(s) == ActorOf[s] = "satellites" => IsV2(s) /\ s \in Commanded

Dispatch(r) ==
    /\ run[r].pc = "claimed"
    /\ MayDispatch(run[r].snap)
    /\ \E c \in BoundChecks(r) :
         /\ ~Spent(c)
         /\ run' = [run EXCEPT ![r] =
                      [@ EXCEPT !.pc = "judging", !.bound = c.bound, !.prior = c.prior]]
    /\ activeGate' = [activeGate EXCEPT ![StoreOf[r]] = TRUE]
    /\ UNCHANGED <<status, ledger, unprojected, claim>>

NothingToRun(r) ==
    /\ run[r].pc = "claimed"
    /\ ~MayDispatch(run[r].snap)
    /\ \E c \in BoundChecks(r) : ~Spent(c)
    /\ Return(r)
    /\ UNCHANGED <<status, ledger, unprojected, claim>>

\* The gate's decision, after the stage gate that may turn accept to reject.
Judge(r, decision) ==
    /\ run[r].pc = "judging"
    /\ run' = [run EXCEPT ![r] =
                 [@ EXCEPT !.pc = "enacting",
                           !.rows = PlanRows(r, decision),
                           !.mismatch = /\ decision = "accept"
                                        /\ ~IsV2(run[r].snap)
                                        /\ ~EnactV1(r)]]
    /\ UNCHANGED <<status, ledger, unprojected, claim, activeGate>>

\* The gate run fails or is killed at its timeout; a command's failure is a reject.
JudgeFails(r) ==
    /\ run[r].pc = "judging"
    /\ ActorOf[run[r].snap] # "satellites"
    /\ Return(r)
    /\ UNCHANGED <<status, ledger, unprojected, claim>>

-----------------------------------------------------------------------------
(* Enacting: the client's appends and the server's two steps.              *)

Enacting(r) == run[r].pc = "enacting" /\ run[r].await = 0

\* Mutant: any row that names a to_status is projected.
AppendProjectingAll(r) ==
    LET row == Head(run[r].rows)
        n == Len(ledger) + 1
    IN  /\ Enacting(r)
        /\ run[r].rows # <<>>
        /\ ledger' = Append(ledger, row)
        /\ IF row.to # NoState
           THEN /\ unprojected' = unprojected \cup {n}
                /\ run' = [run EXCEPT ![r].rows = Tail(@), ![r].await = n]
           ELSE /\ run' = [run EXCEPT ![r].rows = Tail(@)]
                /\ UNCHANGED unprojected
        /\ UNCHANGED <<status, claim, activeGate>>

AppendLedger(r) ==
    LET row == Head(run[r].rows)
        n == Len(ledger) + 1
    IN  /\ Enacting(r)
        /\ run[r].rows # <<>>
        /\ ledger' = Append(ledger, row)
        /\ IF row.kind = "status_transition"
           THEN /\ unprojected' = unprojected \cup {n}
                /\ run' = [run EXCEPT ![r].rows = Tail(@), ![r].await = n]
           ELSE /\ run' = [run EXCEPT ![r].rows = Tail(@)]
                /\ UNCHANGED unprojected
        /\ UNCHANGED <<status, claim, activeGate>>

\* reviewAppendLedger only prints the error of an append that never landed.
AppendFails(r) ==
    /\ "append" \in Faults
    /\ Enacting(r)
    /\ run[r].rows # <<>>
    /\ run' = [run EXCEPT ![r].rows = Tail(@)]
    /\ UNCHANGED <<status, ledger, unprojected, claim, activeGate>>

\* One call of reviewAppendLedger: the row lands, or it is lost.
LedgerAppend(r) ==
    \E landed \in BOOLEAN : IF landed THEN AppendLedger(r) ELSE AppendFails(r)

\* The server's second transaction: UpdateStory with the row's to_status.
Project(i) ==
    /\ i \in unprojected
    /\ status' = ledger[i].to
    /\ unprojected' = unprojected \ {i}
    /\ UNCHANGED <<ledger, claim, activeGate, run>>

ProjectFails(i) ==
    /\ "project" \in Faults
    /\ i \in unprojected
    /\ unprojected' = unprojected \ {i}
    /\ UNCHANGED <<status, ledger, claim, activeGate, run>>

\* The response arrives, or the http client gives up waiting for it.
AppendReturns(r) ==
    /\ run[r].await # 0
    /\ run[r].await \notin unprojected \/ "timeout" \in Faults
    /\ run' = [run EXCEPT ![r].await = 0]
    /\ UNCHANGED <<status, ledger, unprojected, claim, activeGate>>

Enacted(r) == Enacting(r) /\ run[r].rows = <<>>

SetStatusReturns(r) ==
    /\ Enacted(r)
    /\ run[r].op = "set-status"
    /\ run' = [run EXCEPT ![r] = Idle]
    /\ UNCHANGED <<status, ledger, unprojected, claim, activeGate>>

\* A checkpoint continues from its target, written or not, when a command
\* acts there; it stops where someone else's turn begins.
CheckpointLands(r) ==
    LET to == CheckpointTo(run[r].snap)
    IN  /\ Enacted(r)
        /\ run[r].op = "checkpoint"
        /\ run' = [run EXCEPT ![r] =
                     IF ActorOf[to] = "satellites"
                     THEN [@ EXCEPT !.pc = "claimed", !.op = "chained", !.snap = to]
                     ELSE Idle]
        /\ UNCHANGED <<status, ledger, unprojected, claim, activeGate>>

-----------------------------------------------------------------------------
(* Reading the status back, the terminal cleanup and the return.           *)

Observe(r) ==
    /\ Enacted(r)
    /\ run[r].op \in {"review", "chained"}
    /\ \E obs \in {status} \cup (IF "observe" \in Faults THEN {NoState} ELSE {}) :
         IF run[r].mismatch /\ obs \in {NoState, run[r].snap}
         THEN Return(r)
         ELSE /\ run' = [run EXCEPT ![r] = [@ EXCEPT !.pc = "observed", !.obs = obs]]
              /\ UNCHANGED activeGate
    /\ UNCHANGED <<status, ledger, unprojected, claim>>

\* CleanupWork deletes the store's claim row, whoever holds it.
Finish(r) ==
    /\ run[r].pc = "observed"
    /\ claim' = IF run[r].obs \in SystemTerminal
                THEN [claim EXCEPT ![StoreOf[r]] = NoClaim]
                ELSE claim
    /\ Return(r)
    /\ UNCHANGED <<status, ledger, unprojected>>

-----------------------------------------------------------------------------
(* The environment.                                                        *)

\* A killed run leaves its marker and its claim; the server carries on.
Crash(r) ==
    /\ "crash" \in Faults
    /\ run[r].pc # "idle"
    /\ run' = [run EXCEPT ![r] = Idle]
    /\ UNCHANGED <<status, ledger, unprojected, claim, activeGate>>

\* document_upsert honours a status only from a portal session.
PortalPatch(s) ==
    /\ s \in PortalTargets
    /\ status' = s
    /\ UNCHANGED <<ledger, unprojected, claim, activeGate, run>>

\* The steps of a run that holds a work claim.
Holds(r) ==
    \/ run[r].pc \in {"claimed", "judging", "observed"}
    \/ run[r].pc = "enacting" /\ run[r].op # "set-status"

\* Mutant: a lease has no end.
TickWithoutExpiry ==
    /\ \E st \in Stores : claim[st].left > 0
    /\ \A r \in Runs : Holds(r) => run[r].left > 0
    /\ run' = [r \in Runs |->
                 IF Holds(r) THEN [run[r] EXCEPT !.left = @ - 1] ELSE run[r]]
    /\ UNCHANGED <<status, ledger, unprojected, claim, activeGate>>

Tick ==
    /\ \E st \in Stores : claim[st].left > 0
    /\ \A r \in Runs : Holds(r) => run[r].left > 0
    /\ claim' = [st \in Stores |->
                   [claim[st] EXCEPT !.left = IF @ > 0 THEN @ - 1 ELSE 0]]
    /\ run' = [r \in Runs |->
                 IF Holds(r) THEN [run[r] EXCEPT !.left = @ - 1] ELSE run[r]]
    /\ UNCHANGED <<status, ledger, unprojected, activeGate>>

-----------------------------------------------------------------------------
Start(r) ==
    \/ \E g \in Gates : ResolveStory(r, "review", g)
    \/ ResolveStory(r, "checkpoint", NoGate)
    \/ \E s \in States : ResolveForSetStatus(r, s)

Step(r) ==
    \/ ClaimWork(r) \/ ClaimRefused(r)
    \/ DispatchRefused(r) \/ Dispatch(r) \/ NothingToRun(r)
    \/ \E d \in {"accept", "reject"} : Judge(r, d)
    \/ JudgeFails(r)
    \/ LedgerAppend(r) \/ AppendReturns(r)
    \/ SetStatusReturns(r) \/ CheckpointLands(r)
    \/ Observe(r) \/ Finish(r)

Server == \E i \in unprojected : Project(i) \/ ProjectFails(i)

Next ==
    \/ \E r \in Runs : Start(r) \/ Step(r) \/ Crash(r)
    \/ Server
    \/ \E s \in PortalTargets : PortalPatch(s)
    \/ Tick

Spec == Init /\ [][Next]_vars

\* A started command runs on (its dispatches and http calls time out), the
\* server finishes what it inserted, and time passes.
Fairness ==
    /\ \A r \in Runs : WF_vars(Step(r))
    /\ WF_vars(Server)
    /\ WF_vars(Tick)

FairSpec == Spec /\ Fairness

-----------------------------------------------------------------------------
(* Properties under concurrency and failure.                               *)

\* Two operators never run a review of the story in the same clone at once:
\* the lease of ClaimWork outlives the run that took it, and no other
\* operator's run ends by deleting it.
ClaimExclusion ==
    \A r1, r2 \in Runs :
        /\ Holds(r1) /\ Holds(r2)
        /\ StoreOf[r1] = StoreOf[r2]
        => OperatorOf[r1] = OperatorOf[r2]

\* A status no portal user may patch in is shown only after a ledger row said so,
\* whatever append, projection or run was lost: invokeLedgerAppend inserts, then
\* projects.
StatusLedgered ==
    status \notin {InitialStatus} \cup PortalTargets =>
        \E i \in DOMAIN ledger :
            ledger[i].kind = "status_transition" /\ ledger[i].to = status

\* However runs interleave, a review's transition row crosses an edge of the
\* workflow, and only by the gate declared for it: a pass/fail edge by the state's
\* own gate, a gated edge by its gate, a checkpoint edge by --checkpoint.
GateMonopoly ==
    \A i \in DOMAIN ledger :
        LET row == ledger[i]
        IN  row.kind = "status_transition" /\ row.from # NoState =>
              \/ /\ IsV2(row.from)
                 /\ ReviewerSkill(row.from) \in {NoGate, row.gate}
                 /\ row.to \in {Edge(j).to : j \in EdgesOn(row.from, "pass")}
                          \cup {Edge(j).to : j \in EdgesOn(row.from, "fail")}
                          \cup {Edge(j).exhausted : j \in EdgesOn(row.from, "fail")}
              \/ /\ ~IsV2(row.from)
                 /\ \E j \in TransitionsFrom(row.from) :
                       /\ Edge(j).to = row.to
                       /\ Edge(j).gate = row.gate
                       /\ row.gate = NoGate => Edge(j).trigger = "checkpoint"

\* A run between its dispatch of the gate and its return.
Dispatched(r) ==
    /\ run[r].pc \in {"judging", "enacting", "observed"}
    /\ run[r].op \in {"review", "chained"}

\* The active_gate marker the stop hook reads stands only while some run of
\* that clone is between its dispatch and its return (no run is killed).
MarkerMeansRunning ==
    \A st \in Stores : activeGate[st] => \E r \in Runs : StoreOf[r] = st /\ Dispatched(r)

\* The states that rows of the ledger name as left.
LeftStates == {ledger[i].from : i \in DOMAIN ledger} \ {NoState}

\* Runs that race through the bound check overrun the fail loop by at most one
\* reject each: the count is read before the gate runs and never again.
RejectOverrun ==
    \A s \in LeftStates : MaxIterations(s) > 0 =>
        CountEdgeRejects(ledger, s) < MaxIterations(s) + Cardinality(Runs)

\* A run that was started returns: no step of it waits for another run.
Answered == \A r \in Runs : run[r].pc # "idle" ~> run[r].pc = "idle"

\* A claim whose run was killed or has returned does not lock the story: it
\* expires unless its operator starts another run.
DeadClaimExpires ==
    \A st \in Stores :
        claim[st].left > 0 ~>
            claim[st].left = 0 \/ \E r \in Runs : StoreOf[r] = st /\ run[r].pc # "idle"

\* Runs return and dead claims expire.
Progress == Answered /\ DeadClaimExpires

-----------------------------------------------------------------------------
(* Properties of one operator working alone with nothing lost.             *)

Quiet == unprojected = {} /\ \A r \in Runs : run[r].pc = "idle"

TransitionRows == {i \in DOMAIN ledger : ledger[i].kind = "status_transition"}
Previous(i) == {j \in TransitionRows : j < i}

\* The transition rows form one walk from the initial status: each leaves the
\* state its predecessor entered (set-status rows do not name where they leave).
LedgerIsPath ==
    \A i \in TransitionRows : ledger[i].from # NoState =>
        ledger[i].from = IF Previous(i) = {} THEN InitialStatus
                         ELSE ledger[LastOf(Previous(i))].to

\* A stay in a state is left once: no two reviews enact a transition out of the
\* same visit ("two reviewers cannot double-claim the same transition",
\* workstate/inbox.go:138-139, cmd_story_review.go:435-436).
VisitLeftOnce ==
    \A i, j \in TransitionRows :
        i < j /\ ledger[i].from = ledger[j].from /\ ledger[i].from # NoState =>
            \E k \in TransitionRows : i <= k /\ k < j /\ ledger[k].to = ledger[j].from

\* At rest the status column equals the latest status_transition row.
StatusIsLatest ==
    Quiet => status = IF TransitionRows = {} THEN InitialStatus
                      ELSE ledger[LastOf(TransitionRows)].to

\* A gate's move directly follows that gate's verdict from the same state, and
\* goes where the verdict points.
VerdictBeforeMove ==
    \A i \in TransitionRows : ledger[i].from # NoState /\ ~HasCheckpoint(ledger[i].from) =>
        /\ i > 1
        /\ ledger[i - 1].from = ledger[i].from
        /\ ledger[i - 1].gate = ledger[i].gate
        /\ ledger[i - 1].kind = "review_accept" => ledger[i - 1].to = ledger[i].to
        /\ ledger[i - 1].kind = "review_reject" => IsV2(ledger[i].from)

\* At rest no bounded fail loop the story was in has spent its bound: the reject that
\* spends it also escalates the story, so no review is ever refused for an exhausted loop.
ExhaustionEscalates ==
    Quiet => \A s \in LeftStates :
        MaxIterations(s) > 0 => CountEdgeRejects(ledger, s) < MaxIterations(s)

\* A checkpoint that chains into a command's state enacts the command's decision
\* (cmd_story_review.go:442-447).
ChainedDecisionEnacted ==
    \A r \in Runs : run[r].op = "chained" /\ run[r].pc = "observed" =>
        run[r].obs # run[r].snap

\* Rejects count once their move is projected.
Committed ==
    LET done == TransitionRows \ unprojected
    IN  IF done = {} THEN <<>> ELSE SubSeq(ledger, 1, LastOf(done))

Lifecycle == INSTANCE StoryLifecycle WITH
    rejects <- [s \in States |-> IF IsV2(s) THEN CountEdgeRejects(Committed, s) ELSE 0]

\* What one operator working alone, with nothing lost, makes of a story: its ledger is a path of
\* its workflow, every move was earned by the verdict before it, the status is where the path
\* ends, and where its rejects are spent it escalates.
MovesEarned == LedgerIsPath /\ VerdictBeforeMove /\ StatusIsLatest /\ ExhaustionEscalates

\* One operator's commands implement the abstract lifecycle: each projected row is one step of
\* it, and nothing else moves the story (the projection of invokeLedgerAppend is where a
\* transition takes effect).  The mapping reads the status, the ledger and what is
\* not projected: a step that leaves them is a stutter, and TLC need not map it.
ImplementsLifecycle ==
    /\ Lifecycle!LifecycleInit
    /\ [][\/ UNCHANGED <<status, ledger, unprojected>>
          \/ Lifecycle!LifecycleNext]_(Lifecycle!lvars)
=============================================================================
