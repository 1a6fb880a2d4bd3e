-------------------------- MODULE EngagementProofs --------------------------
(***************************************************************************)
(* Theorems of Engagement, for any number of sessions, stories and         *)
(* overlapping commands.                                                   *)
(***************************************************************************)
EXTENDS Engagement, FiniteSetTheorems, NaturalsInduction, WellFoundedInduction, TLAPS

\* Every declared edge is a well formed transition.
LEMMA EdgeTyped ==
    /\ \A i \in Edges : Edge(i) \in Transition
    /\ \E n \in Nat : Edges = 1..n
<1>1. Transitions \in Seq(Transition)
  BY WorkflowAssumption DEF WellFormed
<1>2. Len(Transitions) \in Nat /\ Edges = 1..Len(Transitions)
  BY <1>1 DEF Edges
<1>3. \A i \in Edges : Transitions[i] \in Transition
  BY <1>1, <1>2
<1> QED
  BY <1>2, <1>3 DEF Edge

\* TypeOK is not inductive alone: an append writes where its command points.
CommandPlaced ==
    \A p \in Processes :
        /\ command[p].op # "none" => command[p].session \in Sessions
        /\ command[p].op \notin {"none", "tick"} => command[p].story \in Stories

TypeInv == TypeOK /\ CommandPlaced

LEMMA RowsTyped ==
    /\ NoRow \in Row
    /\ NothingSeen \in [Stories -> Row]
    /\ Idle \in Command
    /\ \A ph \in Phases \cup {Absent}, e \in BOOLEAN, t \in Nat : Leased(ph, e, t) \in Row
    /\ \A row \in Row, t \in Nat : Stamped(row, t) \in Row
<1>1. NoRow \in Row
  BY DEF NoRow, Row
<1>2. NothingSeen \in [Stories -> Row]
  BY <1>1 DEF NothingSeen
<1>3. Idle \in Command
  BY <1>2 DEF Idle, Command, Phases
<1>4. ASSUME NEW ph \in Phases \cup {Absent}, NEW e \in BOOLEAN, NEW t \in Nat
      PROVE  Leased(ph, e, t) \in Row
  BY EngagementAssumption DEF Leased, Row
<1>5. ASSUME NEW row \in Row, NEW t \in Nat
      PROVE  Stamped(row, t) \in Row
  BY <1>4 DEF Stamped, Row
<1> QED
  BY <1>1, <1>2, <1>3, <1>4, <1>5

LEMMA TypeInit == Init => TypeInv
<1> SUFFICES ASSUME Init
             PROVE  TypeInv
  OBVIOUS
<1>1. Nothing \in Deed
  BY DEF Nothing, Deed
<1>2. TypeOK
  <2>1. now \in 0..MaxTime /\ started \in Nat /\ overlapped \subseteq Sessions
    BY EngagementAssumption DEF Init
  <2>2. active \in [Sessions -> 0..MaxTime]
    BY EngagementAssumption DEF Init
  <2>3. status \in [Stories -> States]
    BY WorkflowAssumption DEF WellFormed, Init
  <2>4. command \in [Processes -> Command]
    BY RowsTyped DEF Init
  <2>5. current \in [Sessions -> [Stories -> Row]]
    BY RowsTyped DEF Init
  <2>6. did \in [Sessions -> [Stories -> Deed]]
    BY <1>1 DEF Init
  <2> QED
    BY <2>1, <2>2, <2>3, <2>4, <2>5, <2>6 DEF TypeOK
<1>3. CommandPlaced
  BY DEF Init, CommandPlaced, Idle
<1> QED
  BY <1>2, <1>3 DEF TypeInv

\* A well-placed command replaces another.
LEMMA CommandReplaced ==
    ASSUME TypeInv, NEW p \in Processes, NEW c \in Command,
           command' = [command EXCEPT ![p] = c],
           c.op # "none" => c.session \in Sessions,
           c.op \notin {"none", "tick"} => c.story \in Stories
    PROVE  command' \in [Processes -> Command] /\ CommandPlaced'
<1>1. command' \in [Processes -> Command]
  BY DEF TypeInv, TypeOK
<1>2. \A q \in Processes : command'[q] = IF q = p THEN c ELSE command[q]
  BY DEF TypeInv, TypeOK
<1> QED
  BY <1>1, <1>2 DEF TypeInv, CommandPlaced

LEMMA ReturnTyped ==
    ASSUME TypeInv, NEW p \in Processes, Returns(p)
    PROVE  command' \in [Processes -> Command] /\ CommandPlaced'
<1>1. Idle \in Command /\ Idle.op = "none"
  BY RowsTyped DEF Idle
<1> QED
  BY <1>1, CommandReplaced DEF Returns

LEMMA RecordTyped ==
    ASSUME TypeInv, NEW s \in Sessions, NEW st \in Stories, NEW row \in Row,
           Records(s, st, row)
    PROVE  current' \in [Sessions -> [Stories -> Row]]
BY DEF Records, TypeInv, TypeOK

\* What a command is when it starts.
LEMMA StartedCommand ==
    ASSUME TypeInv, NEW p \in Processes, Starting(p)
    PROVE  \E s \in Sessions, c \in Command :
             /\ Starts(p, s, c) /\ c.session = s /\ c.at \in {0, now}
             /\ c.op # "none" /\ c.op # "tick" => c.story \in Stories
<1> USE DEF TypeInv, TypeOK
<1>1. PICK s \in Sessions :
        \/ TickRead(p, s)
        \/ \E st \in Stories : \/ \E flag \in InitFlags : InitStart(p, s, st, flag)
                               \/ AccessRead(p, s, st) \/ Review(p, s, st)
  BY DEF Starting
<1>2. now \in Nat
  BY EngagementAssumption
<1> DEFINE Good(c) == /\ Starts(p, s, c) /\ c.session = s /\ c.at \in {0, now}
                      /\ c.op # "none" /\ c.op # "tick" => c.story \in Stories
<1>3. CASE TickRead(p, s)
  <2> DEFINE seen == [st \in Stories |-> IF Due(current[s][st]) THEN current[s][st] ELSE NoRow]
             c == [Idle EXCEPT !.op = "tick", !.session = s, !.seen = seen, !.at = now]
  <2>1. seen \in [Stories -> Row]
    BY RowsTyped
  <2> HIDE DEF seen
  <2>2. c \in Command /\ c.op = "tick" /\ c.session = s /\ c.at = now
    BY <1>2, <2>1, RowsTyped DEF Idle, Command
  <2>3. Starts(p, s, c)
    BY <1>3 DEF TickRead, seen
  <2> QED
    BY <2>2, <2>3
<1>4. ASSUME NEW st \in Stories, NEW flag \in InitFlags, InitStart(p, s, st, flag)
      PROVE  \E c \in Command : Good(c)
  <2>1. PICK e \in BOOLEAN :
          Starts(p, s, [Idle EXCEPT !.op = "init", !.session = s, !.story = st,
                                    !.phase = flag, !.editable = e])
    BY <1>4 DEF InitStart, Editability, IsEditable
  <2> DEFINE c == [Idle EXCEPT !.op = "init", !.session = s, !.story = st,
                               !.phase = flag, !.editable = e]
  <2>2. flag \in Phases
    BY EngagementAssumption DEF Phases
  <2>3. c \in Command /\ c.op = "init" /\ c.session = s /\ c.story = st /\ c.at = 0
    BY <2>2, RowsTyped DEF Idle, Command
  <2> QED
    BY <2>1, <2>3
<1>5. ASSUME NEW st \in Stories, AccessRead(p, s, st) \/ Review(p, s, st)
      PROVE  \E c \in Command : Good(c)
  <2> DEFINE a == [Idle EXCEPT !.op = "candidate", !.session = s, !.story = st, !.at = now]
             r == [Idle EXCEPT !.op = "review", !.session = s, !.story = st,
                               !.phase = status[st]]
  <2>1. status[st] \in Phases
    BY DEF Phases
  <2>2. /\ a \in Command /\ a.op = "candidate" /\ a.session = s /\ a.story = st /\ a.at = now
        /\ r \in Command /\ r.op = "review" /\ r.session = s /\ r.story = st /\ r.at = 0
    BY <1>2, <2>1, RowsTyped DEF Idle, Command
  <2>3. Starts(p, s, a) \/ Starts(p, s, r)
    BY <1>5 DEF AccessRead, Review
  <2> QED
    BY <2>2, <2>3
<1> QED
  BY <1>1, <1>3, <1>4, <1>5

\* Every command starts well typed.
LEMMA StartTyped ==
    ASSUME TypeInv, NEW p \in Processes, Starting(p)
    PROVE  TypeInv'
<1> USE DEF TypeInv, TypeOK
<1>1. PICK s \in Sessions, c \in Command :
        /\ Starts(p, s, c) /\ c.session = s
        /\ c.op # "none" /\ c.op # "tick" => c.story \in Stories
  BY StartedCommand
<1>2. command' \in [Processes -> Command] /\ CommandPlaced'
  BY <1>1, CommandReplaced DEF Starts
<1>3. /\ started' \in Nat /\ active' \in [Sessions -> 0..MaxTime]
      /\ overlapped' \subseteq Sessions
  BY SMTT(30), <1>1 DEF Starts, Begins
<1>4. UNCHANGED <<now, status, current, did>>
  BY DEF Starting, TickRead, InitStart, AccessRead, Review
<1> QED
  BY <1>2, <1>3, <1>4

LEMMA RunTyped ==
    ASSUME TypeInv, NEW p \in Processes, Running(p)
    PROVE  TypeInv'
<1> USE DEF TypeInv, TypeOK
<1> DEFINE c == command[p]
<1>0. c \in Command /\ now \in Nat
  BY EngagementAssumption
<1>1. CASE InitCheck(p)
  <2> DEFINE d == [c EXCEPT !.op = "engage", !.at = now]
  <2>1. command' = [command EXCEPT ![p] = d]
    BY <1>1 DEF InitCheck
  <2>2. c.op = "init" /\ c.session \in Sessions /\ c.story \in Stories
    BY <1>1 DEF InitCheck, CommandPlaced
  <2>3. d \in Command /\ d.session = c.session /\ d.story = c.story
    BY <1>0 DEF Command
  <2>4. command' \in [Processes -> Command] /\ CommandPlaced'
    BY <2>1, <2>2, <2>3, CommandReplaced
  <2>5. active' \in [Sessions -> 0..MaxTime]
    BY <1>1 DEF InitCheck
  <2> QED
    BY <1>1, <2>4, <2>5 DEF InitCheck
<1>2. CASE InitRefused(p)
  BY <1>2, ReturnTyped DEF InitRefused
<1>3. CASE InitAppend(p) \/ RefreshAppend(p)
  <2>1. c.session \in Sessions /\ c.story \in Stories
    BY <1>3 DEF InitAppend, RefreshAppend, CommandPlaced
  <2>2. Leased(c.phase, c.editable, c.at) \in Row /\ c.phase \in Phases
    BY <1>0, RowsTyped DEF Command
  <2>3. current' \in [Sessions -> [Stories -> Row]]
    BY <1>3, <2>1, <2>2, RecordTyped DEF InitAppend, RefreshAppend
  <2>4. command' \in [Processes -> Command] /\ CommandPlaced'
    BY <1>3, ReturnTyped DEF InitAppend, RefreshAppend
  <2>5. did' \in [Sessions -> [Stories -> Deed]]
    <3>1. CASE InitAppend(p)
      <4> DEFINE deed == [init |-> TRUE, phase |-> c.phase]
      <4>1. deed \in Deed
        BY <2>2 DEF Deed
      <4>2. did' = [did EXCEPT ![c.session][c.story] = deed]
        BY <3>1 DEF InitAppend
      <4> HIDE DEF deed
      <4> QED
        BY <2>1, <4>1, <4>2
    <3>2. CASE RefreshAppend(p)
      <4> DEFINE deed == [did[c.session][c.story] EXCEPT !.phase = c.phase]
      <4>0. did[c.session][c.story] \in Deed
        BY <2>1
      <4>1. deed \in Deed
        BY <2>2, <4>0 DEF Deed
      <4>2. did' = [did EXCEPT ![c.session][c.story] = deed]
        BY <3>2 DEF RefreshAppend
      <4> HIDE DEF deed
      <4> QED
        BY <2>1, <4>1, <4>2
    <3> QED
      BY <1>3, <3>1, <3>2
  <2> QED
    BY <1>3, <2>3, <2>4, <2>5 DEF InitAppend, RefreshAppend
<1>4. CASE AccessAppend(p)
  <2> DEFINE row == [NoRow EXCEPT !.phase = Candidate, !.at = c.at]
  <2>1. c.session \in Sessions /\ c.story \in Stories
    BY <1>4 DEF AccessAppend, CommandPlaced
  <2>2. row \in Row
    BY <1>0 DEF Command, Row, NoRow, Phases
  <2>3. current' \in [Sessions -> [Stories -> Row]]
    BY <1>4, <2>1, <2>2, RecordTyped DEF AccessAppend
  <2>4. command' \in [Processes -> Command] /\ CommandPlaced'
    BY <1>4, ReturnTyped DEF AccessAppend
  <2> QED
    BY <1>4, <2>3, <2>4 DEF AccessAppend
<1>5. ASSUME NEW st \in Stories, TickAppend(p, st)
      PROVE  TypeInv'
  <2> DEFINE rest == [c.seen EXCEPT ![st] = NoRow]
             d == IF rest = NothingSeen THEN Idle ELSE [c EXCEPT !.seen = rest]
  <2>1. c.op = "tick" /\ c.session \in Sessions
    BY <1>5 DEF TickAppend, CommandPlaced
  <2>2. c.seen \in [Stories -> Row] /\ c.at \in Nat
    BY <1>0 DEF Command
  <2>3. current' \in [Sessions -> [Stories -> Row]]
    BY <1>5, <2>1, <2>2, RowsTyped, RecordTyped DEF TickAppend
  <2>4. rest \in [Stories -> Row]
    BY <2>2, RowsTyped
  <2>5. command' = [command EXCEPT ![p] = d]
    BY <1>5 DEF TickAppend
  <2>6. d \in Command /\ (d.op # "none" => d.op = "tick" /\ d.session = c.session)
    <3> HIDE DEF rest
    <3> QED
      BY <1>0, <2>1, <2>4, RowsTyped DEF Command, Idle
  <2>7. command' \in [Processes -> Command] /\ CommandPlaced'
    <3> HIDE DEF d
    <3> QED
      BY <2>1, <2>5, <2>6, CommandReplaced
  <2> QED
    BY <1>5, <2>3, <2>7 DEF TickAppend
<1>6. CASE Observe(p)
  <2>1. c.op = "review" /\ c.session \in Sessions /\ c.story \in Stories
    BY <1>6 DEF Observe, CommandPlaced
  <2>2. command' \in [Processes -> Command] /\ CommandPlaced'
    <3>1. CASE Returns(p)
      BY <3>1, ReturnTyped
    <3>2. CASE ~Returns(p)
      <4>1. PICK e \in BOOLEAN :
              command' = [command EXCEPT ![p] = [c EXCEPT !.op = "observed",
                            !.phase = status[c.story], !.editable = e]]
        BY <1>6, <3>2 DEF Observe, Editability, IsEditable
      <4> DEFINE d == [c EXCEPT !.op = "observed", !.phase = status[c.story], !.editable = e]
      <4>2. d \in Command /\ d.session = c.session /\ d.story = c.story
        BY <1>0, <2>1 DEF Command, Phases
      <4> HIDE DEF d
      <4>3. command' = [command EXCEPT ![p] = d]
        BY <4>1 DEF d
      <4> QED
        BY <2>1, <4>2, <4>3, CommandReplaced
    <3> QED
      BY <3>1, <3>2
  <2> QED
    BY <1>6, <2>2 DEF Observe
<1>7. CASE RefreshRead(p)
  <2>1. c.op = "observed" /\ c.session \in Sessions /\ c.story \in Stories
    BY <1>7 DEF RefreshRead, CommandPlaced
  <2> DEFINE d == [c EXCEPT !.op = "phase", !.at = now]
  <2>2. d \in Command /\ d.session = c.session /\ d.story = c.story
    BY <1>0 DEF Command
  <2>3. Returns(p) \/ command' = [command EXCEPT ![p] = d]
    BY <1>7 DEF RefreshRead
  <2>4. command' \in [Processes -> Command] /\ CommandPlaced'
    <3> HIDE DEF d
    <3> QED
      BY <2>1, <2>2, <2>3, CommandReplaced, ReturnTyped
  <2>5. active' \in [Sessions -> 0..MaxTime]
    BY <1>7 DEF RefreshRead
  <2> QED
    BY <1>7, <2>4, <2>5 DEF RefreshRead
<1> QED
  BY <1>1, <1>2, <1>3, <1>4, <1>5, <1>6, <1>7 DEF Running

LEMMA TypeNext == TypeInv /\ [Next]_vars => TypeInv'
<1> SUFFICES ASSUME TypeInv, [Next]_vars
             PROVE  TypeInv'
  OBVIOUS
<1> USE DEF TypeInv, TypeOK
<1>1. ASSUME NEW s \in Sessions, NEW st \in Stories, Close(s, st)
      PROVE  TypeInv'
  <2>1. current' \in [Sessions -> [Stories -> Row]]
    BY <1>1, RowsTyped, RecordTyped DEF Close
  <2>2. Nothing \in Deed
    BY DEF Nothing, Deed
  <2>3. did' \in [Sessions -> [Stories -> Deed]]
    BY <1>1, <2>2 DEF Close
  <2>4. /\ started' \in Nat /\ active' \in [Sessions -> 0..MaxTime]
        /\ overlapped' \subseteq Sessions
    BY <1>1 DEF Close, Begins
  <2> QED
    BY <1>1, <2>1, <2>3, <2>4 DEF Close, CommandPlaced
<1>2. ASSUME NEW st \in Stories, Moves(st)
      PROVE  TypeInv'
  <2>1. Successors(status[st]) \subseteq States
    <3>1. \A i \in Edges : Edge(i).to \in States /\ Edge(i).exhausted \in States \cup {NoState}
      BY EdgeTyped DEF Transition
    <3> QED
      BY <3>1 DEF Successors, TransitionsFrom
  <2> QED
    BY <1>2, <2>1 DEF Moves, CommandPlaced
<1>3. CASE Clock
  <2>1. now' \in 0..MaxTime
    BY <1>3, EngagementAssumption DEF Clock
  <2> QED
    BY <1>3, <2>1 DEF Clock, CommandPlaced
<1>4. CASE UNCHANGED vars
  BY <1>4 DEF vars, CommandPlaced
<1> QED
  BY <1>1, <1>2, <1>3, <1>4, StartTyped, RunTyped DEF Next

\* However commands overlap, what they read and write stays well typed.
THEOREM EngagementTyped == Spec => []TypeOK
<1>1. TypeInv => TypeOK
  BY DEF TypeInv
<1> QED
  BY <1>1, TypeInit, TypeNext, PTL DEF Spec

-----------------------------------------------------------------------------
(* A lease never outruns the activity of its session.                      *)

\* What the projection holds and what the commands are about to write both date
\* from a time at which the session was active.
LeaseFollowsActivity ==
    /\ \A s \in Sessions : active[s] <= now
    /\ \A s \in Sessions, st \in Stories : current[s][st].lease <= active[s] + EngageLeaseTTL
    /\ \A p \in Processes :
          command[p].op # "none" => command[p].at <= active[command[p].session]

LEMMA LeaseInit == Init => LeaseFollowsActivity
BY EngagementAssumption DEF Init, LeaseFollowsActivity, NoRow, Idle

\* Activity only advances, and only to the present.
LEMMA ActiveAdvances ==
    ASSUME TypeInv, LeaseFollowsActivity, [Next]_vars, NEW s \in Sessions
    PROVE  /\ active'[s] \in Nat /\ active[s] \in Nat
           /\ active[s] <= active'[s] /\ active'[s] <= now'
<1> USE DEF TypeInv, TypeOK
<1>1. active[s] \in Nat /\ now \in Nat /\ active[s] <= now
  <2>1. now \in 0..MaxTime /\ active[s] \in 0..MaxTime
    OBVIOUS
  <2>2. active[s] <= now
    BY DEF LeaseFollowsActivity
  <2> QED
    BY <2>1, <2>2, EngagementAssumption
<1>2. now' = now \/ now' = now + 1
  <2>1. ASSUME NEW p \in Processes, Starting(p) PROVE now' = now
    BY <2>1, Zenon DEF Starting, InitStart, AccessRead, TickRead, Review
  <2>2. ASSUME NEW p \in Processes, Running(p) PROVE now' = now
    BY <2>2, Zenon DEF Running, InitCheck, InitRefused, InitAppend, AccessAppend, TickAppend, Observe,
       RefreshRead, RefreshAppend
  <2>3. CASE (\E u \in Sessions, v \in Stories : Close(u, v)) \/ (\E v \in Stories : Moves(v)) \/ UNCHANGED vars
    BY <2>3, Zenon DEF Close, Moves, vars
  <2>4. CASE Clock
    BY <2>4, Zenon DEF Clock
  <2> QED
    BY <2>1, <2>2, <2>3, <2>4 DEF Next
<1>3. active'[s] = active[s] \/ active'[s] = now
  <2>1. ASSUME NEW p \in Processes, Starting(p)
        PROVE  active'[s] = active[s] \/ active'[s] = now
    BY SMTT(30), <2>1, StartedCommand DEF Starts, Begins
  <2>2. ASSUME NEW p \in Processes, Running(p)
        PROVE  active'[s] = active[s] \/ active'[s] = now
    BY <2>2 DEF Running, InitCheck, InitRefused, InitAppend, AccessAppend, TickAppend,
       Observe, RefreshRead, RefreshAppend
  <2>3. ASSUME NEW u \in Sessions, NEW v \in Stories, Close(u, v)
        PROVE  active'[s] = active[s] \/ active'[s] = now
    BY <2>3 DEF Close, Begins
  <2>4. CASE Clock \/ (\E u \in Stories : Moves(u)) \/ UNCHANGED vars
    BY <2>4 DEF Clock, Moves, vars
  <2> QED
    BY <2>1, <2>2, <2>3, <2>4 DEF Next
<1> QED
  BY <1>1, <1>2, <1>3

LEMMA LeaseNext == TypeInv /\ LeaseFollowsActivity /\ [Next]_vars => LeaseFollowsActivity'
<1> SUFFICES ASSUME TypeInv, LeaseFollowsActivity, [Next]_vars
             PROVE  LeaseFollowsActivity'
  OBVIOUS
<1> USE DEF TypeInv, TypeOK
<1>1. \A s \in Sessions : /\ active'[s] \in Nat /\ active[s] \in Nat
                           /\ active[s] <= active'[s] /\ active'[s] <= now'
  BY ActiveAdvances
<1>2. ASSUME NEW s \in Sessions, NEW st \in Stories
      PROVE  current'[s][st].lease <= active'[s] + EngageLeaseTTL
  <2>1. /\ current[s][st].lease \in Nat
        /\ current[s][st].lease <= active[s] + EngageLeaseTTL
    BY DEF LeaseFollowsActivity, Row
  <2>2. CASE current'[s][st].lease = current[s][st].lease
    BY <1>1, <2>1, <2>2, EngagementAssumption
  <2>3. ASSUME NEW p \in Processes, command[p].op # "none", command[p].session = s,
               current'[s][st].lease = command[p].at + EngageLeaseTTL
        PROVE  current'[s][st].lease <= active'[s] + EngageLeaseTTL
    <3>1. command[p].at \in Nat /\ command[p].at <= active[s]
      BY <2>3 DEF LeaseFollowsActivity, Command
    <3> QED
      BY <1>1, <2>3, <3>1, EngagementAssumption
  <2>4. CASE current'[s][st].lease = 0
    BY <1>1, <2>4, EngagementAssumption
  <2>5. ASSUME NEW p \in Processes, Running(p)
        PROVE  \/ current'[s][st].lease = current[s][st].lease
               \/ current'[s][st].lease = 0
               \/ /\ command[p].op # "none" /\ command[p].session = s
                  /\ current'[s][st].lease = command[p].at + EngageLeaseTTL
    <3>1. CASE InitAppend(p) \/ RefreshAppend(p)
      BY SMTT(30), <3>1 DEF InitAppend, RefreshAppend, Records, Leased, CommandPlaced
    <3>2. CASE AccessAppend(p)
      BY <3>2 DEF AccessAppend, Records, NoRow, CommandPlaced
    <3>3. ASSUME NEW u \in Stories, TickAppend(p, u)
          PROVE  \/ current'[s][st].lease = current[s][st].lease
                 \/ /\ command[p].op # "none" /\ command[p].session = s
                    /\ current'[s][st].lease = command[p].at + EngageLeaseTTL
      BY <3>3 DEF TickAppend, Records, Stamped, Leased, CommandPlaced
    <3>4. CASE InitCheck(p) \/ InitRefused(p) \/ Observe(p) \/ RefreshRead(p)
      BY <3>4 DEF InitCheck, InitRefused, Observe, RefreshRead
    <3> QED
      BY <2>5, <3>1, <3>2, <3>3, <3>4 DEF Running
  <2>6. ASSUME NEW u \in Sessions, NEW v \in Stories, Close(u, v)
        PROVE  current'[s][st].lease = current[s][st].lease \/ current'[s][st].lease = 0
    <3>1. current' = [current EXCEPT ![u][v] = NoRow]
      BY <2>6, Zenon DEF Close, Records
    <3>2. NoRow.lease = 0
      BY SMTT(30) DEF NoRow
    <3> QED
      BY <3>1, <3>2
  <2>7. ASSUME NEW p \in Processes, Starting(p)
        PROVE  current' = current
    BY <2>7 DEF Starting, InitStart, AccessRead, TickRead, Review
  <2>8. CASE Clock \/ (\E u \in Stories : Moves(u)) \/ UNCHANGED vars
    <3>1. current' = current
      BY <2>8 DEF Clock, Moves, vars
    <3> QED
      BY <2>2, <3>1
  <2>9. ASSUME NEW p \in Processes, Starting(p) \/ Running(p)
        PROVE  current'[s][st].lease <= active'[s] + EngageLeaseTTL
    <3>1. CASE Starting(p)
      BY <2>2, <2>7, <3>1
    <3>2. CASE Running(p)
      BY <2>2, <2>3, <2>4, <2>5, <3>2
    <3> QED
      BY <2>9, <3>1, <3>2
  <2>10. CASE \E u \in Sessions, v \in Stories : Close(u, v)
    BY <2>2, <2>4, <2>6, <2>10
  <2> QED
    BY <2>8, <2>9, <2>10 DEF Next
<1>3. ASSUME NEW p \in Processes, command'[p].op # "none"
      PROVE  command'[p].at <= active'[command'[p].session]
  <2> DEFINE s == command'[p].session
  <2>0. s \in Sessions
    BY <1>3, TypeNext DEF CommandPlaced
  <2>1. CASE command'[p].at = 0
    BY <1>1, <2>0, <2>1
  <2>2. CASE command'[p].at = now /\ active'[s] = now
    BY <1>1, <2>0, <2>2
  <2>3. CASE command[p].op # "none" /\ command'[p].at = command[p].at /\ s = command[p].session
    <3>1. command[p].at \in Nat /\ command[p].at <= active[s]
      BY <2>3 DEF LeaseFollowsActivity, Command
    <3> QED
      BY <1>1, <2>0, <2>3, <3>1
  <2>4. ASSUME NEW q \in Processes, Starting(q)
        PROVE  \/ command'[p].at = 0
               \/ command'[p].at = now /\ active'[s] = now
               \/ command[p].op # "none" /\ command'[p].at = command[p].at /\ s = command[p].session
    <3>1. PICK u \in Sessions, c \in Command :
            Starts(q, u, c) /\ c.session = u /\ c.at \in {0, now}
      BY <2>4, StartedCommand
    <3>2. CASE q = p
      <4>1. command'[p] = c /\ active'[u] = now
        BY <3>1, <3>2 DEF Starts, Begins
      <4> QED
        BY <3>1, <4>1
    <3>3. CASE q # p
      BY <1>3, <3>1, <3>3 DEF Starts
    <3> QED
      BY <3>2, <3>3
  <2>5. ASSUME NEW q \in Processes, Running(q)
        PROVE  \/ command'[p].at = now /\ active'[s] = now
               \/ /\ command[p].op # "none" /\ command'[p].at = command[p].at
                  /\ s = command[p].session
    <3>1. CASE q # p \/ Returns(q)
      <4>1. command'[p] = command[p] \/ command'[p] = Idle
        BY <2>5, <3>1 DEF Running, InitCheck, InitRefused, InitAppend, AccessAppend,
           TickAppend, Observe, RefreshRead, RefreshAppend, Returns
      <4>2. command'[p] # Idle
        BY <1>3 DEF Idle
      <4> QED
        BY SMTT(30), <1>3, <4>1, <4>2
    <3>2. CASE q = p /\ ~Returns(q)
      <4>1. CASE InitCheck(p) \/ RefreshRead(p)
        <5>1. command[p] \in Command /\ command[p].session \in Sessions
          BY <4>1 DEF InitCheck, RefreshRead, CommandPlaced
        <5>2. command'[p].at = now /\ command'[p].session = command[p].session
          <6>1. ASSUME NEW o \in {"engage", "phase"},
                       command' = [command EXCEPT ![p].op = o, ![p].at = now]
                PROVE  command'[p].at = now /\ command'[p].session = command[p].session
            BY <5>1, <6>1 DEF TypeInv, TypeOK, Command
          <6>2. ASSUME command' = [command EXCEPT ![p] = [command[p] EXCEPT !.op = "phase", !.at = now]]
                PROVE  command'[p].at = now /\ command'[p].session = command[p].session
            BY <5>1, <6>2 DEF TypeInv, TypeOK, Command
          <6>3. CASE InitCheck(p)
            BY <6>1, <6>3 DEF InitCheck
          <6>4. CASE RefreshRead(p)
            BY <3>2, <6>2, <6>4 DEF RefreshRead
          <6> QED
            BY <4>1, <6>3, <6>4
        <5>3. active'[command[p].session] = now
          BY <3>2, <4>1, <5>1 DEF InitCheck, RefreshRead
        <5> QED
          BY <5>2, <5>3
      <4>2. CASE Observe(p)
        <5>1. PICK e : command' = [command EXCEPT ![p] = [command[p] EXCEPT !.op = "observed",
                                      !.phase = status[command[p].story], !.editable = e]]
          BY <3>2, <4>2, Zenon DEF Observe
        <5>2. command[p] \in Command /\ command[p].op = "review"
          BY <4>2 DEF Observe
        <5>3. command'[p] = [command[p] EXCEPT !.op = "observed",
                                !.phase = status[command[p].story], !.editable = e]
          BY <5>1
        <5> QED
          BY <5>2, <5>3 DEF Command
      <4>3. ASSUME NEW st \in Stories, TickAppend(p, st)
            PROVE  \/ command'[p].at = now /\ active'[s] = now
                   \/ /\ command[p].op # "none" /\ command'[p].at = command[p].at
                      /\ s = command[p].session
        BY <1>3, <4>3 DEF TickAppend, Command, Idle
      <4> QED
        BY <2>5, <3>2, <4>1, <4>2, <4>3 DEF Running, InitRefused, InitAppend, AccessAppend,
           RefreshAppend
    <3> QED
      BY <3>1, <3>2
  <2>6. CASE \/ \E u \in Sessions, v \in Stories : Close(u, v)
             \/ Clock \/ (\E u \in Stories : Moves(u)) \/ UNCHANGED vars
    BY <1>3, <2>3, <2>6 DEF Close, Clock, Moves, vars
  <2> QED
    BY <1>3, <2>1, <2>2, <2>3, <2>4, <2>5, <2>6 DEF Next
<1> QED
  BY <1>1, <1>2, <1>3 DEF LeaseFollowsActivity

\* However its commands overlap, a session that has run none for a whole lease
\* (engageLeaseTTL) is shut out by the edit door.
THEOREM IdleSessionsStale == Spec => []IdleSessionStale
<1>1. TypeInv /\ LeaseFollowsActivity => IdleSessionStale
  <2> SUFFICES ASSUME TypeInv, LeaseFollowsActivity, NEW s \in Sessions, NEW st \in Stories,
                      now >= active[s] + EngageLeaseTTL
               PROVE  ~IsLeaseFresh(current[s][st])
    BY DEF IdleSessionStale, DoorAllows
  <2>1. /\ current[s][st].lease \in Nat /\ current[s][st].lease <= active[s] + EngageLeaseTTL
        /\ active[s] \in Nat /\ now \in Nat
    BY EngagementAssumption DEF TypeInv, TypeOK, Row, LeaseFollowsActivity
  <2> QED
    BY <2>1, EngagementAssumption DEF IsLeaseFresh
<1> QED
  BY <1>1, TypeInit, TypeNext, LeaseInit, LeaseNext, PTL DEF Spec

-----------------------------------------------------------------------------
\* The edit door, as long as every guard lookup reaches the server: what it opens on and what
\* the stop hook then says.

Sound(phase, editable) == editable /\ phase \in States => IsEditable(phase)

\* EditableMatchesPhase is not inductive alone: a row may come from a command that
\* recorded what it will write, or from a ticker's copy of an earlier row.
RowsSound == \A s \in Sessions, st \in Stories : Sound(current[s][st].phase, current[s][st].editable)
CommandsSound ==
    \A p \in Processes :
        /\ Sound(command[p].phase, command[p].editable)
        /\ \A st \in Stories : Sound(command[p].seen[st].phase, command[p].seen[st].editable)
EditInv == RowsSound /\ CommandsSound

LEMMA EditInit == Init => EditInv
BY DEF Init, EditInv, RowsSound, CommandsSound, Sound, Idle, NothingSeen, NoRow

\* A command that starts sound, or goes on sound, keeps CommandsSound.
LEMMA CommandsKept ==
    ASSUME TypeInv, EditInv, NEW p \in Processes, NEW c \in Command,
           command' = [command EXCEPT ![p] = c],
           Sound(c.phase, c.editable),
           \A st \in Stories : Sound(c.seen[st].phase, c.seen[st].editable)
    PROVE  CommandsSound'
<1>1. \A q \in Processes : command'[q] = IF q = p THEN c ELSE command[q]
  BY DEF TypeInv, TypeOK
<1> QED
  BY <1>1 DEF EditInv, CommandsSound, Sound

LEMMA ReturnSound ==
    ASSUME TypeInv, EditInv, NEW p \in Processes, Returns(p)
    PROVE  CommandsSound'
<1>1. Idle \in Command
  BY RowsTyped
<1>2. Sound(Idle.phase, Idle.editable)
      /\ \A st \in Stories : Sound(Idle.seen[st].phase, Idle.seen[st].editable)
  BY DEF Sound, Idle, NothingSeen, NoRow
<1> QED
  BY <1>1, <1>2, CommandsKept DEF Returns

LEMMA RecordSound ==
    ASSUME TypeInv, EditInv, NEW s \in Sessions, NEW st \in Stories, NEW row \in Row,
           Records(s, st, row), Sound(row.phase, row.editable)
    PROVE  RowsSound'
<1>1. \A u \in Sessions, v \in Stories :
        current'[u][v] = IF u = s /\ v = st THEN row ELSE current[u][v]
  BY DEF TypeInv, TypeOK, Records
<1> QED
  BY <1>1 DEF EditInv, RowsSound, Sound

\* Every command starts sound when the guard lookups reach the server.
LEMMA StartSound ==
    ASSUME Reachable, TypeInv, EditInv, NEW p \in Processes, Starting(p)
    PROVE  EditInv'
<1> USE DEF TypeInv, TypeOK
<1>1. RowsSound'
  BY DEF Starting, TickRead, InitStart, AccessRead, Review, EditInv, RowsSound, Sound
<1>2. PICK s \in Sessions :
        \/ TickRead(p, s)
        \/ \E st \in Stories : \/ \E flag \in InitFlags : InitStart(p, s, st, flag)
                               \/ AccessRead(p, s, st) \/ Review(p, s, st)
  BY DEF Starting
<1>3. now \in Nat
  BY EngagementAssumption
<1>4. CASE TickRead(p, s)
  <2> DEFINE seen == [st \in Stories |-> IF Due(current[s][st]) THEN current[s][st] ELSE NoRow]
             c == [Idle EXCEPT !.op = "tick", !.session = s, !.seen = seen, !.at = now]
  <2>1. seen \in [Stories -> Row]
    BY RowsTyped
  <2>2. \A st \in Stories : Sound(seen[st].phase, seen[st].editable)
    BY DEF EditInv, RowsSound, Sound, NoRow
  <2> HIDE DEF seen
  <2>3. c \in Command /\ c.editable = FALSE /\ c.seen = seen
    BY <1>3, <2>1, RowsTyped DEF Idle, Command
  <2>4. command' = [command EXCEPT ![p] = c]
    BY <1>4 DEF TickRead, Starts, seen
  <2>5. Sound(c.phase, c.editable)
    BY <2>3 DEF Sound
  <2> QED
    BY <1>1, <2>2, <2>3, <2>4, <2>5, CommandsKept DEF EditInv
<1>5. ASSUME NEW st \in Stories, NEW flag \in InitFlags, InitStart(p, s, st, flag)
      PROVE  EditInv'
  <2> DEFINE phase == IF flag = Unset THEN status[st] ELSE flag
             c == [Idle EXCEPT !.op = "init", !.session = s, !.story = st,
                               !.phase = flag, !.editable = IsEditable(phase)]
  <2>1. command' = [command EXCEPT ![p] = c]
    BY <1>5 DEF InitStart, Starts, Editability
  <2>2. flag \in Phases /\ IsEditable(phase) \in BOOLEAN
    BY EngagementAssumption DEF Phases, IsEditable
  <2>3. c \in Command /\ c.phase = flag /\ c.editable = IsEditable(phase) /\ c.seen = NothingSeen
    BY <2>2, RowsTyped DEF Idle, Command
  <2>4. Sound(c.phase, c.editable)
    <3>1. Unset \notin States
      BY EngagementAssumption DEF IsEditable
    <3> QED
      BY <2>3, <3>1 DEF Sound
  <2>5. \A v \in Stories : Sound(c.seen[v].phase, c.seen[v].editable)
    BY <2>3 DEF Sound, NothingSeen, NoRow
  <2> QED
    BY <1>1, <2>1, <2>3, <2>4, <2>5, CommandsKept DEF EditInv
<1>6. ASSUME NEW st \in Stories, AccessRead(p, s, st) \/ Review(p, s, st)
      PROVE  EditInv'
  <2> DEFINE a == [Idle EXCEPT !.op = "candidate", !.session = s, !.story = st, !.at = now]
             r == [Idle EXCEPT !.op = "review", !.session = s, !.story = st,
                               !.phase = status[st]]
  <2>1. status[st] \in Phases
    BY DEF Phases
  <2>2. /\ a \in Command /\ a.editable = FALSE /\ a.seen = NothingSeen
        /\ r \in Command /\ r.editable = FALSE /\ r.seen = NothingSeen
    BY <1>3, <2>1, RowsTyped DEF Idle, Command
  <2>3. PICK c \in Command : /\ command' = [command EXCEPT ![p] = c]
                              /\ c.editable = FALSE /\ c.seen = NothingSeen
    BY <1>6, <2>2 DEF AccessRead, Review, Starts
  <2>4. /\ Sound(c.phase, c.editable)
        /\ \A v \in Stories : Sound(c.seen[v].phase, c.seen[v].editable)
    BY <2>3 DEF Sound, NothingSeen, NoRow
  <2> QED
    BY <1>1, <2>3, <2>4, CommandsKept DEF EditInv
<1> QED
  BY <1>2, <1>4, <1>5, <1>6

\* Every step of a command keeps the rows and the commands sound.
LEMMA RunSound ==
    ASSUME Reachable, TypeInv, EditInv, NEW p \in Processes, Running(p)
    PROVE  EditInv'
<1> USE DEF TypeInv, TypeOK
<1>1. now \in Nat /\ command[p] \in Command /\ (Returns(p) => CommandsSound')
  BY EngagementAssumption, ReturnSound
<1>2. ASSUME UNCHANGED current
      PROVE  RowsSound'
  BY <1>2 DEF EditInv, RowsSound, Sound
<1>3. /\ Sound(command[p].phase, command[p].editable)
      /\ \A st \in Stories : Sound(command[p].seen[st].phase, command[p].seen[st].editable)
  BY DEF EditInv, CommandsSound
<1>4. ASSUME NEW o \in {"engage", "phase"},
             command' = [command EXCEPT ![p] = [command[p] EXCEPT !.op = o, !.at = now]]
      PROVE  CommandsSound'
  <2> DEFINE c == [command[p] EXCEPT !.op = o, !.at = now]
  <2>1. c \in Command /\ c.phase = command[p].phase /\ c.editable = command[p].editable
        /\ c.seen = command[p].seen
    BY <1>1 DEF Command
  <2> HIDE DEF c
  <2>2. command' = [command EXCEPT ![p] = c]
    BY <1>4 DEF c
  <2> QED
    BY <1>3, <2>1, <2>2, CommandsKept
<1>5. CASE InitCheck(p)
  <2>1. command' = [command EXCEPT ![p] = [command[p] EXCEPT !.op = "engage", !.at = now]]
    BY <1>5 DEF InitCheck
  <2> QED
    BY <1>2, <1>4, <1>5, <2>1 DEF InitCheck, EditInv
<1>6. CASE InitRefused(p)
  BY <1>1, <1>2, <1>6 DEF InitRefused, EditInv
<1>7. CASE InitAppend(p) \/ RefreshAppend(p)
  <2> DEFINE c == command[p]
             row == Leased(c.phase, c.editable, c.at)
  <2>1. Returns(p) /\ Records(c.session, c.story, row)
    BY <1>7 DEF InitAppend, RefreshAppend
  <2>2. c.session \in Sessions /\ c.story \in Stories
    BY <1>7 DEF CommandPlaced, InitAppend, RefreshAppend
  <2>3. row \in Row
    BY <1>1, RowsTyped DEF Command
  <2>4. Sound(row.phase, row.editable)
    BY <1>3 DEF Leased
  <2> QED
    BY <1>1, <2>1, <2>2, <2>3, <2>4, RecordSound DEF EditInv
<1>8. CASE AccessAppend(p)
  <2> DEFINE c == command[p]
             row == [NoRow EXCEPT !.phase = Candidate, !.at = c.at]
  <2>1. Returns(p) /\ Records(c.session, c.story, row)
    BY <1>8 DEF AccessAppend
  <2>2. c.session \in Sessions /\ c.story \in Stories
    BY <1>8 DEF CommandPlaced, AccessAppend
  <2>3. row \in Row /\ Sound(row.phase, row.editable)
    BY <1>1 DEF Row, NoRow, Phases, Command, Sound
  <2> QED
    BY <1>1, <2>1, <2>2, <2>3, RecordSound DEF EditInv
<1>9. ASSUME NEW st \in Stories, TickAppend(p, st)
      PROVE  EditInv'
  <2> DEFINE c == command[p]
             rest == [c.seen EXCEPT ![st] = NoRow]
             row == Stamped(c.seen[st], c.at)
             d == [c EXCEPT !.seen = rest]
  <2>1. Records(c.session, st, row) /\ c.session \in Sessions
    BY <1>9 DEF TickAppend, CommandPlaced
  <2>2. row \in Row
    BY <1>1, RowsTyped DEF Command
  <2>3. Sound(row.phase, row.editable)
    BY <1>3 DEF Stamped, Leased
  <2>4. RowsSound'
    BY <2>1, <2>2, <2>3, RecordSound
  <2>5. rest \in [Stories -> Row] /\ \A v \in Stories : Sound(rest[v].phase, rest[v].editable)
    BY <1>1, <1>3, RowsTyped DEF Command, Sound, NoRow
  <2> HIDE DEF rest
  <2>6. d \in Command /\ d.phase = c.phase /\ d.editable = c.editable /\ d.seen = rest
    BY <1>1, <2>5 DEF Command
  <2>7. Returns(p) \/ command' = [command EXCEPT ![p] = d]
    BY <1>9 DEF TickAppend, Returns, rest
  <2> HIDE DEF d
  <2>8. CommandsSound'
    BY <1>1, <1>3, <2>5, <2>6, <2>7, CommandsKept
  <2> QED
    BY <2>4, <2>8 DEF EditInv
<1>10. CASE Observe(p)
  <2> DEFINE ph == status[command[p].story]
             c == [command[p] EXCEPT !.op = "observed", !.phase = ph,
                                     !.editable = IsEditable(ph)]
  <2>1. Returns(p) \/ command' = [command EXCEPT ![p] = c]
    BY <1>10 DEF Observe, Editability
  <2>2. ph \in Phases /\ IsEditable(ph) \in BOOLEAN
    BY <1>10 DEF Observe, CommandPlaced, Phases, IsEditable
  <2>3. c \in Command /\ c.phase = ph /\ c.editable = IsEditable(ph) /\ c.seen = command[p].seen
    BY <1>1, <2>2 DEF Command
  <2>4. Sound(c.phase, c.editable)
    BY <2>3 DEF Sound
  <2>5. CommandsSound'
    BY <1>1, <1>3, <2>1, <2>3, <2>4, CommandsKept
  <2> QED
    BY <1>2, <1>10, <2>5 DEF Observe, EditInv
<1>11. CASE RefreshRead(p)
  <2>1. Returns(p)
        \/ command' = [command EXCEPT ![p] = [command[p] EXCEPT !.op = "phase", !.at = now]]
    BY <1>11 DEF RefreshRead
  <2>2. CommandsSound'
    BY <1>1, <1>4, <2>1
  <2> QED
    BY <1>2, <1>11, <2>2 DEF RefreshRead, EditInv
<1> QED
  BY <1>5, <1>6, <1>7, <1>8, <1>9, <1>10, <1>11 DEF Running

LEMMA EditNext ==
    ASSUME Reachable
    PROVE  TypeInv /\ EditInv /\ [Next]_vars => EditInv'
<1> SUFFICES ASSUME TypeInv, EditInv, [Next]_vars
             PROVE  EditInv'
  OBVIOUS
<1>1. CASE \E p \in Processes : Starting(p) \/ Running(p)
  BY <1>1, StartSound, RunSound
<1>2. ASSUME NEW s \in Sessions, NEW st \in Stories, Close(s, st)
      PROVE  EditInv'
  <2>1. NoRow \in Row /\ Sound(NoRow.phase, NoRow.editable)
    BY RowsTyped DEF NoRow, Sound
  <2>2. RowsSound'
    BY <1>2, <2>1, RecordSound DEF Close
  <2> QED
    BY <1>2, <2>2 DEF Close, EditInv, CommandsSound, Sound
<1>3. CASE (\E st \in Stories : Moves(st)) \/ Clock \/ UNCHANGED vars
  BY <1>3 DEF Moves, Clock, vars, EditInv, RowsSound, CommandsSound, Sound
<1> QED
  BY <1>1, <1>2, <1>3 DEF Next

\* Where every guard lookup reaches the server, no row is editable in a phase the
\* workflow closes to edits, whatever a ticker writes back over a review's refresh.
THEOREM DoorMatchesWorkflow == Reachable => (Spec => []EditableMatchesPhase)
<1> SUFFICES ASSUME Reachable PROVE Spec => []EditableMatchesPhase
  OBVIOUS
<1>1. Init => TypeInv /\ EditInv
  BY TypeInit, EditInit
<1>2. TypeInv /\ EditInv /\ [Next]_vars => TypeInv' /\ EditInv'
  BY TypeNext, EditNext
<1>3. EditInv => EditableMatchesPhase
  BY DEF EditInv, RowsSound, Sound, EditableMatchesPhase
<1> QED
  BY <1>1, <1>2, <1>3, PTL DEF Spec

\* Where every guard lookup reaches the server, the edit door and the stop hook
\* agree: a session that may edit is not let stop.
THEOREM EditorsStay == Reachable => (Spec => []EditorMayNotStop)
<1> SUFFICES ASSUME Reachable PROVE Spec => []EditorMayNotStop
  OBVIOUS
<1>1. EditableMatchesPhase => EditorMayNotStop
  <2> SUFFICES ASSUME EditableMatchesPhase, NEW s \in Sessions, NEW st \in Stories,
                      Engaged(current[s][st]), IsLeaseFresh(current[s][st]),
                      current[s][st].editable, current[s][st].phase \in States
               PROVE  ~IsTerminal(current[s][st].phase)
    BY DEF EditorMayNotStop, DoorAllows, StopBlocked
  <2> QED
    BY DEF EditableMatchesPhase, IsEditable
<1>2. Spec => []EditableMatchesPhase
  BY DoorMatchesWorkflow
<1> QED
  BY <1>1, <1>2, PTL

-----------------------------------------------------------------------------
(* What a session whose commands do not overlap finds in its rows.         *)

\* RowFollowsSession is not inductive alone: a ticker writes back a row it read, which is the
\* session's latest only if no other command of the session ran in between.
Alone ==
    \A s \in Sessions \ overlapped, p, q \in Processes :
        command[p].session = s /\ command[q].session = s => p = q
TicksFollow ==
    \A p \in Processes, st \in Stories :
        LET c == command[p]
        IN  c.op = "tick" /\ c.session \in Sessions \ overlapped /\ c.seen[st] # NoRow
            => c.seen[st].phase = did[c.session][st].phase
FollowInv == RowFollowsSession /\ Alone /\ TicksFollow

LEMMA FollowInit == Init => FollowInv
<1> SUFFICES ASSUME Init
             PROVE  FollowInv
  OBVIOUS
<1>1. RowFollowsSession
  BY DEF Init, RowFollowsSession, Engaged, NoRow
<1>2. Alone
  BY EngagementAssumption DEF Init, Alone, Idle
<1>3. TicksFollow
  BY DEF Init, TicksFollow, Idle
<1> QED
  BY <1>1, <1>2, <1>3 DEF FollowInv

\* A command that goes on, or returns, brings no session a second one.
LEMMA AloneKept ==
    ASSUME TypeInv, Alone, NEW p \in Processes, NEW c,
           command' = [command EXCEPT ![p] = c],
           c.session \in {command[p].session, NoSession},
           overlapped' = overlapped
    PROVE  Alone'
<1>1. \A q \in Processes : command'[q] = IF q = p THEN c ELSE command[q]
  BY DEF TypeInv, TypeOK
<1> QED
  BY <1>1, EngagementAssumption DEF Alone

\* A session whose commands do not overlap has a command started: it had none.
LEMMA AloneStarts ==
    ASSUME TypeInv, Alone, NEW p \in Processes, NEW s \in Sessions, NEW c,
           Starts(p, s, c), c.session = s
    PROVE  /\ Alone'
           /\ overlapped \subseteq overlapped'
           /\ s \notin overlapped' => \A q \in Processes : command[q].session # s
<1>1. \A q \in Processes : command'[q] = IF q = p THEN c ELSE command[q]
  BY DEF TypeInv, TypeOK, Starts
<1>2. /\ overlapped \subseteq overlapped'
      /\ s \notin overlapped' => \A q \in Processes : command[q].session # s
  BY DEF Starts, Begins
<1> QED
  BY <1>1, <1>2 DEF Alone

\* An init or a refresh records a phase as the session's deed.
LEMMA DeedRecorded ==
    ASSUME TypeInv, FollowInv, NEW p \in Processes, NEW s \in Sessions, NEW st \in Stories,
           NEW row, command[p].session = s, Records(s, st, row), Returns(p),
           UNCHANGED overlapped,
           did'[s][st].phase = row.phase,
           \A u \in Sessions, v \in Stories : <<u, v>> # <<s, st>> => did'[u][v] = did[u][v]
    PROVE  FollowInv'
<1>1. \A u \in Sessions, v \in Stories :
        current'[u][v] = IF u = s /\ v = st THEN row ELSE current[u][v]
  BY DEF TypeInv, TypeOK, Records
<1>2. \A q \in Processes : command'[q] = IF q = p THEN Idle ELSE command[q]
  BY DEF TypeInv, TypeOK, Returns
<1>3. RowFollowsSession'
  BY <1>1 DEF FollowInv, RowFollowsSession, Engaged
<1>4. Alone'
  BY AloneKept DEF FollowInv, Returns, Idle
<1>5. TicksFollow'
  <2> SUFFICES ASSUME NEW q \in Processes, NEW v \in Stories, command'[q].op = "tick",
                      command'[q].session \in Sessions \ overlapped, command'[q].seen[v] # NoRow
               PROVE  command'[q].seen[v].phase = did'[command'[q].session][v].phase
    BY DEF TicksFollow
  <2>1. q # p /\ command'[q] = command[q]
    BY <1>2 DEF Idle
  <2>2. command[q].session # s
    BY <2>1 DEF FollowInv, Alone
  <2> QED
    BY <2>1, <2>2 DEF FollowInv, TicksFollow
<1> QED
  BY <1>3, <1>4, <1>5 DEF FollowInv

\* A command that starts and is no ticker.
LEMMA StartedOther ==
    ASSUME TypeInv, NEW p \in Processes, Starting(p), ~\E s \in Sessions : TickRead(p, s)
    PROVE  \E d \in Command : Starts(p, d.session, d) /\ d.op # "tick"
<1>1. PICK s \in Sessions, st \in Stories :
        \/ \E flag \in InitFlags : InitStart(p, s, st, flag)
        \/ AccessRead(p, s, st) \/ Review(p, s, st)
  BY DEF Starting
<1>2. now \in Nat /\ status[st] \in Phases
  BY EngagementAssumption DEF TypeInv, TypeOK, Phases
<1>3. ASSUME NEW flag \in InitFlags, NEW e \in BOOLEAN
      PROVE  LET c == [Idle EXCEPT !.op = "init", !.session = s, !.story = st,
                                   !.phase = flag, !.editable = e]
             IN  c \in Command /\ c.op = "init" /\ c.session = s
  <2>1. flag \in Phases
    BY EngagementAssumption DEF Phases
  <2> QED
    BY <2>1, RowsTyped DEF Idle, Command
<1>4. LET a == [Idle EXCEPT !.op = "candidate", !.session = s, !.story = st, !.at = now]
          r == [Idle EXCEPT !.op = "review", !.session = s, !.story = st, !.phase = status[st]]
      IN  /\ a \in Command /\ a.op = "candidate" /\ a.session = s
          /\ r \in Command /\ r.op = "review" /\ r.session = s
  BY <1>2, RowsTyped DEF Idle, Command
<1>5. CASE \E flag \in InitFlags : InitStart(p, s, st, flag)
  <2>1. PICK flag \in InitFlags, e \in BOOLEAN :
          Starts(p, s, [Idle EXCEPT !.op = "init", !.session = s, !.story = st,
                                    !.phase = flag, !.editable = e])
    BY <1>5 DEF InitStart, Editability, IsEditable
  <2> QED
    BY <1>3, <2>1
<1>6. CASE AccessRead(p, s, st) \/ Review(p, s, st)
  BY <1>4, <1>6 DEF AccessRead, Review
<1> QED
  BY <1>1, <1>5, <1>6

\* An init, a review or a refresh that goes on stays what it is.
LEMMA GoesOn ==
    ASSUME TypeInv, NEW p \in Processes, InitCheck(p) \/ Observe(p) \/ RefreshRead(p), ~Returns(p)
    PROVE  \E d \in Command : /\ command' = [command EXCEPT ![p] = d]
                              /\ d.session = command[p].session /\ d.op # "tick"
<1> DEFINE c == command[p]
<1>1. c \in Command /\ now \in Nat
  BY EngagementAssumption DEF TypeInv, TypeOK
<1>2. ASSUME NEW o \in {"engage", "phase"}
      PROVE  LET d == [c EXCEPT !.op = o, !.at = now]
             IN  d \in Command /\ d.session = c.session /\ d.op = o
  BY <1>1 DEF Command
<1>3. CASE InitCheck(p) \/ RefreshRead(p)
  <2>1. PICK o \in {"engage", "phase"} : command' = [command EXCEPT ![p] = [c EXCEPT !.op = o, !.at = now]]
    BY <1>3 DEF InitCheck, RefreshRead
  <2> QED
    BY <1>2, <2>1
<1>4. CASE Observe(p)
  <2>1. PICK e \in BOOLEAN :
          command' = [command EXCEPT ![p] = [c EXCEPT !.op = "observed",
                        !.phase = status[c.story], !.editable = e]]
    BY <1>4 DEF Observe, Editability, IsEditable
  <2>2. status[c.story] \in Phases
    BY <1>4 DEF Observe, TypeInv, CommandPlaced, TypeOK, Phases
  <2>3. LET d == [c EXCEPT !.op = "observed", !.phase = status[c.story], !.editable = e]
        IN  d \in Command /\ d.session = c.session /\ d.op = "observed"
    BY <1>1, <2>2 DEF Command
  <2> QED
    BY <2>1, <2>3
<1> QED
  BY <1>3, <1>4

LEMMA StartFollows ==
    ASSUME TypeInv, FollowInv, NEW p \in Processes, Starting(p)
    PROVE  FollowInv'
<1>1. UNCHANGED <<current, did>>
  BY DEF Starting, InitStart, AccessRead, TickRead, Review
<1>2. PICK s \in Sessions, c \in Command :
        /\ Starts(p, s, c) /\ c.session = s
        /\ \A st \in Stories : c.op = "tick" /\ c.seen[st] # NoRow =>
              Engaged(current[s][st]) /\ c.seen[st] = current[s][st]
  <2>1. CASE \E s \in Sessions : TickRead(p, s)
    <3>1. PICK s \in Sessions : TickRead(p, s)
      BY <2>1
    <3> DEFINE seen == [st \in Stories |-> IF Due(current[s][st]) THEN current[s][st] ELSE NoRow]
               c == [Idle EXCEPT !.op = "tick", !.session = s, !.seen = seen, !.at = now]
    <3>2. seen \in [Stories -> Row] /\ now \in Nat
      BY RowsTyped, EngagementAssumption DEF TypeInv, TypeOK
    <3>3. \A st \in Stories : seen[st] # NoRow => Engaged(current[s][st]) /\ seen[st] = current[s][st]
      BY DEF Due
    <3>4. Starts(p, s, c)
      BY <3>1 DEF TickRead
    <3> HIDE DEF seen
    <3>5. c \in Command /\ c.session = s /\ c.seen = seen
      BY <3>2, RowsTyped DEF Idle, Command
    <3> QED
      BY ZenonT(60), <3>3, <3>4, <3>5
  <2>2. CASE ~\E s \in Sessions : TickRead(p, s)
    <3>1. PICK s \in Sessions, c \in Command : Starts(p, s, c) /\ c.session = s
      BY StartedCommand
    <3>2. c.op # "tick"
      <4>1. PICK d : Starts(p, d.session, d) /\ d.op # "tick" /\ d \in Command
        BY <2>2, StartedOther
      <4>2. command'[p] = c /\ command'[p] = d
        BY <3>1, <4>1 DEF Starts, TypeInv, TypeOK
      <4> QED
        BY <4>1, <4>2
    <3> QED
      BY <3>1, <3>2
  <2> QED
    BY <2>1, <2>2
<1>3. /\ Alone' /\ overlapped \subseteq overlapped'
      /\ s \notin overlapped' => \A q \in Processes : command[q].session # s
  BY <1>2, AloneStarts DEF FollowInv
<1>4. RowFollowsSession'
  BY <1>1, <1>3 DEF FollowInv, RowFollowsSession, Engaged
<1>5. TicksFollow'
  <2> SUFFICES ASSUME NEW q \in Processes, NEW v \in Stories, command'[q].op = "tick",
                      command'[q].session \in Sessions \ overlapped', command'[q].seen[v] # NoRow
               PROVE  command'[q].seen[v].phase = did'[command'[q].session][v].phase
    BY DEF TicksFollow
  <2>1. command'[q] = IF q = p THEN c ELSE command[q]
    BY <1>2 DEF Starts, TypeInv, TypeOK
  <2>2. CASE q = p
    BY <1>1, <1>2, <1>3, <2>1, <2>2 DEF FollowInv, RowFollowsSession
  <2>3. CASE q # p
    BY <1>1, <1>3, <2>1, <2>3 DEF FollowInv, TicksFollow
  <2> QED
    BY <2>2, <2>3
<1> QED
  BY <1>3, <1>4, <1>5 DEF FollowInv

LEMMA RunFollows ==
    ASSUME TypeInv, FollowInv, NEW p \in Processes, Running(p)
    PROVE  FollowInv'
<1> DEFINE c == command[p]
<1>0. c \in Command /\ \A q \in Processes : command[q] \in Command
  BY DEF TypeInv, TypeOK
<1>1. CASE InitAppend(p) \/ RefreshAppend(p)
  <2>1. c.session \in Sessions /\ c.story \in Stories
    BY <1>1 DEF InitAppend, RefreshAppend, TypeInv, CommandPlaced
  <2>2. /\ Records(c.session, c.story, Leased(c.phase, c.editable, c.at)) /\ Returns(p)
        /\ UNCHANGED overlapped
    BY <1>1 DEF InitAppend, RefreshAppend
  <2>3. /\ did'[c.session][c.story].phase = c.phase
        /\ \A u \in Sessions, v \in Stories :
              <<u, v>> # <<c.session, c.story>> => did'[u][v] = did[u][v]
    <3>1. did[c.session][c.story] \in Deed
      BY <2>1 DEF TypeInv, TypeOK
    <3>2. PICK deed : deed.phase = c.phase /\ did' = [did EXCEPT ![c.session][c.story] = deed]
      <4>1. [did[c.session][c.story] EXCEPT !.phase = c.phase].phase = c.phase
        BY <3>1 DEF Deed
      <4> QED
        BY <1>1, <4>1 DEF InitAppend, RefreshAppend
    <3> QED
      BY <2>1, <3>2 DEF TypeInv, TypeOK
  <2>4. Leased(c.phase, c.editable, c.at).phase = c.phase
    BY DEF Leased
  <2> QED
    BY <2>1, <2>2, <2>3, <2>4, DeedRecorded
<1>2. ASSUME UNCHANGED <<did, overlapped>>,
             NEW d \in Command, command' = [command EXCEPT ![p] = d],
             d.session \in {c.session, NoSession},
             \A st \in Stories : d.op = "tick" /\ d.seen[st] # NoRow =>
                 c.op = "tick" /\ d.session = c.session /\ c.seen[st] = d.seen[st]
      PROVE  Alone' /\ TicksFollow'
  <2>1. Alone'
    BY <1>2, AloneKept DEF FollowInv
  <2>2. \A q \in Processes : command'[q] = IF q = p THEN d ELSE command[q]
    BY <1>2 DEF TypeInv, TypeOK
  <2>3. TicksFollow'
    BY <1>2, <2>2 DEF FollowInv, TicksFollow
  <2> QED
    BY <2>1, <2>3
<1>3. ASSUME UNCHANGED <<did, overlapped>>, Returns(p)
      PROVE  Alone' /\ TicksFollow'
  <2>1. Idle \in Command /\ Idle.op = "none" /\ Idle.session = NoSession
    BY RowsTyped DEF Idle
  <2> QED
    BY <1>2, <1>3, <2>1 DEF Returns
<1>4. CASE InitRefused(p)
  BY <1>3, <1>4 DEF InitRefused, FollowInv, RowFollowsSession, Engaged
<1>5. CASE InitCheck(p) \/ Observe(p) \/ RefreshRead(p)
  <2>1. UNCHANGED <<current, did, overlapped>>
    BY <1>5 DEF InitCheck, Observe, RefreshRead
  <2>2. CASE Returns(p)
    BY <1>3, <2>1, <2>2 DEF FollowInv, RowFollowsSession, Engaged
  <2>3. CASE ~Returns(p)
    <3>1. PICK d \in Command : /\ command' = [command EXCEPT ![p] = d]
                               /\ d.session = c.session /\ d.op # "tick"
      BY <1>5, <2>3, GoesOn
    <3> QED
      BY <1>2, <2>1, <3>1 DEF FollowInv, RowFollowsSession, Engaged
  <2> QED
    BY <2>2, <2>3
<1>6. CASE AccessAppend(p)
  <2> DEFINE row == [NoRow EXCEPT !.phase = Candidate, !.at = c.at]
  <2>1. c.session \in Sessions /\ c.story \in Stories /\ row.phase = Candidate
    BY <1>6 DEF AccessAppend, TypeInv, CommandPlaced, NoRow
  <2>2. \A u \in Sessions, v \in Stories :
          current'[u][v] = IF u = c.session /\ v = c.story THEN row ELSE current[u][v]
    BY <1>6, <2>1 DEF AccessAppend, Records, TypeInv, TypeOK
  <2>3. UNCHANGED <<did, overlapped>> /\ Returns(p)
    BY <1>6 DEF AccessAppend
  <2> HIDE DEF row
  <2>4. RowFollowsSession'
    BY <2>1, <2>2, <2>3 DEF FollowInv, RowFollowsSession, Engaged
  <2> QED
    BY <1>3, <2>3, <2>4 DEF FollowInv
<1>7. ASSUME NEW st \in Stories, TickAppend(p, st)
      PROVE  FollowInv'
  <2> DEFINE rest == [c.seen EXCEPT ![st] = NoRow]
             d == IF rest = NothingSeen THEN Idle ELSE [c EXCEPT !.seen = rest]
             row == Stamped(c.seen[st], c.at)
  <2>1. c.op = "tick" /\ c.session \in Sessions /\ c.seen \in [Stories -> Row]
    BY <1>0, <1>7 DEF TickAppend, TypeInv, CommandPlaced, Command
  <2>2. c.seen[st] # NoRow /\ UNCHANGED <<did, overlapped>> /\ row.phase = c.seen[st].phase
    BY <1>7 DEF TickAppend, Stamped, Leased
  <2>3. \A u \in Sessions, v \in Stories :
          current'[u][v] = IF u = c.session /\ v = st THEN row ELSE current[u][v]
    BY <1>7, <2>1 DEF TickAppend, Records, TypeInv, TypeOK
  <2>4. RowFollowsSession'
    BY <2>1, <2>2, <2>3 DEF FollowInv, RowFollowsSession, Engaged, TicksFollow
  <2>5. rest \in [Stories -> Row] /\ \A v \in Stories : rest[v] # NoRow => rest[v] = c.seen[v]
    BY <2>1, RowsTyped
  <2>6. command' = [command EXCEPT ![p] = d]
    BY <1>7 DEF TickAppend
  <2> HIDE DEF rest
  <2>7. [c EXCEPT !.seen = rest] \in Command /\ [c EXCEPT !.seen = rest].seen = rest
        /\ [c EXCEPT !.seen = rest].session = c.session
    BY <1>0, <2>5 DEF Command
  <2>8. Idle \in Command /\ Idle.op = "none" /\ Idle.session = NoSession
    BY RowsTyped DEF Idle
  <2>9. /\ d \in Command /\ d.session \in {c.session, NoSession}
        /\ \A v \in Stories : d.op = "tick" /\ d.seen[v] # NoRow =>
              d.session = c.session /\ c.seen[v] = d.seen[v]
    BY <2>5, <2>7, <2>8
  <2> HIDE DEF d
  <2>10. Alone' /\ TicksFollow'
    BY <1>2, <2>1, <2>2, <2>6, <2>9
  <2> QED
    BY <2>4, <2>10 DEF FollowInv
<1> QED
  BY <1>1, <1>4, <1>5, <1>6, <1>7 DEF Running

LEMMA FollowNext == TypeInv /\ FollowInv /\ [Next]_vars => FollowInv'
<1> SUFFICES ASSUME TypeInv, FollowInv, [Next]_vars
             PROVE  FollowInv'
  OBVIOUS
<1>1. CASE \E p \in Processes : Starting(p) \/ Running(p)
  BY <1>1, StartFollows, RunFollows
<1>2. ASSUME NEW s \in Sessions, NEW st \in Stories, Close(s, st)
      PROVE  FollowInv'
  <2>1. /\ overlapped \subseteq overlapped' /\ command' = command
        /\ s \notin overlapped' => \A q \in Processes : command[q].session # s
    BY <1>2 DEF Close, Begins
  <2>2. \A u \in Sessions, v \in Stories :
          <<u, v>> # <<s, st>> => did'[u][v] = did[u][v] /\ current'[u][v] = current[u][v]
    BY <1>2 DEF Close, Records, TypeInv, TypeOK
  <2>3. current'[s][st] = NoRow /\ ~Engaged(NoRow)
    BY <1>2 DEF Close, Records, TypeInv, TypeOK, Engaged, NoRow
  <2>4. RowFollowsSession'
    BY <2>1, <2>2, <2>3 DEF FollowInv, RowFollowsSession, Engaged
  <2>5. Alone'
    BY <2>1 DEF FollowInv, Alone
  <2>6. TicksFollow'
    BY <2>1, <2>2 DEF FollowInv, TicksFollow
  <2> QED
    BY <2>4, <2>5, <2>6 DEF FollowInv
<1>3. CASE (\E st \in Stories : Moves(st)) \/ Clock \/ UNCHANGED vars
  BY <1>3 DEF Moves, Clock, vars, FollowInv, RowFollowsSession, Engaged, Alone, TicksFollow
<1> QED
  BY <1>1, <1>2, <1>3 DEF Next

\* As long as a session's commands do not overlap, no tick or access brings back an older
\* phase, or an engagement that was closed.
THEOREM RowsFollowSession == Spec => []RowFollowsSession
<1>1. FollowInv => RowFollowsSession
  BY DEF FollowInv
<1> QED
  BY <1>1, TypeInit, TypeNext, FollowInit, FollowNext, PTL DEF Spec
=============================================================================
