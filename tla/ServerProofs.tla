---------------------------- MODULE ServerProofs ----------------------------
(***************************************************************************)
(* Theorems about the services of the server: the ledger log handler       *)
(* (LedgerHandler), the live region of a page (Live), the members of a     *)
(* workspace (Members), the documents and their chunks (Documents and      *)
(* EmbedWorker).  For any number of producers, records, requests, users,   *)
(* writers, workers and faults.                                            *)
(***************************************************************************)
EXTENDS MCServices, FiniteSetTheorems, SequenceTheorems, TLAPS

-----------------------------------------------------------------------------
(* The log handler.                                                        *)

\* What Append and Tail do to the elements of a sequence.
LEMMA AppendElements ==
    ASSUME NEW S, NEW s \in Seq(S), NEW x \in S
    PROVE  /\ Append(s, x) \in Seq(S) /\ Len(Append(s, x)) = Len(s) + 1
           /\ \A i \in 1..Len(s) + 1 : Append(s, x)[i] = IF i <= Len(s) THEN s[i] ELSE x
  BY AppendProperties, LenProperties

LEMMA TailElements ==
    ASSUME NEW S, NEW s \in Seq(S), s # <<>>
    PROVE  /\ Tail(s) \in Seq(S) /\ Len(Tail(s)) = Len(s) - 1 /\ Len(s) \in Nat \ {0}
           /\ Head(s) \in S /\ Head(s) = s[1]
           /\ \A i \in 1..Len(s) - 1 : Tail(s)[i] = s[i + 1]
<1>1. Len(s) \in Nat \ {0}
  BY EmptySeq, LenProperties
<1> QED
  BY <1>1, HeadTailProperties, ElementOfSeq

DrainState == [at : {"loop", "drain", "ended", "killed"}, last : BOOLEAN, try : Nat]

\* Flushed and LastFlush leave the drainer in one of its states.
LEMMA FlushedDrain ==
    ASSUME drain \in DrainState, Flushed
    PROVE  /\ drain' \in DrainState /\ batch' = <<>> /\ drain'.last = drain.last
           /\ drain'.at = IF drain.last THEN "ended" ELSE drain.at
  BY DEF Flushed, DrainState

LEMMA LastFlushDrain ==
    ASSUME drain \in DrainState, LastFlush
    PROVE  /\ drain' \in DrainState /\ drain'.last
           /\ drain'.at = IF batch = <<>> THEN "ended" ELSE drain.at
  BY DEF LastFlush, DrainState

LEMMA AddRowsType ==
    ASSUME rows \in Seq(Nat), AddRows
    PROVE  /\ rows' \in Seq(Nat) /\ Len(rows') = Len(rows) /\ Len(rows) \in Nat
           /\ \A r \in 1..Len(rows) : rows'[r] = IF InBatch(r) THEN rows[r] + 1 ELSE rows[r]
<1> DEFINE f == [r \in 1..Len(rows) |-> IF InBatch(r) THEN rows[r] + 1 ELSE rows[r]]
<1>1. Len(rows) \in Nat /\ \A r \in 1..Len(rows) : rows[r] \in Nat
  BY ElementOfSeq, LenProperties
<1>2. f \in [1..Len(rows) -> Nat]
  BY <1>1
<1>3. f \in Seq(Nat) /\ Len(f) = Len(rows)
  BY <1>1, <1>2, IsASeq
<1> QED
  BY <1>1, <1>3 DEF AddRows

-----------------------------------------------------------------------------
LEMMA TypeInit == Init => TypeOK
<1> SUFFICES ASSUME Init
             PROVE  TypeOK
  OBVIOUS
<1>1. \A S : <<>> \in Seq(S)
  BY EmptySeq
<1>2. drain \in DrainState /\ overflow \in [Handlers -> Nat]
  BY DEF Init, DrainState
<1> QED
  BY <1>1, <1>2 DEF Init, TypeOK, DrainState

LEMMA TypeStep ==
    ASSUME TypeOK, [Next]_vars
    PROVE  TypeOK'
<1>0. /\ Len(queue) \in Nat /\ Len(batch) \in Nat /\ Len(rows) \in Nat
      /\ \A p \in Producers : HandlerOf(p) \in Handlers
      /\ drain \in DrainState
  BY LenProperties DEF TypeOK, HandlerOf, Handlers, DrainState
<1>1. ASSUME NEW p \in Producers, Handle(p)
      PROVE  TypeOK'
  BY <1>1 DEF TypeOK, Handle
<1>2. ASSUME NEW p \in Producers, Push(p)
      PROVE  TypeOK'
  <2>1. rows' \in Seq(Nat) /\ queue' \in Seq(Positive)
    BY <1>0, <1>2, AppendElements DEF TypeOK, Push, Accepted, Positive
  <2> QED
    BY <1>2, <2>1 DEF TypeOK, Push
<1>3. ASSUME NEW p \in Producers, Refuse(p) \/ FindFull(p)
      PROVE  TypeOK'
  BY <1>3 DEF TypeOK, Refuse, FindFull
<1>4. ASSUME NEW p \in Producers, DropOldest(p)
      PROVE  TypeOK'
  <2>1. queue' \in Seq(Positive)
    <3>1. CASE queue = <<>>
      BY <1>4, <3>1 DEF TypeOK, DropOldest
    <3>2. CASE queue # <<>>
      <4>1. Tail(queue) \in Seq(Positive)
        BY <3>2, TailElements DEF TypeOK
      <4> QED
        BY <1>4, <3>2, <4>1 DEF DropOldest
    <3> QED
      BY <3>1, <3>2
  <2>2. overflow' \in [Handlers -> Nat]
    BY <1>0, <1>4 DEF TypeOK, DropOldest
  <2> QED
    BY <1>4, <2>1, <2>2 DEF TypeOK, DropOldest
<1>5. CASE Collect
  <2>1. queue' \in Seq(Positive) /\ batch' \in Seq(Positive)
    BY <1>5, TailElements, AppendElements DEF TypeOK, Collect
  <2>2. drain' \in DrainState
    BY <1>0, <1>5 DEF Collect, DrainState
  <2> QED
    BY <1>5, <2>1, <2>2 DEF TypeOK, Collect, inserted, DrainState
<1>6. CASE Tick \/ SeeClosed
  <2>1. drain' \in DrainState
    BY <1>0, <1>6 DEF Tick, SeeClosed, DrainState
  <2> QED
    BY <1>6, <2>1 DEF TypeOK, Tick, SeeClosed, DrainState
<1>7. CASE FindEmpty \/ Expire
  <2>1. drain' \in DrainState
    BY <1>0, <1>7, LastFlushDrain DEF FindEmpty, Expire
  <2>2. expired' \in BOOLEAN /\ faults' \in Nat
    <3>1. CASE FindEmpty
      BY <3>1 DEF TypeOK, FindEmpty
    <3>2. CASE Expire
      BY <3>2 DEF TypeOK, Expire
    <3> QED
      BY <1>7, <3>1, <3>2
  <2> QED
    BY <1>7, <2>1, <2>2 DEF TypeOK, FindEmpty, Expire, DrainState
<1>8. CASE InsertOk
  <2>1. rows' \in Seq(Nat) /\ drain' \in DrainState /\ batch' \in Seq(Positive)
    <3>1. batch' = <<>> /\ drain' \in DrainState
      BY <1>0, <1>8, FlushedDrain DEF InsertOk
    <3>2. rows' \in Seq(Nat)
      BY <1>8, AddRowsType DEF InsertOk, TypeOK
    <3> QED
      BY <3>1, <3>2, EmptySeq
  <2> QED
    BY <1>0, <1>8, <2>1 DEF TypeOK, InsertOk, DrainState
<1>9. CASE InsertFails
  <2>1. rows' \in Seq(Nat)
    BY <1>9, AddRowsType DEF InsertFails, TypeOK
  <2>2. unsure' \subseteq Positive
    <3>1. unsure \subseteq Positive /\ 1..Len(rows) \subseteq Positive
      BY <1>0 DEF TypeOK, Positive
    <3>2. unsure' = unsure \/ unsure' = unsure \cup {r \in 1..Len(rows) : InBatch(r)}
      BY <1>9 DEF InsertFails
    <3> QED
      BY <3>1, <3>2
  <2>3. drain' \in DrainState /\ batch' \in Seq(Positive) /\ insertError' \in Nat
    <3>1. CASE drain.try < MaxRetries
      <4>1. drain' = [drain EXCEPT !.try = @ + 1] /\ UNCHANGED <<batch, insertError>>
        BY <1>9, <3>1 DEF InsertFails, TryAgain
      <4>2. drain' \in DrainState
        BY <1>0, <4>1 DEF DrainState
      <4> QED
        BY <4>1, <4>2 DEF TypeOK
    <3>2. CASE ~ drain.try < MaxRetries
      <4>1. Flushed /\ insertError' = insertError + Len(batch)
        BY <1>9, <3>2 DEF InsertFails, TryAgain
      <4>2. drain' \in DrainState /\ batch' = <<>>
        BY <1>0, <4>1, FlushedDrain
      <4> QED
        BY <1>0, <4>1, <4>2, EmptySeq DEF TypeOK
    <3> QED
      BY <3>1, <3>2
  <2> QED
    BY <1>9, <2>1, <2>2, <2>3 DEF TypeOK, InsertFails, DrainState
<1>10. CASE Close \/ CloseReturns \/ CloseGivesUp
  <2>1. drain' \in DrainState
    BY <1>0, <1>10 DEF DrainState, Close, CloseReturns, CloseGivesUp
  <2>2. closedAt' \in Nat
    BY <1>0, <1>10 DEF TypeOK, Close, CloseReturns, CloseGivesUp, Accepted
  <2>3. faults' \in Nat
    <3>1. faults' = faults \/ faults' = faults + 1
      BY <1>10 DEF Close, CloseReturns, CloseGivesUp
    <3> QED
      BY <3>1 DEF TypeOK
  <2> QED
    BY <1>10, <2>1, <2>2, <2>3 DEF TypeOK, DrainState, Close, CloseReturns, CloseGivesUp
<1>11. CASE UNCHANGED vars
  BY <1>11 DEF TypeOK, vars
<1> QED
  BY <1>1, <1>2, <1>3, <1>4, <1>5, <1>6, <1>7, <1>8, <1>9, <1>10, <1>11
  DEF Next, ProducerStep, DrainerStep

\* The handler's state is well typed, whatever its bounds.
THEOREM HandlerTypeCorrect == Spec => []TypeOK
  BY TypeInit, TypeStep, PTL DEF Spec

-----------------------------------------------------------------------------
\* The steps that touch neither the channel, nor the batch, nor what was inserted.
Aside ==
    /\ UNCHANGED <<queue, batch, rows, unsure, written, insertError, overflow>>

\* What each step of the handler does to the records, one disjunct per kind of step.
LEMMA StepCases ==
    ASSUME [Next]_vars
    PROVE  \/ \E p \in Producers : Push(p) \/ DropOldest(p)
           \/ Collect \/ InsertOk \/ InsertFails
           \/ Aside
<1>1. ASSUME NEW p \in Producers, Handle(p) \/ Refuse(p) \/ FindFull(p)
      PROVE  Aside
  BY <1>1 DEF Aside, Handle, Refuse, FindFull
<1>2. Tick \/ SeeClosed \/ FindEmpty \/ Expire => Aside
  BY DEF Aside, Tick, SeeClosed, FindEmpty, Expire
<1>3. Close \/ CloseReturns \/ CloseGivesUp \/ UNCHANGED vars => Aside
  BY DEF Aside, Close, CloseReturns, CloseGivesUp, vars
<1> QED
  BY <1>1, <1>2, <1>3 DEF Next, ProducerStep, DrainerStep

LEMMA SumOfSix ==
    ASSUME NEW w \in Nat, NEW e \in Nat, NEW a \in Nat, NEW b \in Nat, NEW n \in Nat, NEW m \in Nat
    PROVE  w + e + a + b + n + m = w + e + (a + b) + n + m
  OBVIOUS

LEMMA AccountedStep ==
    ASSUME TypeOK, Accounted, [Next]_vars
    PROVE  Accounted'
<1>0. /\ Len(queue) \in Nat /\ Len(batch) \in Nat /\ Len(rows) \in Nat
      /\ written \in Nat /\ insertError \in Nat
      /\ overflow \in [Handlers -> Nat] /\ "root" \in Handlers /\ "derived" \in Handlers
      /\ overflow["root"] \in Nat /\ overflow["derived"] \in Nat
      /\ \A p \in Producers : HandlerOf(p) \in Handlers
  BY LenProperties DEF TypeOK, HandlerOf, Handlers
<1> DEFINE o == overflow["root"] + overflow["derived"]
<1>7. /\ Len(queue) \in Nat /\ Len(batch) \in Nat /\ Len(rows) \in Nat /\ o \in Nat
      /\ written \in Nat /\ insertError \in Nat
      /\ written + insertError + o + Len(batch) + Len(queue) = Len(rows)
  BY <1>0 DEF Accounted, Accepted
<1>8. ASSUME /\ overflow'["root"] \in Nat /\ overflow'["derived"] \in Nat
             /\ written' \in Nat /\ insertError' \in Nat
             /\ Len(queue') \in Nat /\ Len(batch') \in Nat
             /\ written' + insertError' + o' + Len(batch') + Len(queue') = Len(rows')
      PROVE  Accounted'
  <2>1. written' + insertError' + overflow'["root"] + overflow'["derived"] + Len(batch') + Len(queue')
          = written' + insertError' + o' + Len(batch') + Len(queue')
    BY <1>8, SumOfSix
  <2> QED
    BY <1>8, <2>1 DEF Accounted, Accepted
<1> HIDE DEF o
<1>1. ASSUME NEW p \in Producers, Push(p)
      PROVE  Accounted'
  <2>1. Len(queue') = Len(queue) + 1 /\ Len(rows') = Len(rows) + 1
    BY <1>0, <1>1, AppendElements DEF Push, TypeOK, Accepted, Positive
  <2> QED
    BY <1>0, <1>1, <2>1 DEF Push, Accounted, Accepted
<1>2. ASSUME NEW p \in Producers, DropOldest(p)
      PROVE  Accounted'
  <2>1. CASE queue = <<>>
    BY <1>2, <2>1 DEF DropOldest, Accounted, Accepted
  <2>2. CASE queue # <<>>
    <3>1. Len(queue') = Len(queue) - 1
      BY <1>2, <2>2, TailElements DEF DropOldest, TypeOK
    <3>2. overflow' = [overflow EXCEPT ![HandlerOf(p)] = @ + 1]
      BY <1>2, <2>2 DEF DropOldest
    <3>3. overflow'["root"] + overflow'["derived"] = overflow["root"] + overflow["derived"] + 1
      <4>1. HandlerOf(p) = "root" \/ HandlerOf(p) = "derived"
        BY DEF HandlerOf
      <4> QED
        BY <1>0, <3>2, <4>1
    <3>4. overflow'["root"] \in Nat /\ overflow'["derived"] \in Nat
      BY <1>0, <3>2
    <3>5. UNCHANGED <<rows, batch, written, insertError>>
      BY <1>2 DEF DropOldest
    <3>6. /\ Len(rows') = Len(rows) /\ Len(batch') = Len(batch) /\ written' = written
          /\ insertError' = insertError /\ o' = o + 1
      BY <3>3, <3>5 DEF o
    <3>7. Len(queue') \in Nat
      BY <1>7, <3>1, <2>2, TailElements DEF TypeOK
    <3>8. written' + insertError' + o' + Len(batch') + Len(queue') = Len(rows')
      BY <1>7, <3>1, <3>6
    <3> QED
      BY <1>7, <1>8, <3>4, <3>6, <3>7, <3>8
  <2> QED
    BY <2>1, <2>2
<1>3. CASE Collect
  <2>1. Len(queue') = Len(queue) - 1 /\ Len(batch') = Len(batch) + 1
    BY <1>3, TailElements, AppendElements DEF Collect, TypeOK
  <2> QED
    BY <1>0, <1>3, <2>1 DEF Collect, inserted, Accounted, Accepted
<1>4. CASE InsertOk
  <2>1. Len(rows') = Len(rows) /\ Len(batch') = 0
    BY <1>4, AddRowsType DEF InsertOk, Flushed, TypeOK
  <2> QED
    BY <1>0, <1>4, <2>1 DEF InsertOk, Accounted, Accepted
<1>5. CASE InsertFails
  <2>1. Len(rows') = Len(rows)
    BY <1>5, AddRowsType DEF InsertFails, TypeOK
  <2>2. insertError' + Len(batch') = insertError + Len(batch) /\ insertError' \in Nat /\ Len(batch') \in Nat
    BY <1>0, <1>5 DEF InsertFails, TryAgain, Flushed
  <2>3. written' = written /\ overflow' = overflow /\ queue' = queue
    BY <1>5 DEF InsertFails
  <2>4. o' = o /\ overflow'["root"] \in Nat /\ overflow'["derived"] \in Nat
    BY <1>0, <2>3 DEF o
  <2>5. written' + insertError' + o' + Len(batch') + Len(queue') = Len(rows')
    BY <1>7, <2>1, <2>2, <2>3, <2>4
  <2> QED
    BY <1>7, <1>8, <2>2, <2>3, <2>4, <2>5
<1>6. CASE Aside
  BY <1>6 DEF Aside, Accounted, Accepted
<1> QED
  BY <1>1, <1>2, <1>3, <1>4, <1>5, <1>6, StepCases

\* No record is lost track of, whatever races and fails.
THEOREM HandlerAccounts == Spec => []Accounted
<1>1. Init => Accounted
  BY DEF Init, Accounted, Accepted, Handlers
<1> QED
  BY <1>1, TypeInit, TypeStep, AccountedStep, PTL DEF Spec

-----------------------------------------------------------------------------
\* The records of the batch are older than those of the channel.
BatchIsOlder == \A i \in 1..Len(batch) : batch[i] + Len(queue) <= Accepted

LEMMA NewestStep ==
    ASSUME TypeOK, HoldsNewest, BatchIsOlder, [Next]_vars
    PROVE  HoldsNewest' /\ BatchIsOlder'
<1>0. /\ Len(queue) \in Nat /\ Len(batch) \in Nat /\ Len(rows) \in Nat
      /\ \A i \in 1..Len(queue) : queue[i] \in Nat
      /\ \A i \in 1..Len(batch) : batch[i] \in Nat
  BY LenProperties, ElementOfSeq DEF TypeOK, Positive
<1>1. ASSUME queue # <<>>, queue' = Tail(queue), rows' = rows
      PROVE  /\ HoldsNewest'
             /\ Len(queue') = Len(queue) - 1
             /\ Head(queue) + Len(queue) = Len(rows) + 1 /\ Head(queue) \in Nat
  <2>1. /\ Len(queue') = Len(queue) - 1 /\ Head(queue) = queue[1] /\ Len(queue) \in Nat \ {0}
        /\ \A i \in 1..Len(queue) - 1 : queue'[i] = queue[i + 1]
    BY <1>1, TailElements DEF TypeOK
  <2>2. ASSUME NEW i \in 1..Len(queue')
        PROVE  queue'[i] + Len(queue') = Len(rows) + i
    <3>1. i \in 1..Len(queue) - 1 /\ i + 1 \in 1..Len(queue)
      BY <1>0, <2>1, <2>2
    <3>2. queue'[i] = queue[i + 1] /\ queue[i + 1] + Len(queue) = Len(rows) + (i + 1)
      BY <2>1, <3>1 DEF HoldsNewest, Accepted
    <3>3. /\ queue[i + 1] \in Nat /\ Len(queue') = Len(queue) - 1
          /\ Len(queue) \in Nat /\ Len(rows) \in Nat /\ i \in Nat
      BY <1>0, <2>1, <3>1
    <3> QED
      BY <3>2, <3>3
  <2>3. HoldsNewest'
    BY <1>1, <2>2 DEF HoldsNewest, Accepted
  <2> QED
    BY <1>0, <2>1, <2>3 DEF HoldsNewest, Accepted
<1>2. ASSUME NEW p \in Producers, Push(p)
      PROVE  HoldsNewest' /\ BatchIsOlder'
  <2>1. /\ Len(queue') = Len(queue) + 1 /\ Len(rows') = Len(rows) + 1
        /\ \A i \in 1..Len(queue) + 1 :
             queue'[i] = IF i <= Len(queue) THEN queue[i] ELSE Len(rows) + 1
    BY <1>0, <1>2, AppendElements DEF Push, TypeOK, Accepted, Positive
  <2>2. ASSUME NEW i \in 1..Len(queue')
        PROVE  queue'[i] + Len(queue') = Len(rows') + i
    <3>1. CASE i <= Len(queue)
      <4>1. i \in 1..Len(queue)
        BY <1>0, <2>1, <2>2, <3>1
      <4>2. queue[i] + Len(queue) = Len(rows) + i /\ queue[i] \in Nat /\ queue'[i] = queue[i]
        BY <1>0, <2>1, <2>2, <3>1, <4>1 DEF HoldsNewest, Accepted
      <4>3. /\ Len(queue') = Len(queue) + 1 /\ Len(rows') = Len(rows) + 1
            /\ Len(queue) \in Nat /\ Len(rows) \in Nat /\ i \in Nat
        BY <1>0, <2>1, <4>1
      <4> QED
        BY <4>2, <4>3
    <3>2. CASE ~ i <= Len(queue)
      <4>1. i = Len(queue) + 1 /\ i \in 1..Len(queue) + 1
        BY <1>0, <2>1, <2>2, <3>2
      <4>2. queue'[i] = Len(rows) + 1
        BY <2>1, <3>2, <4>1
      <4>3. /\ Len(queue') = Len(queue) + 1 /\ Len(rows') = Len(rows) + 1
            /\ Len(queue) \in Nat /\ Len(rows) \in Nat
        BY <1>0, <2>1
      <4> QED
        BY <4>1, <4>2, <4>3
    <3> QED
      BY <3>1, <3>2
  <2>3. batch' = batch
    BY <1>2 DEF Push
  <2> QED
    BY <1>0, <2>1, <2>2, <2>3 DEF HoldsNewest, BatchIsOlder, Accepted
<1>3. ASSUME NEW p \in Producers, DropOldest(p)
      PROVE  HoldsNewest' /\ BatchIsOlder'
  <2>1. CASE queue = <<>>
    BY <1>3, <2>1 DEF DropOldest, HoldsNewest, BatchIsOlder, Accepted
  <2>2. CASE queue # <<>>
    <3>1. queue' = Tail(queue) /\ rows' = rows /\ batch' = batch
      BY <1>3, <2>2 DEF DropOldest
    <3> QED
      BY <1>0, <1>1, <2>2, <3>1 DEF BatchIsOlder, Accepted
  <2> QED
    BY <2>1, <2>2
<1>4. CASE Collect
  <2>1. queue # <<>> /\ queue' = Tail(queue) /\ rows' = rows /\ batch' = Append(batch, Head(queue))
    BY <1>4 DEF Collect, inserted
  <2>2. Head(queue) \in Positive
    BY <2>1, TailElements DEF TypeOK
  <2>3. /\ Len(batch') = Len(batch) + 1
        /\ \A i \in 1..Len(batch) + 1 :
             batch'[i] = IF i <= Len(batch) THEN batch[i] ELSE Head(queue)
    BY <2>1, <2>2, AppendElements DEF TypeOK
  <2>4. ASSUME NEW i \in 1..Len(batch')
        PROVE  batch'[i] + Len(queue') <= Len(rows)
    <3>1. CASE i <= Len(batch)
      <4>1. i \in 1..Len(batch)
        BY <1>0, <2>3, <2>4, <3>1
      <4>2. batch[i] + Len(queue) <= Len(rows) /\ batch[i] \in Nat /\ batch'[i] = batch[i]
        BY <1>0, <2>3, <2>4, <3>1, <4>1 DEF BatchIsOlder, Accepted
      <4> QED
        BY <1>0, <1>1, <2>1, <4>2
    <3>2. CASE ~ i <= Len(batch)
      BY <1>0, <1>1, <2>1, <2>3, <2>4, <3>2
    <3> QED
      BY <3>1, <3>2
  <2> QED
    BY <1>1, <2>1, <2>4 DEF BatchIsOlder, Accepted
<1>5. CASE InsertOk \/ InsertFails
  <2>1. Len(rows') = Len(rows) /\ queue' = queue
    BY <1>5, AddRowsType DEF InsertOk, InsertFails, TypeOK
  <2>2. batch' = batch \/ batch' = <<>>
    BY <1>5 DEF InsertOk, InsertFails, TryAgain, Flushed
  <2> QED
    BY <2>1, <2>2 DEF HoldsNewest, BatchIsOlder, Accepted
<1>6. CASE Aside
  BY <1>6 DEF Aside, HoldsNewest, BatchIsOlder, Accepted
<1> QED
  BY <1>2, <1>3, <1>4, <1>5, <1>6, StepCases

LEMMA NewestInit == Init => HoldsNewest /\ BatchIsOlder
  BY DEF Init, HoldsNewest, BatchIsOlder

\* What overflow throws away is always older than what the channel keeps.
THEOREM ChannelHoldsNewest == Spec => []HoldsNewest
  BY TypeInit, TypeStep, NewestInit, NewestStep, PTL DEF Spec

-----------------------------------------------------------------------------
\* The drainer leaves its loop only after Close was called, and ends with an empty batch;
\* unless the budget ran out, it found the channel empty before, so what is in it was
\* taken after the call.
ClosesInOrder ==
    /\ closedAt <= Accepted
    /\ drain.at # "loop" => Closed
    /\ drain.last => drain.at # "loop"
    /\ drain.at = "ended" => batch = <<>> /\ drain.last
    /\ closer = "done" => drain.at = "ended"

LateOnly ==
    drain.last /\ ~ expired => \A i \in 1..Len(queue) : queue[i] > closedAt

LEMMA ClosesInOrderStep ==
    ASSUME TypeOK, ClosesInOrder, [Next]_vars
    PROVE  ClosesInOrder'
<1>0. /\ drain \in DrainState /\ Len(rows) \in Nat /\ closedAt \in Nat
      /\ closedAt <= Len(rows)
  BY LenProperties DEF TypeOK, DrainState, ClosesInOrder, Accepted
<1>1. ASSUME NEW p \in Producers, Handle(p) \/ Refuse(p) \/ FindFull(p) \/ DropOldest(p)
      PROVE  ClosesInOrder'
  BY <1>1 DEF ClosesInOrder, Accepted, Closed, Handle, Refuse, FindFull, DropOldest
<1>2. ASSUME NEW p \in Producers, Push(p)
      PROVE  ClosesInOrder'
  <2>1. closedAt' <= Len(rows')
    <3>1. Len(rows') = Len(rows) + 1 /\ closedAt' = closedAt
      BY <1>2, AppendElements DEF Push, TypeOK
    <3> QED
      BY <1>0, <3>1
  <2> QED
    BY <1>2, <2>1 DEF ClosesInOrder, Accepted, Closed, Push
<1>3. CASE Collect \/ Tick \/ SeeClosed
  <2>1. /\ drain'.last = drain.last /\ drain'.at = IF SeeClosed THEN "drain" ELSE drain.at
        /\ ~ drain.last /\ drain.at \in {"loop", "drain"}
        /\ SeeClosed => Closed
        /\ UNCHANGED <<closer, closedAt, rows>>
    BY <1>0, <1>3 DEF Collect, Tick, SeeClosed, Collecting, DrainState, inserted
  <2> QED
    BY <2>1 DEF ClosesInOrder, Accepted, Closed
<1>4. CASE FindEmpty \/ Expire
  <2>1. /\ drain'.last /\ drain'.at = IF batch = <<>> THEN "ended" ELSE drain.at
        /\ drain.at = "drain"
        /\ UNCHANGED <<closer, closedAt, rows, batch>>
    BY <1>0, <1>4, LastFlushDrain DEF FindEmpty, Expire
  <2> QED
    BY <2>1 DEF ClosesInOrder, Accepted, Closed
<1>5. CASE InsertOk \/ InsertFails
  <2>1. Len(rows') = Len(rows) /\ UNCHANGED <<closer, closedAt>> /\ drain.at \in {"loop", "drain"}
    BY <1>5, AddRowsType DEF InsertOk, InsertFails, Inserting, TypeOK
  <2>2. CASE Flushed
    <3>1. /\ batch' = <<>> /\ drain'.last = drain.last
          /\ drain'.at = IF drain.last THEN "ended" ELSE drain.at
      BY <1>0, <2>2, FlushedDrain
    <3> QED
      BY <2>1, <3>1 DEF ClosesInOrder, Accepted, Closed
  <2>3. CASE ~ Flushed
    <3>1. drain'.last = drain.last /\ drain'.at = drain.at
      BY <1>0, <1>5, <2>3 DEF InsertOk, InsertFails, TryAgain, DrainState
    <3> QED
      BY <2>1, <3>1 DEF ClosesInOrder, Accepted, Closed
  <2> QED
    BY <2>2, <2>3
<1>6. CASE Close
  <2>1. closedAt' <= Len(rows')
    BY <1>0, <1>6 DEF Close, Accepted
  <2> QED
    BY <1>6, <2>1 DEF ClosesInOrder, Accepted, Closed, Close
<1>7. CASE CloseReturns
  BY <1>7 DEF ClosesInOrder, Accepted, Closed, CloseReturns
<1>8. CASE CloseGivesUp
  <2>1. /\ drain'.last = drain.last /\ drain'.at = "killed" /\ closer' = "gaveup"
        /\ UNCHANGED <<closedAt, rows, batch>>
    BY <1>0, <1>8 DEF CloseGivesUp, DrainState
  <2> QED
    BY <2>1 DEF ClosesInOrder, Accepted, Closed
<1>9. CASE UNCHANGED vars
  BY <1>9 DEF vars, ClosesInOrder, Accepted, Closed
<1> QED
  BY <1>1, <1>2, <1>3, <1>4, <1>5, <1>6, <1>7, <1>8, <1>9 DEF Next, ProducerStep, DrainerStep

\* Taking the oldest record away leaves records that were there.
LEMMA LateTail ==
    ASSUME TypeOK, queue # <<>>, queue' = Tail(queue), UNCHANGED closedAt,
           \A i \in 1..Len(queue) : queue[i] > closedAt
    PROVE  \A i \in 1..Len(queue') : queue'[i] > closedAt'
<1>1. /\ Len(queue') = Len(queue) - 1 /\ Len(queue) \in Nat \ {0}
      /\ \A i \in 1..Len(queue) - 1 : queue'[i] = queue[i + 1]
  BY TailElements DEF TypeOK
<1> SUFFICES ASSUME NEW i \in 1..Len(queue')
             PROVE  queue'[i] > closedAt'
  OBVIOUS
<1>2. i \in 1..Len(queue) - 1 /\ i + 1 \in 1..Len(queue)
  BY <1>1
<1> QED
  BY <1>1, <1>2

LEMMA LateOnlyStep ==
    ASSUME TypeOK, ClosesInOrder, LateOnly, [Next]_vars
    PROVE  LateOnly'
<1>0. drain \in DrainState /\ Len(queue) \in Nat /\ Len(rows) \in Nat /\ closedAt \in Nat
  BY LenProperties DEF TypeOK, DrainState
<1>1. ASSUME NEW p \in Producers, Handle(p) \/ Refuse(p) \/ FindFull(p)
      PROVE  LateOnly'
  BY <1>1 DEF LateOnly, Handle, Refuse, FindFull
<1>2. ASSUME NEW p \in Producers, Push(p), drain'.last, ~ expired'
      PROVE  \A i \in 1..Len(queue') : queue'[i] > closedAt'
  <2>1. /\ Len(queue') = Len(queue) + 1
        /\ \A i \in 1..Len(queue) + 1 :
             queue'[i] = IF i <= Len(queue) THEN queue[i] ELSE Len(rows) + 1
    <3>1. /\ queue \in Seq(Positive) /\ Len(rows) + 1 \in Positive
          /\ queue' = Append(queue, Len(rows) + 1)
      BY <1>0, <1>2 DEF Push, TypeOK, Accepted, Positive
    <3> HIDE DEF Positive
    <3> QED
      BY <3>1, AppendElements
  <2>2. closedAt' = closedAt /\ closedAt <= Len(rows)
    BY <1>2 DEF Push, ClosesInOrder, Accepted
  <2>3. \A i \in 1..Len(queue) : queue[i] > closedAt
    BY <1>2 DEF LateOnly, Push
  <2>4. Len(rows) + 1 > closedAt
    BY <1>0, <2>2
  <2> QED
    BY <1>0, <2>1, <2>2, <2>3, <2>4
<1>3. ASSUME NEW p \in Producers, DropOldest(p)
      PROVE  LateOnly'
  <2>1. CASE queue = <<>>
    BY <1>3, <2>1 DEF DropOldest, LateOnly
  <2>2. CASE queue # <<>>
    BY <1>3, <2>2, LateTail DEF DropOldest, LateOnly
  <2> QED
    BY <2>1, <2>2
<1>4. CASE Collect \/ Tick \/ SeeClosed
  <2>1. ~ drain'.last
    BY <1>0, <1>4 DEF Collect, Tick, SeeClosed, Collecting, DrainState
  <2> QED
    BY <2>1 DEF LateOnly
<1>5. CASE FindEmpty
  <2>1. queue' = <<>>
    BY <1>5 DEF FindEmpty
  <2>2. Len(queue') = 0
    BY <2>1
  <2> QED
    BY <2>2 DEF LateOnly
<1>6. CASE Expire
  BY <1>6 DEF Expire, LateOnly
<1>7. CASE InsertOk \/ InsertFails
  <2>1. drain'.last = drain.last
    <3>1. CASE Flushed
      BY <1>0, <3>1, FlushedDrain
    <3>2. CASE ~ Flushed
      BY <1>0, <1>7, <3>2 DEF InsertOk, InsertFails, TryAgain, DrainState
    <3> QED
      BY <3>1, <3>2
  <2> QED
    BY <1>7, <2>1 DEF InsertOk, InsertFails, LateOnly
<1>8. CASE Close
  BY <1>8 DEF Close, ClosesInOrder, Closed, LateOnly
<1>9. CASE CloseReturns \/ CloseGivesUp
  <2>1. drain'.last = drain.last /\ UNCHANGED <<queue, closedAt, expired>>
    BY <1>0, <1>9 DEF CloseReturns, CloseGivesUp, DrainState
  <2> QED
    BY <2>1 DEF LateOnly
<1>10. CASE UNCHANGED vars
  BY <1>10 DEF vars, LateOnly
<1>11. ASSUME NEW p \in Producers, Push(p)
       PROVE  LateOnly'
  BY <1>2, <1>11 DEF LateOnly
<1> QED
  BY <1>1, <1>3, <1>4, <1>5, <1>6, <1>7, <1>8, <1>9, <1>10, <1>11
  DEF Next, ProducerStep, DrainerStep

\* A Close that returns without an error, within the budget, leaves nothing behind that was
\* taken before it.
THEOREM CloseLeavesNothing == Spec => []QuietClose
<1>1. Init => ClosesInOrder /\ LateOnly
  BY DEF Init, ClosesInOrder, LateOnly, Accepted, Closed
<1>2. ClosesInOrder /\ LateOnly => QuietClose
  BY DEF ClosesInOrder, LateOnly, QuietClose
<1> QED
  BY <1>1, <1>2, TypeInit, TypeStep, ClosesInOrderStep, LateOnlyStep, PTL DEF Spec

-----------------------------------------------------------------------------
\* A record that has a row and is inserted again, now or later, is one of those an insert
\* that failed may have written; OnceUnlessUnsure alone says nothing of a record's next row.
RepeatsUnsure ==
    \A r \in 1..Len(rows) : rows[r] > 0 /\ (InBatch(r) \/ InQueue(r)) => r \in unsure

\* A record is in the batch or in the channel, never in both.
LEMMA Apart ==
    ASSUME TypeOK, HoldsNewest, BatchIsOlder, NEW r, InBatch(r)
    PROVE  ~ InQueue(r)
<1>0. Len(queue) \in Nat /\ Len(rows) \in Nat
  BY LenProperties DEF TypeOK
<1>1. PICK i \in 1..Len(batch) : batch[i] = r
  BY DEF InBatch
<1>2. r \in Nat /\ r + Len(queue) <= Len(rows)
  BY <1>1, ElementOfSeq DEF TypeOK, Positive, BatchIsOlder, Accepted
<1> SUFFICES ASSUME NEW j \in 1..Len(queue), queue[j] = r
             PROVE  FALSE
  BY DEF InQueue
<1>3. r + Len(queue) = Len(rows) + j
  BY DEF HoldsNewest, Accepted
<1> QED
  BY <1>0, <1>2, <1>3

\* The insert of the batch gives a second row only to a record that is unsure already.
LEMMA InsertRepeats ==
    ASSUME TypeOK, OnceUnlessUnsure, RepeatsUnsure, AddRows, NEW r \in 1..Len(rows'), rows'[r] > 1
    PROVE  r \in unsure
<1>1. /\ r \in 1..Len(rows) /\ rows'[r] = IF InBatch(r) THEN rows[r] + 1 ELSE rows[r]
      /\ rows[r] \in Nat
  BY AddRowsType, ElementOfSeq DEF TypeOK
<1>2. CASE InBatch(r)
  BY <1>1, <1>2 DEF RepeatsUnsure
<1>3. CASE ~ InBatch(r)
  BY <1>1, <1>3 DEF OnceUnlessUnsure
<1> QED
  BY <1>2, <1>3

LEMMA OnceStep ==
    ASSUME TypeOK, HoldsNewest, BatchIsOlder, OnceUnlessUnsure, RepeatsUnsure, [Next]_vars
    PROVE  OnceUnlessUnsure' /\ RepeatsUnsure'
<1>0. /\ Len(queue) \in Nat /\ Len(batch) \in Nat /\ Len(rows) \in Nat
      /\ \A r \in 1..Len(rows) : rows[r] \in Nat
  BY LenProperties, ElementOfSeq DEF TypeOK
<1>1. ASSUME UNCHANGED <<rows, unsure>>,
             \A r \in 1..Len(rows) : InBatch(r)' \/ InQueue(r)' => InBatch(r) \/ InQueue(r)
      PROVE  OnceUnlessUnsure' /\ RepeatsUnsure'
  BY <1>1 DEF OnceUnlessUnsure, RepeatsUnsure
<1>2. ASSUME queue # <<>>, queue' = Tail(queue)
      PROVE  \A r \in 1..Len(rows) : InQueue(r)' => InQueue(r)
  <2>1. /\ Len(queue') = Len(queue) - 1 /\ Len(queue) \in Nat \ {0}
        /\ \A i \in 1..Len(queue) - 1 : queue'[i] = queue[i + 1]
    BY <1>2, TailElements DEF TypeOK
  <2>2. ASSUME NEW i \in 1..Len(queue')
        PROVE  i + 1 \in 1..Len(queue) /\ queue'[i] = queue[i + 1]
    BY <2>1, <2>2
  <2> QED
    BY <2>2 DEF InQueue
<1>3. ASSUME NEW p \in Producers, Push(p)
      PROVE  OnceUnlessUnsure' /\ RepeatsUnsure'
  <2>1. /\ Len(rows') = Len(rows) + 1
        /\ \A r \in 1..Len(rows) + 1 : rows'[r] = IF r <= Len(rows) THEN rows[r] ELSE 0
    BY <1>3, AppendElements DEF Push, TypeOK
  <2>2. /\ Len(queue') = Len(queue) + 1
        /\ \A i \in 1..Len(queue) + 1 :
             queue'[i] = IF i <= Len(queue) THEN queue[i] ELSE Len(rows) + 1
    BY <1>0, <1>3, AppendElements DEF Push, TypeOK, Accepted, Positive
  <2>3. batch' = batch /\ unsure' = unsure
    BY <1>3 DEF Push
  <2>4. ASSUME NEW r \in 1..Len(rows'), rows'[r] > 0
        PROVE  r \in 1..Len(rows) /\ rows'[r] = rows[r]
    <3>1. r \in 1..Len(rows) + 1
      BY <2>1
    <3>2. r <= Len(rows)
      BY <1>0, <2>1, <2>4, <3>1
    <3> QED
      BY <1>0, <2>1, <3>1, <3>2
  <2>5. ASSUME NEW r \in 1..Len(rows), InQueue(r)'
        PROVE  InQueue(r)
    <3>1. PICK i \in 1..Len(queue') : queue'[i] = r
      BY <2>5 DEF InQueue
    <3>2. i \in 1..Len(queue) + 1
      BY <2>2
    <3>3. i <= Len(queue)
      BY <1>0, <2>2, <3>1, <3>2
    <3>4. i \in 1..Len(queue) /\ queue[i] = r
      BY <1>0, <2>2, <3>1, <3>2, <3>3
    <3> QED
      BY <3>4 DEF InQueue
  <2>6. \A r \in 1..Len(rows) : InBatch(r)' => InBatch(r)
    BY <2>3 DEF InBatch
  <2>7. ASSUME NEW r \in 1..Len(rows'), rows'[r] > 1
        PROVE  r \in unsure'
    <3>1. rows'[r] > 0
      <4>1. rows'[r] \in Nat
        BY <1>0, <2>1
      <4> QED
        BY <2>7, <4>1
    <3> QED
      BY <2>3, <2>4, <2>7, <3>1 DEF OnceUnlessUnsure
  <2>8. ASSUME NEW r \in 1..Len(rows'), rows'[r] > 0, InBatch(r)' \/ InQueue(r)'
        PROVE  r \in unsure'
    <3>1. r \in 1..Len(rows) /\ rows[r] > 0
      BY <2>4, <2>8
    <3>2. InBatch(r) \/ InQueue(r)
      BY <2>5, <2>6, <2>8, <3>1
    <3> QED
      BY <2>3, <3>1, <3>2 DEF RepeatsUnsure
  <2> QED
    BY <2>7, <2>8 DEF OnceUnlessUnsure, RepeatsUnsure
<1>4. ASSUME NEW p \in Producers, DropOldest(p)
      PROVE  OnceUnlessUnsure' /\ RepeatsUnsure'
  <2>1. UNCHANGED <<rows, unsure, batch>> /\ (queue' = queue \/ (queue # <<>> /\ queue' = Tail(queue)))
    BY <1>4 DEF DropOldest
  <2>2. \A r \in 1..Len(rows) : InQueue(r)' => InQueue(r)
    <3>1. CASE queue' = queue
      BY <3>1 DEF InQueue
    <3> QED
      BY <1>2, <2>1, <3>1
  <2>3. \A r \in 1..Len(rows) : InBatch(r)' => InBatch(r)
    BY <2>1 DEF InBatch
  <2> QED
    BY <1>1, <2>1, <2>2, <2>3
<1>5. CASE Collect
  <2>1. /\ queue # <<>> /\ queue' = Tail(queue) /\ batch' = Append(batch, Head(queue))
        /\ UNCHANGED <<rows, unsure>>
    BY <1>5 DEF Collect, inserted
  <2>2. /\ Head(queue) = queue[1] /\ Len(queue) \in Nat \ {0} /\ Head(queue) \in Positive
    BY <2>1, TailElements DEF TypeOK
  <2>3. /\ Len(batch') = Len(batch) + 1
        /\ \A i \in 1..Len(batch) + 1 :
             batch'[i] = IF i <= Len(batch) THEN batch[i] ELSE Head(queue)
    BY <2>1, <2>2, AppendElements DEF TypeOK
  <2>4. ASSUME NEW r \in 1..Len(rows), InBatch(r)'
        PROVE  InBatch(r) \/ InQueue(r)
    <3>1. PICK i \in 1..Len(batch') : batch'[i] = r
      BY <2>4 DEF InBatch
    <3>2. CASE i <= Len(batch)
      <4>1. i \in 1..Len(batch) /\ batch[i] = r
        BY <1>0, <2>3, <3>1, <3>2
      <4> QED
        BY <4>1 DEF InBatch
    <3>3. CASE ~ i <= Len(batch)
      <4>1. queue[1] = r /\ 1 \in 1..Len(queue)
        BY <2>2, <2>3, <3>1, <3>3
      <4> QED
        BY <4>1 DEF InQueue
    <3> QED
      BY <3>2, <3>3
  <2> QED
    BY <1>1, <1>2, <2>1, <2>4
<1>6. ASSUME AddRows, unsure \subseteq unsure'
      PROVE  OnceUnlessUnsure'
  BY <1>6, InsertRepeats DEF OnceUnlessUnsure
<1>7. ASSUME AddRows, queue' = queue, NEW r \in 1..Len(rows'), rows'[r] > 0, InQueue(r)'
      PROVE  r \in unsure
  <2>1. InQueue(r)
    BY <1>7 DEF InQueue
  <2>2. ~ InBatch(r)
    BY <2>1, Apart
  <2>3. r \in 1..Len(rows) /\ rows'[r] = rows[r]
    BY <1>7, <2>2, AddRowsType DEF TypeOK
  <2> QED
    BY <1>7, <2>1, <2>3 DEF RepeatsUnsure
<1>8. CASE InsertOk
  <2>1. AddRows /\ batch' = <<>> /\ queue' = queue /\ unsure' = unsure
    BY <1>8 DEF InsertOk, Flushed
  <2>2. \A r : ~ InBatch(r)'
    <3>1. Len(batch') = 0
      BY <2>1
    <3> QED
      BY <3>1 DEF InBatch
  <2> QED
    BY <1>6, <1>7, <2>1, <2>2 DEF RepeatsUnsure
<1>9. CASE InsertFails
  <2>1. queue' = queue /\ (batch' = batch \/ batch' = <<>>)
    BY <1>9 DEF InsertFails, TryAgain, Flushed
  <2>2. \A r : InBatch(r)' => InBatch(r)
    <3>1. CASE batch' = batch
      BY <3>1 DEF InBatch
    <3>2. CASE batch' = <<>>
      <4>1. Len(batch') = 0
        BY <3>2
      <4> QED
        BY <4>1 DEF InBatch
    <3> QED
      BY <2>1, <3>1, <3>2
  <2>3. CASE UNCHANGED <<rows, unsure>>
    <3>1. \A r : InQueue(r)' => InQueue(r)
      BY <2>1 DEF InQueue
    <3> QED
      BY <1>1, <2>2, <2>3, <3>1
  <2>4. CASE AddRows /\ unsure' = unsure \cup {r \in 1..Len(rows) : InBatch(r)}
    <3>1. Len(rows') = Len(rows)
      BY <2>4, AddRowsType DEF TypeOK
    <3>2. ASSUME NEW r \in 1..Len(rows'), rows'[r] > 0, InBatch(r)' \/ InQueue(r)'
          PROVE  r \in unsure'
      <4>1. CASE InBatch(r)
        BY <2>4, <3>1, <4>1
      <4>2. CASE ~ InBatch(r)
        BY <1>7, <2>1, <2>2, <2>4, <3>2, <4>2
      <4> QED
        BY <4>1, <4>2
    <3> QED
      BY <1>6, <2>4, <3>2 DEF RepeatsUnsure
  <2> QED
    BY <1>9, <2>3, <2>4 DEF InsertFails
<1>10. CASE Aside
  <2>1. \A r : (InBatch(r)' => InBatch(r)) /\ (InQueue(r)' => InQueue(r))
    BY <1>10 DEF Aside, InBatch, InQueue
  <2> QED
    BY <1>1, <1>10, <2>1 DEF Aside
<1> QED
  BY <1>3, <1>4, <1>5, <1>8, <1>9, <1>10, StepCases

\* A record has a second row only when an insert of it failed after it committed.
THEOREM RowsOnceUnlessUnsure == Spec => []OnceUnlessUnsure
<1>1. Init => OnceUnlessUnsure /\ RepeatsUnsure
  BY DEF Init, OnceUnlessUnsure, RepeatsUnsure
<1> QED
  BY <1>1, TypeInit, TypeStep, NewestInit, NewestStep, OnceStep, PTL DEF Spec

-----------------------------------------------------------------------------
(* A live region.                                                          *)

\* Answers are not newer than the region, and None is no answer.
Shaped ==
    /\ db \in Nat /\ pageWrites \in Nat /\ view \in Nat
    /\ db <= pageWrites /\ pageWrites <= PageWrites /\ view <= db
    /\ notes \in Seq(L!Topics) /\ buffer \in Seq(L!Topics)
    /\ waiting \subseteq Asks
    /\ answered \in [Asks -> Nat]
    /\ \A a \in Asks : answered[a] # L!None => answered[a] <= db

PageInv == Shaped /\ L!StaleOnlyIfMissed

\* A topic is appended behind the others.
LEMMA MineAppended ==
    ASSUME NEW s \in Seq(L!Topics), NEW t \in L!Topics
    PROVE  L!Mine(Append(s, t)) <=> L!Mine(s) \/ t = "mine"
<1>1. /\ Len(s) \in Nat /\ Len(Append(s, t)) = Len(s) + 1
      /\ Append(s, t)[Len(s) + 1] = t
      /\ \A i \in 1..Len(s) : Append(s, t)[i] = s[i]
  OBVIOUS
<1> DEFINE u == Append(s, t)
<1>2. \A i \in 1..Len(u) : i \in 1..Len(s) \/ i = Len(s) + 1
  BY <1>1
<1>3. Len(s) + 1 \in 1..Len(u) /\ \A i \in 1..Len(s) : i \in 1..Len(u)
  BY <1>1
<1> HIDE DEF u
<1>4. L!Mine(u) <=> L!Mine(s) \/ t = "mine"
  BY <1>1, <1>2, <1>3 DEF L!Mine, u
<1> QED
  BY <1>4 DEF u

LEMMA PageNext ==
    ASSUME PageWrites \in Nat, PageInv, [L!Next]_(L!vars)
    PROVE  PageInv'
<1>1. ASSUME NEW t \in L!Topics, L!Write(t) PROVE PageInv'
  <2>1. Shaped'
    BY <1>1 DEF L!Write, PageInv, Shaped, L!None
  <2>2. L!Rings => L!Rings'
    BY <1>1, MineAppended DEF L!Write, L!Rings, PageInv, Shaped
  <2>3. t = "mine" => L!Rings' \/ missed'
    BY <1>1, <2>2, MineAppended DEF L!Write, L!Rings, PageInv, Shaped
  <2>4. t # "mine" => db' = db
    BY <1>1 DEF L!Write
  <2> QED
    BY <1>1, <2>1, <2>2, <2>3, <2>4 DEF L!Write, PageInv, L!StaleOnlyIfMissed
<1>2. ASSUME L!Publish PROVE PageInv'
  <2>1. Shaped'
    BY <1>2 DEF L!Publish, PageInv, Shaped, L!None
  <2> QED
    BY <1>2, <2>1 DEF L!Publish, L!Lose, PageInv, L!StaleOnlyIfMissed
<1>3. ASSUME L!Connect \/ L!Relink PROVE PageInv'
  BY <1>3 DEF L!Connect, L!Relink, PageInv, Shaped, L!None, L!StaleOnlyIfMissed, L!Rings
<1>4. ASSUME L!Disconnect \/ L!Unlink PROVE PageInv'
  <2>1. Shaped'
    <3>1. <<>> \in Seq(L!Topics)
      OBVIOUS
    <3>2. CASE L!Disconnect
      BY <3>1, <3>2 DEF L!Disconnect, PageInv, Shaped, L!None
    <3>3. CASE L!Unlink
      BY <3>1, <3>3 DEF L!Unlink, PageInv, Shaped, L!None
    <3> QED
      BY <1>4, <3>2, <3>3
  <2> QED
    BY <1>4, <2>1 DEF L!Disconnect, L!Unlink, L!Lose, PageInv, L!StaleOnlyIfMissed
<1>5. ASSUME L!Receive PROVE PageInv'
  <2>1. Shaped'
    BY <1>5 DEF L!Receive, PageInv, Shaped, L!None
  <2>2. L!Mine(buffer) => L!Mine(buffer') \/ timer'
    <3>1. /\ Len(buffer) \in Nat /\ buffer # <<>> /\ buffer' = Tail(buffer)
          /\ Len(buffer') = Len(buffer) - 1 /\ Head(buffer) = buffer[1]
          /\ \A i \in 1..Len(buffer') : buffer'[i] = buffer[i + 1]
      BY <1>5 DEF L!Receive, PageInv, Shaped
    <3>2. ASSUME NEW i \in 1..Len(buffer), buffer[i] = "mine", i # 1 PROVE L!Mine(buffer')
      <4>1. i - 1 \in 1..Len(buffer') /\ (i - 1) + 1 = i
        BY <3>1, <3>2
      <4> QED
        BY <3>1, <3>2, <4>1 DEF L!Mine
    <3>3. buffer[1] = "mine" => timer'
      BY <1>5, <3>1 DEF L!Receive, L!Trigger
    <3> QED
      BY <3>2, <3>3 DEF L!Mine
  <2>3. timer => timer'
    BY <1>5 DEF L!Receive, L!Trigger
  <2>4. L!Rings => L!Rings'
    BY <1>5, <2>2, <2>3 DEF L!Receive, L!Rings
  <2> QED
    BY <1>5, <2>1, <2>4 DEF L!Receive, PageInv, L!StaleOnlyIfMissed
<1>6. ASSUME NEW a \in Asks, L!Ask(a) PROVE PageInv'
  BY <1>6 DEF L!Ask, PageInv, Shaped, L!None, L!StaleOnlyIfMissed, L!Rings
<1>7. ASSUME NEW a \in Asks, L!Answer(a) PROVE PageInv'
  <2>1. Shaped'
    BY <1>7 DEF L!Answer, PageInv, Shaped, L!None
  <2>2. answered'[a] = db'
    BY <1>7 DEF L!Answer, PageInv, Shaped
  <2> QED
    BY <2>1, <2>2 DEF PageInv, L!StaleOnlyIfMissed
<1>8. ASSUME NEW a \in Asks, L!Swap(a) PROVE PageInv'
  <2>1. answered[a] \in Nat /\ answered[a] <= db
    BY <1>8 DEF L!Swap, PageInv, Shaped
  <2>2. L!None \in Nat
    BY DEF L!None
  <2>3. Shaped'
    BY <1>8, <2>1, <2>2 DEF L!Swap, PageInv, Shaped
  <2>4. L!Rings => L!Rings'
    BY <1>8 DEF L!Swap, L!Rings
  <2>5. \A b \in Asks \ {a} : answered'[b] = answered[b]
    BY <1>8 DEF L!Swap, PageInv, Shaped
  <2>6. L!StaleOnlyIfMissed'
    <3> SUFFICES ASSUME answered[a] # db, ~ L!Rings', ~ missed'
                 PROVE  \E b \in Asks : answered'[b] = db
      BY <1>8 DEF L!Swap, L!StaleOnlyIfMissed
    <3>1. ~ L!Rings /\ ~ missed /\ ~ (answered[a] < view)
      BY <1>8, <2>4 DEF L!Swap
    <3>2. view # db
      BY <2>1, <3>1 DEF PageInv, Shaped
    <3> QED
      BY <2>5, <3>1, <3>2 DEF PageInv, L!StaleOnlyIfMissed
  <2> QED
    BY <2>3, <2>6 DEF PageInv
<1>9. ASSUME NEW a \in Asks, L!AskFails(a) PROVE PageInv'
  <2>1. L!None \in Nat
    BY DEF L!None
  <2>2. Shaped'
    BY <1>9, <2>1 DEF L!AskFails, PageInv, Shaped
  <2> QED
    BY <1>9, <2>2 DEF L!AskFails, PageInv, L!StaleOnlyIfMissed
<1>10. ASSUME UNCHANGED L!vars PROVE PageInv'
  BY <1>10 DEF L!vars, PageInv, Shaped, L!None, L!StaleOnlyIfMissed, L!Rings
<1> QED
  BY <1>1, <1>2, <1>3, <1>4, <1>5, <1>6, <1>7, <1>8, <1>9, <1>10 DEF L!Next

\* Whatever topics are dropped, streams cut and answers crossed, a page that shows an old region
\* asks again, has the current answer under way, or has missed something for a reason that is
\* named: nothing else leaves it stale.
THEOREM PagesAskAgain == PageWrites \in Nat => (L!Spec => []StaleOnlyIfMissed)
<1> SUFFICES ASSUME PageWrites \in Nat PROVE L!Spec => []StaleOnlyIfMissed
  OBVIOUS
<1>1. L!Init => PageInv
  BY DEF L!Init, PageInv, Shaped, L!None, L!StaleOnlyIfMissed
<1>2. PageInv /\ [L!Next]_(L!vars) => PageInv'
  BY PageNext
<1>3. PageInv => StaleOnlyIfMissed
  BY DEF PageInv, StaleOnlyIfMissed
<1> QED
  BY <1>1, <1>2, <1>3, PTL DEF L!Spec

-----------------------------------------------------------------------------
(* The members of a workspace.                                             *)

Call ==
    [at : {"idle"}, stale : BOOLEAN]
    \cup [at : {"change"}, stale : BOOLEAN, user : Users, role : M!Roles \cup {"none"}]
    \cup [at : {"redeem", "claim"}, stale : BOOLEAN, user : Users, invite : Invites]

Invitation ==
    [status : {"none"}]
    \cup [status : {"pending", "accepted", "revoked"}, to : Users \cup {"link"}, role : M!Roles]

MembersTyped ==
    /\ role \in [Users -> M!Roles \cup {"none"}]
    /\ invite \in [Invites -> Invitation]
    /\ call \in [Callers -> Call]
    /\ granted \in [Invites -> SUBSET Users]
    /\ late \subseteq Invites

\* A change that is not outdated leaves an admin.
Checked(k) ==
    k.at = "change" /\ ~ k.stale /\ role[k.user] = "admin" /\ k.role # "admin" =>
        \E u \in Users : u # k.user /\ role[u] = "admin"

\* What a request knows of the invitation it read.
Read(k) ==
    /\ k.at \in {"redeem", "claim"} => invite[k.invite].status # "none"
    /\ k.at = "redeem" => invite[k.invite].to = "link"
    /\ k.at = "claim" => invite[k.invite].to = k.user
    /\ k.at = "claim" /\ invite[k.invite].status = "revoked" => k.invite \in late

\* Nobody was admitted by an invitation that is still open.
Unused == \A i \in Invites : invite[i].status \in {"none", "pending"} => granted[i] = {}

MembersInv ==
    /\ MembersTyped
    /\ \A c \in Callers : Checked(call[c]) /\ Read(call[c])
    /\ Unused
    /\ M!MembershipSound

LEMMA Counts == \A S : M!Cardinality(S) = Cardinality(S)
BY DEF M!Cardinality, Cardinality

\* The count of the admins.
LEMMA AnotherAdmin ==
    ASSUME IsFiniteSet(Users), NEW u \in Users, role[u] = "admin", M!SpareAdmin
    PROVE  \E v \in Users : v # u /\ role[v] = "admin"
<1>1. SUFFICES ASSUME \A v \in Users : role[v] = "admin" => v = u PROVE FALSE
  OBVIOUS
<1>2. M!Admins = {u}
  BY <1>1 DEF M!Admins
<1>3. Cardinality({u}) = 1
  BY FS_Singleton
<1> QED
  BY <1>2, <1>3, Counts DEF M!SpareAdmin

\* A role was set: no other change may stand on the roles it checked.
LEMMA RoleSet ==
    ASSUME MembersTyped, NEW c \in Callers, M!Outdated(c)
    PROVE  /\ call' \in [Callers -> Call]
           /\ call'[c].at = "idle"
           /\ \A d \in Callers : Checked(call[d])'
           /\ \A d \in Callers \ {c} :
                 /\ call'[d].at = call[d].at
                 /\ call[d].at \in {"redeem", "claim"} => call'[d] = call[d]
<1>1. ASSUME NEW d \in Callers
      PROVE  /\ call'[d] \in Call
             /\ call'[d].at = "change" => call'[d].stale
             /\ d = c => call'[d].at = "idle"
             /\ d # c => call'[d].at = call[d].at
             /\ d # c /\ call[d].at \in {"redeem", "claim"} => call'[d] = call[d]
  <2>1. CASE d = c
    BY <2>1 DEF M!Outdated, M!Idle, Call
  <2>2. CASE d # c /\ call[d].at = "change"
    <3>1. call[d] \in [at : {"change"}, stale : BOOLEAN, user : Users, role : M!Roles \cup {"none"}]
      BY <2>2 DEF MembersTyped, Call
    <3>2. call'[d] = [call[d] EXCEPT !.stale = TRUE]
      BY <2>2 DEF M!Outdated
    <3> QED
      BY <2>2, <3>1, <3>2 DEF Call
  <2>3. CASE d # c /\ call[d].at # "change"
    BY <2>3 DEF M!Outdated, MembersTyped
  <2> QED
    BY <2>1, <2>2, <2>3
<1>2. call' \in [Callers -> Call]
  BY <1>1 DEF M!Outdated
<1> QED
  BY <1>1, <1>2 DEF Checked

\* The requests that stay know of their invitations what they knew.
LEMMA ReadsStay ==
    ASSUME NEW k \in Call, Read(k), late \subseteq late',
           \A i \in Invites : invite[i].status # "none" =>
               /\ invite'[i].status # "none" /\ invite'[i].to = invite[i].to
               /\ invite'[i].status = "revoked" => invite[i].status = "revoked" \/ i \in late'
    PROVE  Read(k)'
BY DEF Read, Call

\* An admin who stays when one user's role is set.
LEMMA AdminStays ==
    ASSUME MembersInv, NEW u \in Users, NEW r, M!SetRole(u, r),
           role[u] = "admin" /\ r # "admin" => \E v \in Users : v # u /\ role[v] = "admin"
    PROVE  M!Admins # {} => M!Admins' # {}
<1>1. \A v \in Users : role'[v] = IF v = u THEN r ELSE role[v]
  BY DEF M!SetRole, MembersInv, MembersTyped
<1> QED
  BY <1>1 DEF M!Admins

\* A grant admits the caller's user, and the invitation it read is no longer open.
LEMMA GrantKeeps ==
    ASSUME MembersInv, "link" \notin Users, NEW c \in Callers, M!Grant(c),
           call[c].at = "claim" \/ (call[c].at = "redeem" /\ M!Pending(call[c].invite)),
           late' = late, raced' = raced
    PROVE  MembersInv'
<1> DEFINE i == call[c].invite
           u == call[c].user
<1>1. /\ i \in Invites /\ u \in Users
      /\ invite[i].status \in {"pending", "accepted", "revoked"}
      /\ invite[i].role \in M!Roles
      /\ call[c].at = "redeem" => invite[i].to = "link"
      /\ call[c].at = "claim" => invite[i].to = u
      /\ call[c].at = "claim" /\ invite[i].status = "revoked" => i \in late
  <2>1. call[c] \in [at : {"redeem", "claim"}, stale : BOOLEAN, user : Users, invite : Invites]
    BY DEF MembersInv, MembersTyped, Call
  <2>2. /\ Read(call[c])
        /\ invite[i] \in Invitation
    BY <2>1 DEF MembersInv, MembersTyped
  <2> QED
    BY <2>1, <2>2 DEF Read, Invitation
<1>2. /\ role' = [role EXCEPT ![u] = invite[i].role]
      /\ granted' = [granted EXCEPT ![i] = @ \cup {u}]
      /\ lowered' = (lowered \/ (role[u] = "admin" /\ invite[i].role # "admin"))
      /\ invite' = [invite EXCEPT ![i].status = IF M!Pending(i) THEN "accepted" ELSE @]
      /\ M!Outdated(c)
  BY DEF M!Grant, M!SetRole
<1> HIDE DEF i, u
<1>3. /\ call' \in [Callers -> Call] /\ call'[c].at = "idle"
      /\ \A d \in Callers : Checked(call[d])'
      /\ \A d \in Callers \ {c} :
            /\ call'[d].at = call[d].at
            /\ call[d].at \in {"redeem", "claim"} => call'[d] = call[d]
  BY <1>2, RoleSet DEF MembersInv
<1>4. /\ \A j \in Invites \ {i} : invite'[j] = invite[j] /\ granted'[j] = granted[j]
      /\ granted'[i] = granted[i] \cup {u}
  BY <1>1, <1>2 DEF MembersInv, MembersTyped
<1>5. /\ invite'[i] = [invite[i] EXCEPT !.status = IF @ = "pending" THEN "accepted" ELSE @]
      /\ invite[i] \in [status : {"pending", "accepted", "revoked"}, to : Users \cup {"link"}, role : M!Roles]
  BY <1>1, <1>2 DEF MembersInv, MembersTyped, M!Pending, Invitation
<1>6. /\ invite'[i].to = invite[i].to /\ invite'[i] \in Invitation
      /\ invite'[i].status = IF invite[i].status = "pending" THEN "accepted" ELSE invite[i].status
  BY <1>5 DEF Invitation
<1>7. MembersTyped'
  BY <1>1, <1>2, <1>3, <1>6 DEF MembersInv, MembersTyped
<1>8. \A d \in Callers : Read(call[d])'
  <2> SUFFICES ASSUME NEW d \in Callers PROVE Read(call[d])'
    OBVIOUS
  <2>1. CASE call'[d].at \in {"redeem", "claim"}
    <3>1. call'[d] = call[d] /\ Read(call[d]) /\ call[d] \in Call
      BY <1>3, <2>1 DEF MembersInv, MembersTyped
    <3> QED
      BY <1>1, <1>4, <1>6, <3>1, ReadsStay
  <2>2. CASE call'[d].at \notin {"redeem", "claim"}
    BY <2>2 DEF Read
  <2> QED
    BY <2>1, <2>2
<1>9. Unused'
  BY <1>1, <1>4, <1>6 DEF MembersInv, Unused
<1>10. M!AdminRemains'
  <2>1. CASE role[u] = "admin" /\ invite[i].role # "admin"
    BY <1>2, <2>1 DEF M!AdminRemains
  <2>2. CASE ~ (role[u] = "admin" /\ invite[i].role # "admin")
    BY <1>1, <1>2, <2>2, AdminStays DEF M!SetRole, M!AdminRemains, MembersInv, M!MembershipSound
  <2> QED
    BY <2>1, <2>2
<1>11. M!InvitationsHonoured'
  <2> SUFFICES ASSUME NEW j \in Invites
      PROVE  /\ invite'[j].status = "revoked" /\ granted'[j] # {} => j \in late'
             /\ invite'[j].status # "none" /\ invite'[j].to = "link" => M!Cardinality(granted'[j]) <= 1
    BY DEF M!InvitationsHonoured
  <2>1. CASE j # i
    BY <1>4, <2>1 DEF MembersInv, M!MembershipSound, M!InvitationsHonoured
  <2>2. CASE j = i
    <3>1. invite'[i].status = "revoked" => i \in late'
      BY <1>1, <1>6 DEF M!Pending, i
    <3>2. invite'[i].to = "link" => granted'[i] = {u}
      BY <1>1, <1>4, <1>6 DEF M!Pending, MembersInv, Unused, i
    <3>3. Cardinality({u}) = 1
      BY FS_Singleton
    <3> QED
      BY <2>2, <3>1, <3>2, <3>3, Counts
  <2> QED
    BY <2>1, <2>2
<1> QED
  BY <1>3, <1>7, <1>8, <1>9, <1>10, <1>11 DEF MembersInv, M!MembershipSound

\* A request sets a role and touches no invitation.
LEMMA RoleKeeps ==
    ASSUME MembersInv, NEW c \in Callers, NEW u \in Users, NEW r \in M!Roles \cup {"none"},
           M!SetRole(u, r), M!Outdated(c), UNCHANGED <<invite, granted, late>>,
           M!AdminRemains'
    PROVE  MembersInv'
<1>1. /\ call' \in [Callers -> Call] /\ call'[c].at = "idle"
      /\ \A d \in Callers : Checked(call[d])'
      /\ \A d \in Callers \ {c} :
            /\ call'[d].at = call[d].at
            /\ call[d].at \in {"redeem", "claim"} => call'[d] = call[d]
  BY RoleSet DEF MembersInv
<1>2. MembersTyped'
  BY <1>1 DEF MembersInv, MembersTyped, M!SetRole
<1>3. \A d \in Callers : Read(call[d])'
  <2> SUFFICES ASSUME NEW d \in Callers PROVE Read(call[d])'
    OBVIOUS
  <2>1. CASE call'[d].at \in {"redeem", "claim"}
    <3>1. call'[d] = call[d] /\ Read(call[d])
      BY <1>1, <2>1 DEF MembersInv
    <3> QED
      BY <3>1 DEF Read
  <2>2. CASE call'[d].at \notin {"redeem", "claim"}
    BY <2>2 DEF Read
  <2> QED
    BY <2>1, <2>2
<1>4. Unused' /\ M!InvitationsHonoured'
  BY DEF MembersInv, Unused, M!MembershipSound, M!InvitationsHonoured, M!Cardinality
<1> QED
  BY <1>1, <1>2, <1>3, <1>4 DEF MembersInv, M!MembershipSound

\* A request moves on by itself.
LEMMA CallKeeps ==
    ASSUME MembersInv, NEW c \in Callers, NEW k \in Call, Checked(k), Read(k),
           call' = [call EXCEPT ![c] = k],
           UNCHANGED <<role, invite, granted, late, raced, lowered>>
    PROVE  MembersInv'
<1>1. \A d \in Callers : call'[d] = k \/ call'[d] = call[d]
  BY DEF MembersInv, MembersTyped
<1>2. \A d \in Callers : Checked(call[d])' /\ Read(call[d])'
  BY <1>1 DEF MembersInv, Checked, Read
<1>3. MembersTyped'
  BY DEF MembersInv, MembersTyped
<1>4. Unused' /\ M!MembershipSound'
  BY DEF MembersInv, Unused, M!MembershipSound, M!AdminRemains, M!Admins,
         M!InvitationsHonoured, M!Cardinality
<1> QED
  BY <1>2, <1>3, <1>4 DEF MembersInv

\* An invitation nobody has used is written, or revoked.
LEMMA InviteKeeps ==
    ASSUME MembersInv, NEW i \in Invites, NEW v \in Invitation,
           invite' = [invite EXCEPT ![i] = v],
           invite[i].status \in {"none", "pending"}, v.status \in {"pending", "revoked"},
           invite[i].status = "pending" => v.to = invite[i].to,
           late \subseteq late',
           v.status = "revoked" => \A c \in Callers :
               call[c].at = "claim" /\ call[c].invite = i => i \in late',
           late' \subseteq Invites,
           UNCHANGED <<role, call, granted, raced, lowered>>
    PROVE  MembersInv'
<1>1. \A j \in Invites : invite'[j] = IF j = i THEN v ELSE invite[j]
  BY DEF MembersInv, MembersTyped
<1>2. MembersTyped'
  BY DEF MembersInv, MembersTyped
<1>3. granted[i] = {}
  BY DEF MembersInv, Unused
<1>4. Unused'
  BY <1>1, <1>3 DEF MembersInv, Unused
<1>5. \A c \in Callers : Checked(call[c])' /\ Read(call[c])'
  <2> SUFFICES ASSUME NEW c \in Callers PROVE Checked(call[c])' /\ Read(call[c])'
    OBVIOUS
  <2>1. Checked(call[c])'
    BY DEF MembersInv, Checked
  <2>2. call[c] \in Call /\ Read(call[c])
    BY DEF MembersInv, MembersTyped
  <2>3. CASE call[c].at \in {"redeem", "claim"}
    <3>1. call[c].invite \in Invites
      BY <2>2, <2>3 DEF Call
    <3> QED
      BY <1>1, <2>1, <2>2, <2>3, <3>1 DEF Read
  <2>4. CASE call[c].at \notin {"redeem", "claim"}
    BY <2>1, <2>4 DEF Read
  <2> QED
    BY <2>3, <2>4
<1>6. M!AdminRemains'
  BY DEF MembersInv, M!MembershipSound, M!AdminRemains, M!Admins
<1>7. M!InvitationsHonoured'
  <2>1. Cardinality({}) = 0
    BY FS_EmptySet
  <2>2. M!Cardinality(granted[i]) <= 1
    BY <1>3, <2>1, Counts
  <2> SUFFICES ASSUME NEW j \in Invites
      PROVE  /\ invite'[j].status = "revoked" /\ granted'[j] # {} => j \in late'
             /\ invite'[j].status # "none" /\ invite'[j].to = "link" => M!Cardinality(granted'[j]) <= 1
    BY DEF M!InvitationsHonoured
  <2>3. CASE j = i
    BY <1>3, <2>2, <2>3
  <2>4. CASE j # i
    BY <1>1, <2>4 DEF MembersInv, M!MembershipSound, M!InvitationsHonoured
  <2> QED
    BY <2>3, <2>4
<1> QED
  BY <1>2, <1>4, <1>5, <1>6, <1>7 DEF MembersInv, M!MembershipSound

\* Every step of the requests and the invitations keeps the invariant.
LEMMA MembersKept ==
    ASSUME IsFiniteSet(Users), "link" \notin Users, MembersInv, [M!Next]_(M!vars)
    PROVE  MembersInv'
<1> USE DEF MembersInv
<1>1. \A c \in Callers : call[c] \in Call
  BY DEF MembersTyped
<1>2. \A c \in Callers : call[c].at = "change" =>
          call[c].user \in Users /\ call[c].role \in M!Roles \cup {"none"} /\ call[c].stale \in BOOLEAN
  BY <1>1 DEF Call
<1>3. ASSUME NEW c \in Callers, NEW u \in Users, NEW r \in M!Roles, M!AddMember(c, u, r)
      PROVE  MembersInv'
  <2>1. M!AdminRemains'
    <3>1. CASE role[u] = "admin" /\ r # "admin"
      BY <1>3, <3>1 DEF M!AddMember, M!AdminRemains
    <3>2. CASE ~ (role[u] = "admin" /\ r # "admin")
      BY <1>3, <3>2, AdminStays DEF M!AddMember, M!AdminRemains, M!MembershipSound
    <3> QED
      BY <3>1, <3>2
  <2> QED
    BY <1>3, <2>1, RoleKeeps DEF M!AddMember
<1>4. ASSUME NEW c \in Callers, NEW u \in Users, NEW r \in M!Roles \cup {"none"},
             M!CheckChange(c, u, r)
      PROVE  MembersInv'
  <2> DEFINE k == [at |-> "change", stale |-> FALSE, user |-> u, role |-> r]
  <2>1. k \in Call /\ Read(k)
    BY DEF Call, Read
  <2>2. Checked(k)
    BY <1>4, AnotherAdmin DEF Checked, M!CheckChange
  <2> QED
    BY <1>4, <2>1, <2>2, CallKeeps DEF M!CheckChange
<1>5. ASSUME NEW c \in Callers, NEW u \in Users, NEW r \in M!Roles \cup {"none"},
             M!CheckFails(c, u, r)
      PROVE  MembersInv'
  <2> DEFINE k == [at |-> "change", stale |-> TRUE, user |-> u, role |-> r]
  <2>1. k \in Call /\ Read(k) /\ Checked(k)
    BY DEF Call, Read, Checked
  <2> QED
    BY <1>5, <2>1, CallKeeps DEF M!CheckFails
<1>6. M!Idle \in Call /\ Read(M!Idle) /\ Checked(M!Idle)
  BY DEF Call, Read, Checked, M!Idle
<1>7. ASSUME NEW c \in Callers, M!Change(c)
      PROVE  MembersInv'
  <2>1. CASE role[call[c].user] = "none"
    BY <1>6, <1>7, <2>1, CallKeeps DEF M!Change
  <2>2. CASE role[call[c].user] # "none"
    <3> DEFINE u == call[c].user
               r == call[c].role
    <3>1. /\ M!SetRole(u, r) /\ M!Outdated(c) /\ UNCHANGED <<invite, granted, late, lowered>>
          /\ raced' = (raced \/ call[c].stale)
          /\ u \in Users /\ r \in M!Roles \cup {"none"} /\ call[c].stale \in BOOLEAN
      BY <1>2, <1>7, <2>2 DEF M!Change
    <3>2. M!AdminRemains'
      <4>1. CASE call[c].stale
        BY <3>1, <4>1 DEF M!AdminRemains
      <4>2. CASE ~ call[c].stale
        <5>1. Checked(call[c]) /\ call[c].at = "change"
          BY <1>7 DEF M!Change
        <5>2. u \in Users /\ (role[u] = "admin" /\ r # "admin" => \E v \in Users : v # u /\ role[v] = "admin")
          BY <3>1, <4>2, <5>1 DEF Checked
        <5>3. M!Admins # {} => M!Admins' # {}
          BY <3>1, <5>2, AdminStays
        <5> QED
          BY <3>1, <5>3 DEF M!AdminRemains, M!MembershipSound
      <4> QED
        BY <4>1, <4>2
    <3> QED
      BY <3>1, <3>2, RoleKeeps
  <2> QED
    BY <2>1, <2>2
<1>8. ASSUME NEW c \in Callers, NEW i \in Invites, NEW u \in Users, M!ReadLink(c, i, u)
      PROVE  MembersInv'
  <2> DEFINE k == [at |-> "redeem", stale |-> FALSE, user |-> u, invite |-> i]
  <2>1. k \in Call /\ Read(k) /\ Checked(k)
    BY <1>8 DEF Call, Read, Checked, M!ReadLink, M!Pending
  <2> QED
    BY <1>8, <2>1, CallKeeps DEF M!ReadLink
<1>9. ASSUME NEW c \in Callers, NEW i \in Invites, NEW u \in Users, M!ListClaims(c, i, u)
      PROVE  MembersInv'
  <2> DEFINE k == [at |-> "claim", stale |-> FALSE, user |-> u, invite |-> i]
  <2>1. k \in Call /\ Read(k) /\ Checked(k)
    BY <1>9 DEF Call, Read, Checked, M!ListClaims, M!Claimable, M!Pending
  <2> QED
    BY <1>9, <2>1, CallKeeps DEF M!ListClaims
<1>10. ASSUME NEW c \in Callers, M!Redeem(c)
       PROVE  MembersInv'
  <2>1. CASE M!Pending(call[c].invite)
    BY <1>10, <2>1, GrantKeeps DEF M!Redeem
  <2>2. CASE ~ M!Pending(call[c].invite)
    BY <1>6, <1>10, <2>2, CallKeeps DEF M!Redeem
  <2> QED
    BY <2>1, <2>2
<1>11. ASSUME NEW c \in Callers, M!Claim(c)
       PROVE  MembersInv'
  <2>1. call[c].at = "claim" /\ M!Grant(c) /\ late' = late /\ raced' = raced
    BY <1>11 DEF M!Claim
  <2>2. call[c].at = "claim" \/ (call[c].at = "redeem" /\ M!Pending(call[c].invite))
    BY <2>1
  <2> QED
    BY <2>1, <2>2, GrantKeeps
<1>12. ASSUME NEW c \in Callers, M!Fail(c)
       PROVE  MembersInv'
  BY <1>6, <1>12, CallKeeps DEF M!Fail
<1>13. late \subseteq Invites
  BY DEF MembersTyped
<1>14. ASSUME NEW i \in Invites, NEW r \in M!Roles, M!CreateLink(i, r)
       PROVE  MembersInv'
  <2> DEFINE v == [status |-> "pending", to |-> "link", role |-> r]
  <2>1. v \in Invitation
    BY DEF Invitation
  <2> QED
    BY <1>13, <1>14, <2>1, InviteKeeps DEF M!CreateLink
<1>15. ASSUME NEW i \in Invites, NEW r \in M!Roles, NEW u \in Users, M!CreateEmail(i, u, r)
       PROVE  MembersInv'
  <2> DEFINE v == [status |-> "pending", to |-> u, role |-> r]
  <2>1. v \in Invitation
    BY DEF Invitation
  <2> QED
    BY <1>13, <1>15, <2>1, InviteKeeps DEF M!CreateEmail
<1>16. ASSUME NEW i \in Invites, M!Revoke(i)
       PROVE  MembersInv'
  <2> DEFINE v == [invite[i] EXCEPT !.status = "revoked"]
  <2>1. /\ invite[i] \in [status : {"pending", "accepted", "revoked"}, to : Users \cup {"link"}, role : M!Roles]
        /\ invite[i].status = "pending"
    BY <1>16 DEF M!Revoke, M!Pending, MembersTyped, Invitation
  <2>2. v \in Invitation /\ v.status = "revoked" /\ v.to = invite[i].to
    BY <2>1 DEF Invitation
  <2>3. invite' = [invite EXCEPT ![i] = v]
    BY <1>16 DEF M!Revoke
  <2>4. /\ late \subseteq late' /\ late' \subseteq Invites
        /\ \A c \in Callers : call[c].at = "claim" /\ call[c].invite = i => i \in late'
        /\ UNCHANGED <<role, call, granted, raced, lowered>>
    BY <1>13, <1>16 DEF M!Revoke
  <2> QED
    BY <2>1, <2>2, <2>3, <2>4, InviteKeeps
<1>17. CASE UNCHANGED M!vars
  BY <1>17 DEF M!vars, MembersTyped, Checked, Read, Unused, M!MembershipSound, M!AdminRemains,
       M!Admins, M!InvitationsHonoured, M!Cardinality
<1> QED
  BY <1>3, <1>4, <1>5, <1>7, <1>8, <1>9, <1>10, <1>11, <1>12, <1>14, <1>15, <1>16, <1>17 DEF M!Next

LEMMA MembersBegin == ASSUME M!Init PROVE MembersInv
<1>1. PICK creator \in Users : role = [u \in Users |-> IF u = creator THEN "admin" ELSE "none"]
  BY DEF M!Init
<1>2. MembersTyped
  BY <1>1 DEF M!Init, MembersTyped, M!Idle, Call, Invitation, M!Roles
<1>3. (\A c \in Callers : Checked(call[c]) /\ Read(call[c])) /\ Unused
  BY DEF M!Init, M!Idle, Checked, Read, Unused
<1>4. M!AdminRemains /\ M!InvitationsHonoured
  BY <1>1 DEF M!Init, M!AdminRemains, M!Admins, M!InvitationsHonoured
<1> QED
  BY <1>2, <1>3, <1>4 DEF MembersInv, M!MembershipSound

\* A workspace keeps an admin unless a change stood on a check that was outdated, failed or was
\* never made; a revoked invitation admits nobody but through a claim that had listed it, and a
\* link admits one user.  However many requests interleave.
THEOREM MembershipIsSound ==
    IsFiniteSet(Users) /\ "link" \notin Users => (M!Spec => []MembershipSound)
<1> SUFFICES ASSUME IsFiniteSet(Users), "link" \notin Users PROVE M!Spec => []MembershipSound
  OBVIOUS
<1>1. M!Init => MembersInv
  BY MembersBegin
<1>2. MembersInv /\ [M!Next]_(M!vars) => MembersInv'
  BY MembersKept
<1>3. MembersInv => MembershipSound
  BY DEF MembersInv, MembershipSound
<1> QED
  BY <1>1, <1>2, <1>3, PTL DEF M!Spec

-----------------------------------------------------------------------------
(* The writers of a document.                                              *)

Request ==
    [at : {"idle"}]
    \cup [at : {"upsert", "tags"}, body : Bodies, patch : D!Given \cup {D!Alone},
          read : SUBSET (Tags \cup {"type"})]

DocumentTyped ==
    /\ skill \in BOOLEAN /\ halved \in BOOLEAN /\ tagsRaced \in BOOLEAN
    /\ row \in D!Row
    /\ tags \in SUBSET (Tags \cup {"type"})
    /\ writer \in [Writers -> Request]

\* What a writer knows: its body was reviewed, and the tags it read are those there are.
Knows(k) ==
    /\ k.at = "upsert" /\ skill => k.body \in accepted
    /\ k.at = "tags" /\ ~ k.patch.given => tagsRaced \/ k.read \ {"type"} = tags \ {"type"}

DocumentInv ==
    /\ DocumentTyped
    /\ \A w \in Writers : Knows(writer[w])
    /\ D!DocumentsFaithful

\* A version is appended behind the others.
LEMMA VersionAppended ==
    ASSUME NEW r \in D!Row, NEW v \in D!Version, NEW status \in {"active", "deleted"}
    PROVE  LET r2 == [r EXCEPT !.versions = Append(@, v), !.status = status]
           IN  /\ r2 \in D!Row /\ r2.status = status
               /\ r2.versions # <<>> /\ D!Latest(r2) = v
               /\ \A i \in 1..D!LatestVersion(r2) : r2.versions[i] = v \/
                     (i \in 1..D!LatestVersion(r) /\ r2.versions[i] = r.versions[i])
<1>1. r.versions \in Seq(D!Version)
  BY DEF D!Row
<1> DEFINE s == r.versions
           t == Append(s, v)
<1>2. /\ t \in Seq(D!Version) /\ Len(s) \in Nat /\ Len(t) = Len(s) + 1 /\ t[Len(t)] = v
      /\ \A i \in 1..Len(s) : t[i] = s[i]
  BY <1>1
<1>3. t # <<>> /\ \A i \in 1..Len(t) : i \in 1..Len(s) \/ i = Len(t)
  BY <1>2
<1> DEFINE r2 == [r EXCEPT !.versions = Append(@, v), !.status = status]
<1>4. r2 \in D!Row /\ r2.status = status /\ r2.versions = t
  BY <1>2 DEF D!Row
<1> HIDE DEF t, r2
<1>5. D!Latest(r2) = v /\ D!LatestVersion(r2) = Len(t) /\ D!LatestVersion(r) = Len(s)
  BY <1>2, <1>4 DEF D!Latest, D!LatestVersion
<1>6. \A i \in 1..Len(t) : t[i] = v \/ (i \in 1..Len(s) /\ t[i] = s[i])
  BY <1>2, <1>3
<1> QED
  BY <1>3, <1>4, <1>5, <1>6 DEF r2

\* What the transactions of the store leave.
LEMMA RowUpserted ==
    ASSUME NEW r \in D!Row, NEW body \in Bodies, D!Listed(r) <=> D!Found(r)
    PROVE  LET r2 == D!Upserted(r, body)
           IN  /\ r2 \in D!Row /\ D!Listed(r2) /\ D!Found(r2)
               /\ \A i \in 1..D!LatestVersion(r2) : r2.versions[i].body = body \/
                     (i \in 1..D!LatestVersion(r) /\ r2.versions[i] = r.versions[i])
<1> DEFINE live == [status |-> "active", body |-> body]
           grown == [r EXCEPT !.versions = Append(@, live), !.status = "active"]
<1>1. live \in D!Version
  BY DEF D!Version
<1>2. D!Upserted(r, body) \in {r, grown} /\ (D!Upserted(r, body) = r => r.status = "active")
  BY DEF D!Upserted, D!AppendVersion, D!Locked, D!Row
<1> HIDE DEF live
<1>3. /\ grown \in D!Row /\ grown.status = "active"
      /\ grown.versions # <<>> /\ D!Latest(grown) = live
      /\ \A i \in 1..D!LatestVersion(grown) : grown.versions[i] = live \/
            (i \in 1..D!LatestVersion(r) /\ grown.versions[i] = r.versions[i])
  BY <1>1, VersionAppended
<1>4. live.status = "active" /\ live.body = body
  BY DEF live
<1> HIDE DEF grown
<1>5. CASE D!Upserted(r, body) = r
  BY <1>2, <1>5 DEF D!Listed
<1>6. CASE D!Upserted(r, body) = grown
  BY <1>3, <1>4, <1>6 DEF D!Listed, D!Found
<1> QED
  BY <1>2, <1>5, <1>6

LEMMA RowTombstoned ==
    ASSUME NEW r \in D!Row
    PROVE  LET r2 == D!Tombstoned(r)
           IN  /\ r2 \in D!Row /\ ~ D!Listed(r2) /\ ~ D!Found(r2)
               /\ \A i \in 1..D!LatestVersion(r2) : r2.versions[i].status = "deleted" \/
                     (i \in 1..D!LatestVersion(r) /\ r2.versions[i] = r.versions[i])
<1> DEFINE dead == [status |-> "deleted", body |-> ""]
           grown == [r EXCEPT !.versions = Append(@, dead), !.status = "deleted"]
<1>1. dead \in D!Version
  BY DEF D!Version
<1>2. D!Tombstoned(r) = grown
  <2>1. D!Tombstoned(r) = [[r EXCEPT !.versions = Append(@, dead)] EXCEPT !.status = "deleted"]
    BY ZenonT(60) DEF D!Tombstoned, D!AppendVersion
  <2> HIDE DEF dead
  <2> QED
    BY <2>1 DEF D!Row
<1> HIDE DEF dead
<1>3. /\ grown \in D!Row /\ grown.status = "deleted"
      /\ grown.versions # <<>> /\ D!Latest(grown) = dead
      /\ \A i \in 1..D!LatestVersion(grown) : grown.versions[i] = dead \/
            (i \in 1..D!LatestVersion(r) /\ grown.versions[i] = r.versions[i])
  BY <1>1, VersionAppended
<1>4. dead.status = "deleted"
  BY DEF dead
<1> HIDE DEF grown
<1> QED
  BY <1>2, <1>3, <1>4 DEF D!Listed, D!Found

\* A writer goes on, and what others know stays true.
LEMMA WriterKeeps ==
    ASSUME DocumentInv, NEW w \in Writers, NEW k \in Request, Knows(k)',
           writer' = [writer EXCEPT ![w] = k], skill' = skill,
           accepted \subseteq accepted',
           tagsRaced => tagsRaced',
           \/ tags' \ {"type"} = tags \ {"type"}
           \/ tagsRaced'
           \/ \A q \in Writers \ {w} : writer[q].at = "tags" => writer[q].patch.given
    PROVE  \A q \in Writers : Knows(writer[q])'
<1> SUFFICES ASSUME NEW q \in Writers PROVE Knows(writer[q])'
  OBVIOUS
<1>1. CASE q = w
  <2>1. writer'[q] = k
    BY <1>1 DEF DocumentInv, DocumentTyped
  <2> QED
    BY <2>1 DEF Knows
<1>2. CASE q # w
  <2>1. writer'[q] = writer[q] /\ Knows(writer[q])
    BY <1>2 DEF DocumentInv, DocumentTyped
  <2> QED
    BY <1>2, <2>1 DEF Knows
<1> QED
  BY <1>1, <1>2

\* Every step of the writers keeps the invariant.
LEMMA DocumentNext ==
    ASSUME DocumentInv, [D!Next]_(D!vars)
    PROVE  DocumentInv'
<1>1. /\ DocumentTyped /\ D!ListGetAgree /\ D!PanelSeesAll /\ D!ReviewedBodies /\ D!TagsAsAsked
      /\ \A w \in Writers : writer[w] \in Request /\ Knows(writer[w])
  BY DEF DocumentInv, DocumentTyped, D!DocumentsFaithful
<1>2. D!Idle \in Request /\ Knows(D!Idle)'
  BY DEF D!Idle, Request, Knows
<1>3. ASSUME NEW w \in Writers, NEW body \in Bodies, D!StartReviewed(w, body) \/ D!StartUnreviewed(w, body)
      PROVE  DocumentInv'
  <2>1. /\ D!Starts(w, body) /\ accepted \subseteq accepted'
        /\ UNCHANGED <<skill, row, tags, asked, tagsRaced, halved>>
    BY <1>3 DEF D!StartReviewed, D!StartUnreviewed, D!Starts
  <2>2. PICK patch \in D!Given \cup {D!Alone} :
          writer' = [writer EXCEPT ![w] = [at |-> "upsert", body |-> body, patch |-> patch, read |-> {}]]
    BY <2>1 DEF D!Starts
  <2> DEFINE k == [at |-> "upsert", body |-> body, patch |-> patch, read |-> {}]
  <2>3. k \in Request
    BY DEF Request
  <2>4. skill => body \in accepted'
    <3>1. CASE D!StartReviewed(w, body)
      BY <3>1 DEF D!StartReviewed
    <3>2. CASE D!StartUnreviewed(w, body) /\ skill
      <4>1. D!Found(row) /\ D!Latest(row).body = body
        BY <3>2 DEF D!StartUnreviewed, D!Unchanged
      <4>2. row.versions \in Seq(D!Version)
        BY <1>1 DEF DocumentTyped, D!Row
      <4>3. Len(row.versions) \in 1..Len(row.versions)
        BY <4>1, <4>2 DEF D!Found
      <4> QED
        BY <1>1, <2>1, <3>2, <4>1, <4>3 DEF D!ReviewedBodies, D!LatestVersion, D!Latest, D!Found
    <3> QED
      BY <1>3, <3>1, <3>2
  <2>5. Knows(k)'
    BY <2>1, <2>4 DEF Knows
  <2>6. \A q \in Writers : Knows(writer[q])'
    BY <2>1, <2>2, <2>3, <2>5, WriterKeeps
  <2>7. DocumentTyped'
    BY <1>1, <2>1, <2>2, <2>3 DEF DocumentTyped
  <2>8. D!PanelSeesAll'
    <3>1. \A q \in Writers : writer[q].at = "tags" => writer'[q].at = "tags"
      BY <1>1, <2>1, <2>2 DEF D!Starts, DocumentTyped
    <3> QED
      BY <1>1, <2>1, <3>1 DEF D!PanelSeesAll
  <2> QED
    BY <1>1, <2>1, <2>6, <2>7, <2>8
       DEF DocumentInv, D!DocumentsFaithful, D!ListGetAgree, D!ReviewedBodies, D!TagsAsAsked
<1>4. ASSUME NEW w \in Writers, D!Upsert(w)
      PROVE  DocumentInv'
  <2>1. PICK c \in Request : c = writer[w] /\ c.at = "upsert" /\ Knows(c)
    BY <1>1, <1>4 DEF D!Upsert
  <2>2. UNCHANGED <<skill, tags, accepted, asked, tagsRaced, halved>>
    BY <1>4 DEF D!Upsert
  <2>3. PICK read \in SUBSET (Tags \cup {"type"}) : read = tags
    BY <1>1 DEF DocumentTyped
  <2>4. c \in [at : {"upsert", "tags"}, body : Bodies, patch : D!Given \cup {D!Alone},
               read : SUBSET (Tags \cup {"type"})]
    BY <2>1 DEF Request
  <2> DEFINE next == [c EXCEPT !.at = "tags", !.read = read]
  <2>5. next \in Request /\ next.at = "tags" /\ next.read = read
    BY <2>4 DEF Request
  <2>6. writer' = [writer EXCEPT ![w] = IF c.patch.given \/ ~ skill THEN next ELSE D!Idle]
    BY <1>4, <2>1, <2>3 DEF D!Upsert
  <2> HIDE DEF next
  <2>7. PICK k \in {next, D!Idle} : writer' = [writer EXCEPT ![w] = k] /\ (~ skill => k = next)
    BY <2>6
  <2>8. k \in Request /\ Knows(k)'
    BY <1>2, <2>2, <2>3, <2>5, <2>7 DEF Knows
  <2>9. \A q \in Writers : Knows(writer[q])'
    BY <2>2, <2>7, <2>8, WriterKeeps
  <2>10. /\ row' = D!Upserted(row, c.body) /\ c.body \in Bodies
         /\ skill => c.body \in accepted
    BY <1>4, <2>1, <2>4 DEF D!Upsert, Knows
  <2>11. /\ row' \in D!Row /\ D!ListGetAgree'
         /\ \A i \in 1..D!LatestVersion(row') : row'.versions[i].body = c.body \/
               (i \in 1..D!LatestVersion(row) /\ row'.versions[i] = row.versions[i])
    BY <1>1, <2>10, RowUpserted DEF DocumentTyped, D!ListGetAgree
  <2>12. DocumentTyped'
    BY <1>1, <2>2, <2>7, <2>8, <2>11 DEF DocumentTyped
  <2>13. D!PanelSeesAll'
    BY <1>1, <2>2, <2>5, <2>7 DEF D!PanelSeesAll, DocumentTyped
  <2>14. D!ReviewedBodies'
    BY <1>1, <2>2, <2>10, <2>11 DEF D!ReviewedBodies
  <2> QED
    BY <1>1, <2>2, <2>9, <2>11, <2>12, <2>13, <2>14 DEF DocumentInv, D!DocumentsFaithful, D!TagsAsAsked
<1>5. ASSUME NEW w \in Writers, D!SetTags(w)
      PROVE  DocumentInv'
  <2>1. writer[w].at = "tags" /\ tags' = D!TagSet(w) /\ writer' = [writer EXCEPT ![w] = D!Idle]
        /\ UNCHANGED <<skill, row, accepted, halved>>
    BY <1>5 DEF D!SetTags
  <2>2. writer[w] \in [at : {"upsert", "tags"}, body : Bodies, patch : D!Given \cup {D!Alone},
                       read : SUBSET (Tags \cup {"type"})]
    BY <1>1, <2>1 DEF Request
  <2>3. tags' \in SUBSET (Tags \cup {"type"}) /\ (~ skill => "type" \in tags')
    BY <2>1, <2>2 DEF D!TagSet, D!Classified, D!Given, D!Alone
  <2>4. /\ tagsRaced' \in BOOLEAN /\ (tagsRaced => tagsRaced')
        /\ D!TagsAsAsked'
        /\ \/ tags' \ {"type"} = tags \ {"type"}
           \/ tagsRaced'
           \/ \A q \in Writers \ {w} : writer[q].at = "tags" => writer[q].patch.given
    <3>1. CASE writer[w].patch.given
      BY <1>1, <1>5, <3>1 DEF D!SetTags, D!TagsAsAsked, D!ReadBySomeOther, DocumentTyped
    <3>2. CASE ~ writer[w].patch.given
      <4>1. tagsRaced' = tagsRaced /\ asked' = asked /\ tags' \ {"type"} = writer[w].read \ {"type"}
        BY <1>5, <3>2 DEF D!SetTags, D!TagSet, D!Classified
      <4> QED
        BY <1>1, <2>1, <3>2, <4>1 DEF D!TagsAsAsked, Knows, DocumentTyped
    <3> QED
      BY <3>1, <3>2
  <2>5. \A q \in Writers : Knows(writer[q])'
    BY <1>2, <2>1, <2>4, WriterKeeps
  <2>6. DocumentTyped'
    BY <1>1, <1>2, <2>1, <2>3, <2>4 DEF DocumentTyped
  <2>7. D!PanelSeesAll' /\ D!ListGetAgree' /\ D!ReviewedBodies'
    BY <1>1, <2>1, <2>3 DEF D!PanelSeesAll, D!ListGetAgree, D!ReviewedBodies
  <2> QED
    BY <2>4, <2>5, <2>6, <2>7 DEF DocumentInv, D!DocumentsFaithful
<1>6. ASSUME NEW w \in Writers, D!Fail(w)
      PROVE  DocumentInv'
  <2>1. /\ writer' = [writer EXCEPT ![w] = D!Idle] /\ halved' = (halved \/ writer[w].at = "tags")
        /\ UNCHANGED <<skill, row, tags, accepted, asked, tagsRaced>>
    BY <1>6 DEF D!Fail
  <2>2. \A q \in Writers : Knows(writer[q])'
    BY <1>2, <2>1, WriterKeeps
  <2>3. DocumentTyped'
    BY <1>1, <1>2, <2>1 DEF DocumentTyped
  <2>4. D!PanelSeesAll'
    <3>1. \A q \in Writers : q # w => writer'[q] = writer[q]
      BY <1>1, <2>1 DEF DocumentTyped
    <3> QED
      BY <1>1, <2>1, <3>1 DEF D!PanelSeesAll
  <2> QED
    BY <1>1, <2>1, <2>2, <2>3, <2>4
       DEF DocumentInv, D!DocumentsFaithful, D!ListGetAgree, D!ReviewedBodies, D!TagsAsAsked
<1>7. CASE D!Delete
  <2>1. /\ row' = D!Tombstoned(row)
        /\ UNCHANGED <<skill, tags, writer, accepted, asked, tagsRaced, halved>>
    BY <1>7 DEF D!Delete
  <2>2. \A q \in Writers : Knows(writer[q])'
    BY <1>1, <2>1 DEF Knows
  <2>3. /\ row' \in D!Row /\ ~ D!Listed(row') /\ ~ D!Found(row')
        /\ \A i \in 1..D!LatestVersion(row') : row'.versions[i].status = "deleted" \/
              (i \in 1..D!LatestVersion(row) /\ row'.versions[i] = row.versions[i])
    BY <1>1, <2>1, RowTombstoned DEF DocumentTyped
  <2>4. DocumentTyped' /\ D!ListGetAgree' /\ D!PanelSeesAll' /\ D!TagsAsAsked'
    BY <1>1, <2>1, <2>3 DEF DocumentTyped, D!ListGetAgree, D!PanelSeesAll, D!TagsAsAsked
  <2>5. D!ReviewedBodies'
    BY <1>1, <2>1, <2>3 DEF D!ReviewedBodies
  <2> QED
    BY <2>2, <2>4, <2>5 DEF DocumentInv, D!DocumentsFaithful
<1>8. CASE UNCHANGED D!vars
  BY <1>1, <1>8 DEF D!vars, DocumentInv, DocumentTyped, D!DocumentsFaithful, D!ListGetAgree,
     D!PanelSeesAll, D!ReviewedBodies, D!TagsAsAsked, Knows
<1> QED
  BY <1>3, <1>4, <1>5, <1>6, <1>7, <1>8 DEF D!Next

-----------------------------------------------------------------------------
(* The worker that embeds documents.                                       *)

Pages == UNION {[S -> Nat] : S \in SUBSET Docs}
Text == [version : Nat, blank : BOOLEAN]
ChunkSets == SUBSET [stamp : Nat, version : Nat, by : Workers]

Pass ==
    [at : {"idle", "project", "scan", "get", "prune"}, page : Pages, todo : SUBSET Docs]
    \cup [at : {"embed"}, page : Pages, todo : SUBSET Docs, got : Text]
    \cup [at : {"replace"}, page : Pages, todo : SUBSET Docs, got : Text, seen : ChunkSets]

EmbedTyped ==
    /\ doc \in [Docs -> [status : {"none", "active", "deleted"}, latest : Nat, blank : BOOLEAN]]
    /\ chunks \in [Docs -> ChunkSets]
    /\ pass \in [Workers -> Pass]

\* The document a pass is at.
TurnOf(k, d) ==
    /\ d \in k.todo
    /\ \A e \in k.todo : IF (d \in ProjectDocs) = (e \in ProjectDocs) THEN e <= d ELSE e \in ProjectDocs

\* What a pass knows of the documents it listed and of the one it is at.
Informed(k) ==
    /\ \A d \in DOMAIN k.page : k.page[d] <= doc[d].latest
    /\ k.at \in {"scan", "get", "embed", "replace"} => k.todo \subseteq DOMAIN k.page
    /\ k.at \in {"embed", "replace"} => \A d \in Docs : TurnOf(k, d) =>
          k.page[d] <= k.got.version /\ k.got.version <= doc[d].latest
    /\ k.at = "replace" => \A d \in Docs : TurnOf(k, d) => d \in overlapped \/ chunks[d] \subseteq k.seen

EmbedInv ==
    /\ EmbedTyped
    /\ \A w \in Workers : Informed(pass[w])
    /\ E!ChunksFaithful

LEMMA CountsChunks == \A S : E!Cardinality(S) = Cardinality(S)
BY DEF E!Cardinality, Cardinality

LEMMA PageIs ==
    /\ \A p \in Pages : DOMAIN p \subseteq Docs /\ \A d \in DOMAIN p : p[d] \in Nat
    /\ \A S \in SUBSET Docs : \A p \in [S -> Nat] : p \in Pages
<1>1. ASSUME NEW p \in Pages PROVE DOMAIN p \subseteq Docs /\ \A d \in DOMAIN p : p[d] \in Nat
  <2>1. PICK S \in SUBSET Docs : p \in [S -> Nat]
    BY DEF Pages
  <2> QED
    BY <2>1
<1> QED
  BY <1>1 DEF Pages

\* A pass is at one document.
LEMMA OneTurn ==
    ASSUME Docs \subseteq Int, NEW k \in Pass, NEW d \in Docs, NEW e \in Docs, TurnOf(k, d), TurnOf(k, e)
    PROVE  d = e
<1>1. (d \in ProjectDocs) = (e \in ProjectDocs)
  BY DEF TurnOf
<1>2. d <= e /\ e <= d
  BY <1>1 DEF TurnOf
<1> QED
  BY <1>2

\* A pass goes on, and what the others know stays true.
LEMMA PassKeeps ==
    ASSUME EmbedInv, NEW w \in Workers, NEW k \in Pass, Informed(k)',
           pass' = [pass EXCEPT ![w] = k], doc' = doc, overlapped \subseteq overlapped',
           chunks' \in [Docs -> ChunkSets],
           \A d \in Docs : \/ chunks'[d] \subseteq chunks[d] \/ d \in overlapped'
                           \/ \A v \in Workers \ {w} : ~ (pass[v].at = "replace" /\ TurnOf(pass[v], d))
    PROVE  EmbedTyped' /\ \A v \in Workers : Informed(pass[v])'
<1>1. EmbedTyped'
  BY DEF EmbedInv, EmbedTyped
<1>2. ASSUME NEW v \in Workers PROVE Informed(pass[v])'
  <2>1. CASE v = w
    <3>1. pass'[v] = k
      BY <2>1 DEF EmbedInv, EmbedTyped
    <3> QED
      BY <3>1 DEF Informed, TurnOf
  <2>2. CASE v # w
    <3>1. pass'[v] = pass[v] /\ Informed(pass[v])
      BY <2>2 DEF EmbedInv, EmbedTyped
    <3>2. \A d \in Docs : pass[v].at = "replace" /\ TurnOf(pass[v], d) =>
              d \in overlapped' \/ chunks'[d] \subseteq pass[v].seen
      BY <2>2, <3>1 DEF Informed
    <3> QED
      BY <3>1, <3>2 DEF Informed, TurnOf
  <2> QED
    BY <2>1, <2>2
<1> QED
  BY <1>1, <1>2

\* A pass goes on, and chunks are removed at most.
LEMMA PassOnKeeps ==
    ASSUME EmbedInv, NEW w \in Workers, NEW k \in Pass, Informed(k)',
           pass' = [pass EXCEPT ![w] = k], doc' = doc, overlapped' = overlapped,
           chunks' = chunks \/ \E d \in Docs : chunks' = [chunks EXCEPT ![d] = {}]
    PROVE  EmbedInv'
<1>1. \A d \in Docs : chunks'[d] = chunks[d] \/ chunks'[d] = {}
  BY DEF EmbedInv, EmbedTyped
<1>2. chunks' \in [Docs -> ChunkSets]
  BY DEF EmbedInv, EmbedTyped, ChunkSets
<1>3. EmbedTyped' /\ \A v \in Workers : Informed(pass[v])'
  BY <1>1, <1>2, PassKeeps
<1>4. E!StampHonest'
  BY <1>1 DEF EmbedInv, E!ChunksFaithful, E!StampHonest
<1>5. E!OneSetUnlessOverlap'
  <2> SUFFICES ASSUME NEW d \in Docs, E!Cardinality(chunks'[d]) > 1 PROVE d \in overlapped'
    BY DEF E!OneSetUnlessOverlap
  <2>1. chunks'[d] # {}
    BY FS_EmptySet, CountsChunks
  <2> QED
    BY <1>1, <2>1 DEF EmbedInv, E!ChunksFaithful, E!OneSetUnlessOverlap
<1> QED
  BY <1>3, <1>4, <1>5 DEF EmbedInv, E!ChunksFaithful

\* A pass that is over knows nothing, and one that is done with a document is on the list.
LEMMA IdlePass == E!Idle \in Pass /\ E!Idle.at = "idle" /\ DOMAIN E!Idle.page = {}
<1>1. [d \in {} |-> 0] \in [{} -> Nat] /\ {} \in SUBSET Docs
  OBVIOUS
<1>2. [d \in {} |-> 0] \in Pages
  BY <1>1, PageIs
<1> QED
  BY <1>2 DEF E!Idle, Pass

LEMMA DoneKeeps ==
    ASSUME EmbedInv, NEW w \in Workers, NEW d \in Docs, E!Done(w, d),
           pass[w].at \in {"scan", "get", "embed", "replace"},
           doc' = doc, overlapped' = overlapped,
           chunks' = chunks \/ chunks' = [chunks EXCEPT ![d] = {}]
    PROVE  EmbedInv'
<1>1. PICK c \in Pass : c = pass[w] /\ Informed(c)
  BY DEF EmbedInv, EmbedTyped
<1> DEFINE k == [at |-> "scan", page |-> c.page, todo |-> c.todo \ {d}]
<1>2. c.page \in Pages /\ c.todo \in SUBSET Docs
  BY DEF Pass
<1>3. k \in Pass /\ k.at = "scan" /\ k.page = c.page /\ k.todo \subseteq c.todo
  BY <1>2 DEF Pass
<1>4. pass' = [pass EXCEPT ![w] = k]
  BY <1>1 DEF E!Done
<1> HIDE DEF k
<1>5. Informed(k)'
  BY <1>1, <1>3 DEF Informed
<1> QED
  BY <1>3, <1>4, <1>5, PassOnKeeps

\* Every step of the workers keeps the invariant.
LEMMA EmbedKept ==
    ASSUME Docs \subseteq Int, ProjectDocs \subseteq Docs, EmbedInv, [E!Next]_(E!vars)
    PROVE  EmbedInv'
<1>1. \A w \in Workers : pass[w] \in Pass /\ Informed(pass[w])
  BY DEF EmbedInv, EmbedTyped
<1>2. \A w \in Workers : \A d \in Docs : E!Turn(w, d) <=> TurnOf(pass[w], d)
  BY DEF E!Turn, TurnOf
<1>3. \A S \in SUBSET Docs : E!Listed(S) \in Pages /\ DOMAIN E!Listed(S) = S
                             /\ \A d \in S : E!Listed(S)[d] = doc[d].latest
  <2>1. \A d \in Docs : doc[d].latest \in Nat
    BY DEF EmbedInv, EmbedTyped
  <2> SUFFICES ASSUME NEW S \in SUBSET Docs
               PROVE  E!Listed(S) \in Pages /\ DOMAIN E!Listed(S) = S
                      /\ \A d \in S : E!Listed(S)[d] = doc[d].latest
    OBVIOUS
  <2>2. E!Listed(S) \in [S -> Nat]
    BY <2>1 DEF E!Listed
  <2> QED
    BY <2>2, PageIs DEF E!Listed
<1>4. \A S \in SUBSET Docs : E!Newest(S) \in SUBSET Docs
  BY DEF E!Newest
<1>5. \A d \in Docs : doc[d].latest <= doc[d].latest
  BY DEF EmbedInv, EmbedTyped
<1>6. ASSUME NEW d \in Docs, NEW status \in {"active", "deleted"}, NEW blank \in BOOLEAN,
             E!Write(d, status, blank)
      PROVE  EmbedInv'
  <2>1. /\ UNCHANGED <<chunks, pass, overlapped>>
        /\ doc' = [doc EXCEPT ![d] = [status |-> status, latest |-> @.latest + 1,
                                      blank |-> blank \/ status = "deleted"]]
    BY <1>6 DEF E!Write
  <2>2. \A e \in Docs : doc[e].latest \in Nat /\ doc'[e].latest \in Nat /\ doc[e].latest <= doc'[e].latest
    BY <2>1 DEF EmbedInv, EmbedTyped
  <2>3. EmbedTyped'
    BY <2>1 DEF EmbedInv, EmbedTyped
  <2>4. ASSUME NEW w \in Workers PROVE Informed(pass[w])'
    <3>1. PICK c \in Pass : c = pass[w] /\ c = pass'[w] /\ Informed(c)
      BY <1>1, <2>1
    <3>2. DOMAIN c.page \subseteq Docs /\ \A e \in DOMAIN c.page : c.page[e] \in Nat
      BY PageIs DEF Pass
    <3>3. c.at \in {"embed", "replace"} => c.got.version \in Nat
      BY DEF Pass, Text
    <3>4. \A e \in DOMAIN c.page : c.page[e] <= doc'[e].latest
      <4> SUFFICES ASSUME NEW e \in DOMAIN c.page PROVE c.page[e] <= doc'[e].latest
        OBVIOUS
      <4>1. e \in Docs /\ c.page[e] \in Nat /\ c.page[e] <= doc[e].latest
        BY <3>1, <3>2 DEF Informed
      <4>2. doc[e].latest \in Nat /\ doc'[e].latest \in Nat /\ doc[e].latest <= doc'[e].latest
        BY <2>2, <4>1
      <4> QED
        BY <4>1, <4>2
    <3>5. c.at \in {"embed", "replace"} => \A e \in Docs : TurnOf(c, e) =>
             c.page[e] <= c.got.version /\ c.got.version <= doc'[e].latest
      BY <2>2, <3>1, <3>3 DEF Informed
    <3> QED
      BY <2>1, <3>1, <3>4, <3>5 DEF Informed, TurnOf
  <2>5. E!StampHonest'
    <3>1. \A e \in Docs : \A c \in chunks[e] : c.version \in Nat
      BY DEF EmbedInv, EmbedTyped, ChunkSets
    <3> QED
      BY <2>1, <2>2, <3>1 DEF EmbedInv, E!ChunksFaithful, E!StampHonest
  <2>6. E!OneSetUnlessOverlap'
    BY <2>1 DEF EmbedInv, E!ChunksFaithful, E!OneSetUnlessOverlap, E!Cardinality
  <2> QED
    BY <2>3, <2>4, <2>5, <2>6 DEF EmbedInv, E!ChunksFaithful
<1>7. ASSUME NEW w \in Workers, E!ListWorkspace(w)
      PROVE  EmbedInv'
  <2>1. PICK c \in Pass : c = pass[w] /\ c.at = "idle"
    BY <1>1, <1>7 DEF E!ListWorkspace
  <2>2. PICK page \in Pages : page = E!Listed(E!Newest(Docs \ ProjectDocs))
    BY <1>3, <1>4
  <2> DEFINE k == [c EXCEPT !.at = "project", !.page = page]
  <2>3. k \in Pass /\ k.at = "project" /\ k.page = page
    BY <2>1 DEF Pass
  <2>4. pass' = [pass EXCEPT ![w] = k] /\ UNCHANGED <<doc, chunks, overlapped>>
    BY <1>7, <2>1, <2>2 DEF E!ListWorkspace
  <2> HIDE DEF k
  <2>5. \A d \in DOMAIN page : page[d] <= doc[d].latest
    BY <1>3, <1>4, <1>5, <2>2
  <2>6. Informed(k)'
    BY <2>3, <2>4, <2>5 DEF Informed
  <2> QED
    BY <2>3, <2>4, <2>6, PassOnKeeps
<1>8. ASSUME NEW w \in Workers, NEW page \in Pages, E!Scan(w, page), UNCHANGED <<doc, chunks, overlapped>>,
             \A d \in DOMAIN page : page[d] <= doc[d].latest
      PROVE  EmbedInv'
  <2> DEFINE k == [at |-> "scan", page |-> page, todo |-> DOMAIN page]
  <2>1. k \in Pass /\ k.at = "scan" /\ k.page = page /\ k.todo = DOMAIN page
    BY PageIs DEF Pass
  <2>2. pass' = [pass EXCEPT ![w] = k]
    BY <1>8 DEF E!Scan
  <2> HIDE DEF k
  <2>3. Informed(k)'
    BY <1>8, <2>1 DEF Informed
  <2> QED
    BY <1>8, <2>1, <2>2, <2>3, PassOnKeeps
<1>9. ASSUME NEW w \in Workers, E!ListProject(w)
      PROVE  EmbedInv'
  <2>1. PICK c \in Pass : c = pass[w] /\ Informed(c)
    BY <1>1
  <2>2. PICK found \in Pages : /\ found = E!Listed(E!Newest(ProjectDocs))
                               /\ \A d \in DOMAIN found : found[d] <= doc[d].latest
    <3>1. PICK S \in SUBSET Docs : S = E!Newest(ProjectDocs)
      BY <1>4
    <3>2. \A d \in S : doc[d].latest <= doc[d].latest
      BY <1>5
    <3> QED
      BY <1>3, <3>1, <3>2
  <2> DEFINE page == [d \in DOMAIN c.page \cup DOMAIN found |->
                         IF d \in DOMAIN c.page THEN c.page[d] ELSE found[d]]
  <2>3. E!Scan(w, page) /\ UNCHANGED <<doc, chunks, overlapped>>
    BY <1>9, <2>1, <2>2 DEF E!ListProject
  <2>4. c.page \in Pages
    BY DEF Pass
  <2>5. /\ DOMAIN c.page \cup DOMAIN found \in SUBSET Docs
        /\ page \in [DOMAIN c.page \cup DOMAIN found -> Nat]
    BY <2>4, PageIs
  <2>6. page \in Pages
    BY <2>5, PageIs
  <2>7. \A d \in DOMAIN page : page[d] <= doc[d].latest
    BY <2>1, <2>2 DEF Informed
  <2> HIDE DEF page
  <2> QED
    BY <1>8, <2>3, <2>6, <2>7
<1>10. ASSUME NEW w \in Workers, E!ListProjectFails(w)
       PROVE  EmbedInv'
  <2>1. PICK c \in Pass : c = pass[w] /\ Informed(c)
    BY <1>1
  <2>2. E!Scan(w, c.page) /\ UNCHANGED <<doc, chunks, overlapped>>
    BY <1>10, <2>1 DEF E!ListProjectFails
  <2>3. c.page \in Pages /\ \A d \in DOMAIN c.page : c.page[d] <= doc[d].latest
    BY <2>1 DEF Pass, Informed
  <2> QED
    BY <1>8, <2>2, <2>3
<1>11. ASSUME NEW w \in Workers, NEW d \in Docs, E!Check(w, d)
       PROVE  EmbedInv'
  <2>1. PICK c \in Pass : c = pass[w] /\ Informed(c) /\ c.at = "scan"
    BY <1>1, <1>11 DEF E!Check
  <2>2. UNCHANGED <<doc, chunks, overlapped>>
    BY <1>11 DEF E!Check
  <2>3. CASE E!Done(w, d)
    BY <2>1, <2>2, <2>3, DoneKeeps
  <2>4. CASE ~ E!Done(w, d)
    <3> DEFINE k == [c EXCEPT !.at = "get"]
    <3>1. k \in Pass /\ k.at = "get" /\ k.page = c.page /\ k.todo = c.todo
      BY <2>1 DEF Pass
    <3>2. pass' = [pass EXCEPT ![w] = k]
      BY <1>11, <2>1, <2>4 DEF E!Check, EmbedInv, EmbedTyped
    <3> HIDE DEF k
    <3>3. Informed(k)'
      BY <2>1, <2>2, <3>1 DEF Informed
    <3> QED
      BY <2>2, <3>1, <3>2, <3>3, PassOnKeeps
  <2> QED
    BY <2>3, <2>4
<1>12. ASSUME NEW w \in Workers, NEW d \in Docs, E!Get(w, d)
       PROVE  EmbedInv'
  <2>1. PICK c \in Pass : c = pass[w] /\ Informed(c) /\ c.at = "get"
    BY <1>1, <1>12 DEF E!Get
  <2>2. UNCHANGED <<doc, chunks, overlapped>> /\ TurnOf(c, d)
    BY <1>2, <1>12, <2>1 DEF E!Get
  <2>3. CASE E!Done(w, d)
    BY <2>1, <2>2, <2>3, DoneKeeps
  <2>4. CASE ~ E!Done(w, d)
    <3>1. PICK got \in Text : got = [version |-> doc[d].latest, blank |-> doc[d].blank]
      BY DEF EmbedInv, EmbedTyped, Text
    <3> DEFINE k == [at |-> "embed", page |-> c.page, todo |-> c.todo, got |-> got]
    <3>2. k \in Pass /\ k.at = "embed" /\ k.page = c.page /\ k.todo = c.todo /\ k.got = got
      BY DEF Pass
    <3>3. pass' = [pass EXCEPT ![w] = k]
      BY <1>12, <2>1, <2>4, <3>1 DEF E!Get
    <3> HIDE DEF k
    <3>4. \A e \in Docs : TurnOf(k, e) => e = d
      <4>1. TurnOf(k, d)
        BY <2>2, <3>2 DEF TurnOf
      <4> QED
        BY <3>2, <4>1, OneTurn
    <3>5. d \in DOMAIN c.page /\ c.page[d] <= got.version /\ got.version <= doc[d].latest
      BY <1>5, <2>1, <2>2, <3>1 DEF Informed, TurnOf
    <3>6. Informed(k)'
      BY <2>1, <2>2, <3>2, <3>4, <3>5 DEF Informed, TurnOf
    <3> QED
      BY <2>2, <3>2, <3>3, <3>6, PassOnKeeps
  <2> QED
    BY <2>3, <2>4
<1>13. ASSUME NEW w \in Workers, NEW d \in Docs, E!EmbedBlank(w, d)
       PROVE  EmbedInv'
  BY <1>13, DoneKeeps DEF E!EmbedBlank
<1>14. ASSUME NEW w \in Workers, NEW d \in Docs, E!Embed(w, d)
       PROVE  EmbedInv'
  <2>1. PICK c \in Pass : c = pass[w] /\ Informed(c) /\ c.at = "embed"
    BY <1>1, <1>14 DEF E!Embed
  <2>2. UNCHANGED <<doc, chunks, overlapped>> /\ TurnOf(c, d)
    BY <1>2, <1>14, <2>1 DEF E!Embed
  <2>3. PICK seen \in ChunkSets : seen = chunks[d]
    BY DEF EmbedInv, EmbedTyped
  <2> DEFINE k == [at |-> "replace", page |-> c.page, todo |-> c.todo, got |-> c.got, seen |-> seen]
  <2>4. k \in Pass /\ k.at = "replace" /\ k.page = c.page /\ k.todo = c.todo /\ k.got = c.got /\ k.seen = seen
    BY <2>1 DEF Pass
  <2>5. pass' = [pass EXCEPT ![w] = k]
    BY <1>14, <2>1, <2>3 DEF E!Embed
  <2> HIDE DEF k
  <2>6. \A e \in Docs : TurnOf(k, e) => e = d
    <3>1. TurnOf(k, d)
      BY <2>2, <2>4 DEF TurnOf
    <3> QED
      BY <2>4, <3>1, OneTurn
  <2>7. Informed(k)'
    BY <2>1, <2>2, <2>3, <2>4, <2>6 DEF Informed, TurnOf
  <2> QED
    BY <2>2, <2>4, <2>5, <2>7, PassOnKeeps
<1>15. ASSUME NEW w \in Workers, NEW d \in Docs, E!Replace(w, d)
       PROVE  EmbedInv'
  <2>1. PICK c \in Pass : c = pass[w] /\ Informed(c) /\ c.at = "replace"
    BY <1>1, <1>15 DEF E!Replace
  <2>2. TurnOf(c, d) /\ doc' = doc
    BY <1>2, <1>15, <2>1 DEF E!Replace
  <2>3. /\ c.page \in Pages /\ c.todo \in SUBSET Docs /\ c.got.version \in Nat
        /\ d \in DOMAIN c.page /\ c.page[d] \in Nat
        /\ c.page[d] <= c.got.version /\ c.got.version <= doc[d].latest
        /\ d \in overlapped \/ chunks[d] \subseteq c.seen
    <3>1. c.page \in Pages /\ c.todo \in SUBSET Docs /\ c.got.version \in Nat
      BY <2>1 DEF Pass, Text
    <3>2. d \in DOMAIN c.page
      BY <2>1, <2>2 DEF Informed, TurnOf
    <3> QED
      BY <2>1, <2>2, <3>1, <3>2, PageIs DEF Informed
  <2> DEFINE chunk == [stamp |-> c.page[d], version |-> c.got.version, by |-> w]
             k == [at |-> "scan", page |-> c.page, todo |-> c.todo \ {d}]
  <2>4. k \in Pass /\ k.at = "scan" /\ k.page = c.page /\ k.todo \subseteq c.todo
    BY <2>3 DEF Pass
  <2>5. pass' = [pass EXCEPT ![w] = k]
    BY <1>15, <2>1 DEF E!Replace, E!Done
  <2>6. \A e \in Docs : chunks'[e] = IF e = d THEN (chunks[d] \ c.seen) \cup {chunk} ELSE chunks[e]
    BY <1>15, <2>1 DEF E!Replace, E!Replaced, E!Stamp, EmbedInv, EmbedTyped
  <2>7. chunk \in [stamp : Nat, version : Nat, by : Workers] /\ chunk.stamp <= chunk.version
        /\ chunk.version <= doc[d].latest
    BY <2>3
  <2> HIDE DEF k, chunk
  <2>8. chunks' \in [Docs -> ChunkSets]
    <3>1. chunks' = [e \in Docs |-> chunks'[e]]
      BY <1>15 DEF E!Replace, EmbedInv, EmbedTyped
    <3>2. \A e \in Docs : chunks'[e] \in ChunkSets
      BY <2>6, <2>7 DEF EmbedInv, EmbedTyped, ChunkSets
    <3> QED
      BY <3>1, <3>2
  <2>9. /\ overlapped \subseteq overlapped'
        /\ \A v \in Workers \ {w} : pass[v].at = "replace" /\ TurnOf(pass[v], d) => d \in overlapped'
    BY <1>2, <1>15 DEF E!Replace
  <2>10. Informed(k)'
    BY <2>1, <2>2, <2>4 DEF Informed
  <2>14. \A e \in Docs : \/ chunks'[e] \subseteq chunks[e] \/ e \in overlapped'
                         \/ \A v \in Workers \ {w} : ~ (pass[v].at = "replace" /\ TurnOf(pass[v], e))
    BY <2>6, <2>9
  <2>11. EmbedTyped' /\ \A v \in Workers : Informed(pass[v])'
    BY <2>2, <2>4, <2>5, <2>8, <2>9, <2>10, <2>14, PassKeeps
  <2>12. E!StampHonest'
    BY <2>2, <2>6, <2>7 DEF EmbedInv, E!ChunksFaithful, E!StampHonest
  <2>13. E!OneSetUnlessOverlap'
    <3> SUFFICES ASSUME NEW e \in Docs, E!Cardinality(chunks'[e]) > 1 PROVE e \in overlapped'
      BY DEF E!OneSetUnlessOverlap
    <3>1. CASE e # d
      BY <2>6, <2>9, <3>1 DEF EmbedInv, E!ChunksFaithful, E!OneSetUnlessOverlap
    <3>2. CASE e = d /\ d \notin overlapped
      <4>1. chunks'[d] = {chunk}
        BY <2>3, <2>6, <3>2
      <4> QED
        BY <3>2, <4>1, FS_Singleton, CountsChunks
    <3>3. CASE e = d /\ d \in overlapped
      BY <2>9, <3>3
    <3> QED
      BY <3>1, <3>2, <3>3
  <2> QED
    BY <2>11, <2>12, <2>13 DEF EmbedInv, E!ChunksFaithful
<1>16. ASSUME NEW w \in Workers, NEW d \in Docs, E!PassOver(w, d)
       PROVE  EmbedInv'
  BY <1>16, DoneKeeps DEF E!PassOver
<1>17. ASSUME NEW w \in Workers, pass' = [pass EXCEPT ![w] = E!Idle], UNCHANGED <<doc, overlapped>>,
              chunks' = chunks \/ \E d \in Docs : chunks' = [chunks EXCEPT ![d] = {}]
       PROVE  EmbedInv'
  <2>1. Informed(E!Idle)'
    BY IdlePass DEF Informed
  <2> QED
    BY <1>17, <2>1, IdlePass, PassOnKeeps
<1>18. ASSUME NEW w \in Workers, E!PruneList(w)
       PROVE  EmbedInv'
  <2>1. PICK c \in Pass : c = pass[w] /\ Informed(c) /\ c.at = "scan"
    BY <1>1, <1>18 DEF E!PruneList
  <2>2. UNCHANGED <<doc, chunks, overlapped>>
    BY <1>18 DEF E!PruneList
  <2>3. PICK todo \in SUBSET Docs : todo = E!Pruning(w)
    BY DEF E!Pruning
  <2> DEFINE k == [c EXCEPT !.at = "prune", !.todo = todo]
  <2>4. k \in Pass /\ k.at = "prune" /\ k.page = c.page
    BY <2>1 DEF Pass
  <2>5. pass' = [pass EXCEPT ![w] = IF todo = {} THEN E!Idle ELSE k]
    BY <1>18, <2>1, <2>3 DEF E!PruneList
  <2> HIDE DEF k
  <2>6. Informed(k)'
    BY <2>1, <2>2, <2>4 DEF Informed
  <2> QED
    BY <1>17, <2>2, <2>4, <2>5, <2>6, PassOnKeeps
<1>19. ASSUME NEW w \in Workers, NEW d \in Docs, E!Prune(w, d) \/ E!PruneFails(w, d)
       PROVE  EmbedInv'
  <2>1. PICK c \in Pass : c = pass[w] /\ Informed(c) /\ c.at = "prune"
    BY <1>1, <1>19 DEF E!Prune, E!PruneFails
  <2>2. /\ UNCHANGED <<doc, overlapped>>
        /\ chunks' = chunks \/ chunks' = [chunks EXCEPT ![d] = {}]
        /\ E!PruneDone(w, d)
    BY <1>19 DEF E!Prune, E!PruneFails
  <2> DEFINE todo == c.todo \ {d}
             k == [c EXCEPT !.todo = todo]
  <2>3. k \in Pass /\ k.at = "prune" /\ k.page = c.page
    BY <2>1 DEF Pass
  <2>4. pass' = [pass EXCEPT ![w] = IF todo = {} THEN E!Idle ELSE k]
    BY <2>1, <2>2 DEF E!PruneDone
  <2> HIDE DEF k, todo
  <2>5. Informed(k)'
    BY <2>1, <2>2, <2>3 DEF Informed
  <2> QED
    BY <1>17, <2>2, <2>3, <2>4, <2>5, PassOnKeeps
<1>20. ASSUME NEW w \in Workers, E!EndPass(w)
       PROVE  EmbedInv'
  BY <1>17, <1>20 DEF E!EndPass
<1>21. CASE UNCHANGED E!vars
  <2>1. UNCHANGED <<doc, chunks, pass, overlapped>>
    BY <1>21 DEF E!vars
  <2>2. \A w \in Workers : Informed(pass[w])'
    BY <1>1, <2>1 DEF Informed, TurnOf
  <2>3. E!ChunksFaithful'
    BY <2>1 DEF EmbedInv, E!ChunksFaithful, E!StampHonest, E!OneSetUnlessOverlap, E!Cardinality
  <2> QED
    BY <2>1, <2>2, <2>3 DEF EmbedInv, EmbedTyped
<1> QED
  BY <1>6, <1>7, <1>9, <1>10, <1>11, <1>12, <1>13, <1>14, <1>15, <1>16, <1>18, <1>19, <1>20, <1>21
     DEF E!Next, E!WorkerStep

LEMMA DocumentBegins == ASSUME D!Init PROVE DocumentInv
<1>1. <<>> \in Seq(D!Version) /\ Len(<<>>) = 0
  OBVIOUS
<1>2. DocumentTyped /\ \A w \in Writers : Knows(writer[w])
  BY <1>1 DEF D!Init, DocumentTyped, D!Row, D!NoRow, D!Idle, Request, Knows
<1>3. row.versions = <<>> /\ row.status = "none" /\ tags = asked
  BY DEF D!Init, D!NoRow
<1>4. D!ListGetAgree /\ D!PanelSeesAll /\ D!TagsAsAsked
  BY <1>3 DEF D!ListGetAgree, D!PanelSeesAll, D!TagsAsAsked, D!Listed, D!Found
<1>5. D!ReviewedBodies
  BY <1>1, <1>3 DEF D!ReviewedBodies, D!LatestVersion
<1> QED
  BY <1>2, <1>4, <1>5 DEF DocumentInv, D!DocumentsFaithful

LEMMA EmbedBegins == ASSUME E!Init PROVE EmbedInv
<1>1. EmbedTyped
  BY IdlePass DEF E!Init, EmbedTyped, ChunkSets
<1>2. \A w \in Workers : Informed(pass[w])
  BY IdlePass DEF E!Init, Informed
<1>3. E!StampHonest /\ E!OneSetUnlessOverlap
  <2>1. E!Cardinality({}) = 0
    BY FS_EmptySet, CountsChunks
  <2> QED
    BY <2>1 DEF E!Init, E!StampHonest, E!OneSetUnlessOverlap
<1> QED
  BY <1>1, <1>2, <1>3 DEF EmbedInv, E!ChunksFaithful

\* What readers see of a document is what its writers were asked for and allowed, however
\* they overlap and fail; and a document has one set of chunks, unless two workers replaced it
\* at once, of a text no older than its stamp.
THEOREM DocumentsAreFaithful ==
    Docs \subseteq Int /\ ProjectDocs \subseteq Docs =>
        (D!Spec /\ E!Spec => []DocumentsFaithful)
<1> SUFFICES ASSUME Docs \subseteq Int, ProjectDocs \subseteq Docs
             PROVE  D!Spec /\ E!Spec => []DocumentsFaithful
  OBVIOUS
<1>1. D!Init => DocumentInv
  BY DocumentBegins
<1>2. DocumentInv /\ [D!Next]_(D!vars) => DocumentInv'
  BY DocumentNext
<1>3. E!Init => EmbedInv
  BY EmbedBegins
<1>4. EmbedInv /\ [E!Next]_(E!vars) => EmbedInv'
  BY EmbedKept
<1>5. DocumentInv /\ EmbedInv => DocumentsFaithful
  BY DEF DocumentInv, EmbedInv, DocumentsFaithful
<1> QED
  BY <1>1, <1>2, <1>3, <1>4, <1>5, PTL DEF D!Spec, E!Spec

-----------------------------------------------------------------------------
(* The types of the services, and all of them in one run.                  *)

PageCounted ==
    /\ linked \in BOOLEAN /\ open \in BOOLEAN /\ timer \in BOOLEAN /\ missed \in BOOLEAN
    /\ Len(buffer) <= ClientBuffer
    /\ \A a \in Asks : answered[a] <= L!None
    /\ liveFaults \in 0..MaxFaults

LEMMA PageMoves ==
    ASSUME ClientBuffer \in Nat, PageCounted,
           linked' \in BOOLEAN, open' \in BOOLEAN, timer' \in BOOLEAN, missed' \in BOOLEAN,
           buffer' = buffer \/ Len(buffer') <= ClientBuffer,
           liveFaults' = liveFaults \/ (liveFaults < MaxFaults /\ liveFaults' = liveFaults + 1),
           UNCHANGED answered
    PROVE  PageCounted'
<1>1. liveFaults' \in 0..MaxFaults
  BY HandlerAssumption DEF PageCounted
<1> QED
  BY <1>1 DEF PageCounted, L!None

LEMMA PageAnswers ==
    ASSUME PageWrites \in Nat, PageInv, PageCounted, NEW a \in Asks, NEW n \in Nat, n <= L!None,
           UNCHANGED <<linked, open, buffer, timer>>, missed' \in BOOLEAN,
           answered' = [answered EXCEPT ![a] = n],
           liveFaults' = liveFaults \/ (liveFaults < MaxFaults /\ liveFaults' = liveFaults + 1)
    PROVE  PageCounted'
<1>1. liveFaults' \in 0..MaxFaults
  BY HandlerAssumption DEF PageCounted
<1>2. \A b \in Asks : answered'[b] <= L!None
  BY DEF PageInv, Shaped, PageCounted
<1> QED
  BY <1>1, <1>2 DEF PageCounted, L!None

LEMMA PageCounts ==
    ASSUME PageWrites \in Nat, ClientBuffer \in Nat, PageInv, PageCounted, [L!Next]_(L!vars)
    PROVE  PageCounted'
<1>1. /\ linked \in BOOLEAN /\ open \in BOOLEAN /\ timer \in BOOLEAN /\ missed \in BOOLEAN
      /\ Len(buffer) <= ClientBuffer /\ buffer \in Seq(L!Topics) /\ notes \in Seq(L!Topics)
  BY DEF PageInv, Shaped, PageCounted
<1>2. L!Lose => missed' \in BOOLEAN
  BY <1>1 DEF L!Lose
<1>3. ASSUME NEW t \in L!Topics, L!Write(t) PROVE PageCounted'
  BY <1>1, <1>3, PageMoves DEF L!Write
<1>4. CASE L!Publish
  <2>1. Len(buffer') <= ClientBuffer
    <3>1. CASE L!Room
      <4>1. Head(notes) \in L!Topics /\ Len(Append(buffer, Head(notes))) = Len(buffer) + 1 /\ Len(buffer) \in Nat
        BY <1>1, <1>4 DEF L!Publish
      <4> QED
        BY <1>4, <3>1, <4>1 DEF L!Publish, L!Room
    <3>2. CASE ~ L!Room
      BY <1>1, <1>4, <3>2 DEF L!Publish
    <3> QED
      BY <3>1, <3>2
  <2> QED
    BY <1>1, <1>2, <1>4, <2>1, PageMoves DEF L!Publish
<1>5. CASE L!Connect \/ L!Relink
  BY <1>1, <1>5, PageMoves DEF L!Connect, L!Relink
<1>6. CASE L!Disconnect \/ L!Unlink
  <2>1. Len(<<>>) <= ClientBuffer
    OBVIOUS
  <2> QED
    BY <1>1, <1>2, <1>6, <2>1, PageMoves DEF L!Disconnect, L!Unlink
<1>7. CASE L!Receive
  <2>1. Len(Tail(buffer)) = Len(buffer) - 1 /\ Len(buffer) \in Nat
    BY <1>1, <1>7 DEF L!Receive
  <2>2. Len(buffer') <= ClientBuffer
    BY <1>1, <1>7, <2>1 DEF L!Receive
  <2> QED
    BY <1>1, <1>7, <2>2, PageMoves DEF L!Receive, L!Trigger
<1>8. ASSUME NEW a \in Asks, L!Ask(a) PROVE PageCounted'
  BY <1>1, <1>8, PageMoves DEF L!Ask
<1>9. ASSUME NEW a \in Asks, L!Answer(a) \/ L!Swap(a) \/ L!AskFails(a) PROVE PageCounted'
  <2>1. db \in Nat /\ db <= L!None /\ L!None \in Nat
    BY DEF PageInv, Shaped, L!None
  <2>2. missed' \in BOOLEAN
    BY <1>1, <1>9 DEF L!Answer, L!Swap, L!AskFails
  <2>3. UNCHANGED <<linked, open, buffer, timer>>
    BY <1>9 DEF L!Answer, L!Swap, L!AskFails
  <2>4. liveFaults' = liveFaults \/ (liveFaults < MaxFaults /\ liveFaults' = liveFaults + 1)
    BY <1>9 DEF L!Answer, L!Swap, L!AskFails
  <2>5. PICK n \in {db, L!None} : answered' = [answered EXCEPT ![a] = n]
    BY <1>9 DEF L!Answer, L!Swap, L!AskFails
  <2>6. n \in Nat /\ n <= L!None
    BY <2>1
  <2> QED
    BY <2>2, <2>3, <2>4, <2>5, <2>6, PageAnswers
<1>10. CASE UNCHANGED L!vars
  BY <1>1, <1>10, PageMoves DEF L!vars
<1> QED
  BY <1>3, <1>4, <1>5, <1>6, <1>7, <1>8, <1>9, <1>10 DEF L!Next

LEMMA PageTypes == PageWrites \in Nat /\ ClientBuffer \in Nat => (L!Spec => []L!TypeOK)
<1> SUFFICES ASSUME PageWrites \in Nat, ClientBuffer \in Nat PROVE L!Spec => []L!TypeOK
  OBVIOUS
<1>1. L!Init => PageInv /\ PageCounted
  <2> SUFFICES ASSUME L!Init PROVE PageInv /\ PageCounted
    OBVIOUS
  <2>1. Len(<<>>) = 0
    OBVIOUS
  <2>2. PageInv
    BY DEF L!Init, PageInv, Shaped, L!None, L!StaleOnlyIfMissed
  <2>3. /\ linked = TRUE /\ open = FALSE /\ timer = FALSE /\ missed = FALSE
        /\ buffer = <<>> /\ liveFaults = 0 /\ \A a \in Asks : answered[a] = L!None
    BY DEF L!Init
  <2>4. L!None <= L!None /\ 0 \in 0..MaxFaults
    BY HandlerAssumption DEF L!None
  <2>5. linked \in BOOLEAN /\ open \in BOOLEAN /\ timer \in BOOLEAN /\ missed \in BOOLEAN
    BY DEF L!Init
  <2>6. Len(buffer) <= ClientBuffer
    BY <2>1, <2>3
  <2>7. (\A a \in Asks : answered[a] <= L!None) /\ liveFaults \in 0..MaxFaults
    BY <2>3, <2>4
  <2> QED
    BY <2>2, <2>5, <2>6, <2>7 DEF PageCounted
<1>2. PageInv /\ PageCounted /\ [L!Next]_(L!vars) => PageInv' /\ PageCounted'
  BY PageNext, PageCounts
<1>3. PageInv /\ PageCounted => L!TypeOK
  <2> SUFFICES ASSUME PageInv, PageCounted PROVE L!TypeOK
    OBVIOUS
  <2>1. \A a \in Asks : answered[a] \in 0..L!None
    BY DEF PageInv, Shaped, PageCounted, L!None
  <2> QED
    BY <2>1 DEF PageInv, Shaped, PageCounted, L!TypeOK
<1> QED
  BY <1>1, <1>2, <1>3, PTL DEF L!Spec

-----------------------------------------------------------------------------
MembersMarked == raced \in BOOLEAN /\ lowered \in BOOLEAN

LEMMA MembersMark ==
    ASSUME MembersInv, MembersMarked, [M!Next]_(M!vars)
    PROVE  MembersMarked'
<1>1. ASSUME NEW c \in Callers, M!Change(c) PROVE MembersMarked'
  <2>1. call[c].at = "change" /\ call[c] \in Call
    BY <1>1 DEF M!Change, MembersInv, MembersTyped
  <2>2. call[c].stale \in BOOLEAN
    BY <2>1 DEF Call
  <2> QED
    BY <1>1, <2>2 DEF M!Change, MembersMarked
<1>2. ASSUME NEW c \in Callers, M!Redeem(c) \/ M!Claim(c) \/ M!Fail(c) PROVE MembersMarked'
  BY <1>2 DEF M!Redeem, M!Claim, M!Fail, M!Grant, MembersMarked
<1>3. ASSUME NEW c \in Callers, NEW u \in Users, NEW r \in M!Roles, M!AddMember(c, u, r) PROVE MembersMarked'
  BY <1>3 DEF M!AddMember, MembersMarked
<1>4. ASSUME NEW c \in Callers, NEW u \in Users, NEW r \in M!Roles \cup {"none"},
             M!CheckChange(c, u, r) \/ M!CheckFails(c, u, r)
      PROVE  MembersMarked'
  BY <1>4 DEF M!CheckChange, M!CheckFails, MembersMarked
<1>5. ASSUME NEW c \in Callers, NEW i \in Invites, NEW u \in Users, M!ReadLink(c, i, u) \/ M!ListClaims(c, i, u)
      PROVE  MembersMarked'
  BY <1>5 DEF M!ReadLink, M!ListClaims, MembersMarked
<1>6. ASSUME NEW i \in Invites, NEW r \in M!Roles, M!CreateLink(i, r) \/ \E u \in Users : M!CreateEmail(i, u, r)
      PROVE  MembersMarked'
  BY <1>6 DEF M!CreateLink, M!CreateEmail, MembersMarked
<1>7. ASSUME NEW i \in Invites, M!Revoke(i) PROVE MembersMarked'
  BY <1>7 DEF M!Revoke, MembersMarked
<1>8. CASE UNCHANGED M!vars
  BY <1>8 DEF M!vars, MembersMarked
<1> QED
  BY <1>1, <1>2, <1>3, <1>4, <1>5, <1>6, <1>7, <1>8 DEF M!Next

LEMMA MembersTypes == IsFiniteSet(Users) /\ "link" \notin Users => (M!Spec => []M!TypeOK)
<1> SUFFICES ASSUME IsFiniteSet(Users), "link" \notin Users PROVE M!Spec => []M!TypeOK
  OBVIOUS
<1>1. M!Init => MembersInv /\ MembersMarked
  BY MembersBegin DEF M!Init, MembersMarked
<1>2. MembersInv /\ MembersMarked /\ [M!Next]_(M!vars) => MembersInv' /\ MembersMarked'
  BY MembersKept, MembersMark
<1>3. MembersInv /\ MembersMarked => M!TypeOK
  <2> SUFFICES ASSUME MembersInv, MembersMarked PROVE M!TypeOK
    OBVIOUS
  <2>1. ASSUME NEW i \in Invites
        PROVE  /\ invite[i].status \in M!Statuses
               /\ invite[i].status # "none" => invite[i].role \in M!Roles /\ invite[i].to \in Users \cup {"link"}
    <3>1. invite[i] \in Invitation
      BY DEF MembersInv, MembersTyped
    <3> QED
      BY <3>1 DEF Invitation, M!Statuses
  <2>2. ASSUME NEW c \in Callers
        PROVE  /\ call[c].stale \in BOOLEAN
               /\ call[c].at = "change" => call[c].user \in Users /\ call[c].role \in M!Roles \cup {"none"}
               /\ call[c].at \in {"redeem", "claim"} => call[c].user \in Users /\ call[c].invite \in Invites
    <3>1. call[c] \in Call
      BY DEF MembersInv, MembersTyped
    <3> QED
      BY <3>1 DEF Call
  <2> QED
    BY <2>1, <2>2 DEF MembersInv, MembersTyped, MembersMarked, M!TypeOK
<1> QED
  BY <1>1, <1>2, <1>3, PTL DEF M!Spec

-----------------------------------------------------------------------------
DocumentAsked == accepted \subseteq Bodies /\ asked \in SUBSET (Tags \cup {"type"})

LEMMA DocumentAsks ==
    ASSUME DocumentInv, DocumentAsked, [D!Next]_(D!vars)
    PROVE  DocumentAsked'
<1>1. ASSUME NEW w \in Writers, NEW body \in Bodies, D!StartReviewed(w, body) \/ D!StartUnreviewed(w, body)
      PROVE  DocumentAsked'
  BY <1>1 DEF D!StartReviewed, D!StartUnreviewed, D!Starts, DocumentAsked
<1>2. ASSUME NEW w \in Writers, D!Upsert(w) \/ D!Fail(w) PROVE DocumentAsked'
  BY <1>2 DEF D!Upsert, D!Fail, DocumentAsked
<1>3. ASSUME NEW w \in Writers, D!SetTags(w) PROVE DocumentAsked'
  <2>1. writer[w] \in Request /\ writer[w].at = "tags"
    BY <1>3 DEF D!SetTags, DocumentInv, DocumentTyped
  <2>2. writer[w].patch.tags \subseteq Tags /\ writer[w].read \subseteq Tags \cup {"type"}
    BY <2>1 DEF Request, D!Given, D!Alone
  <2>3. D!TagSet(w) \in SUBSET (Tags \cup {"type"})
    BY <2>2 DEF D!TagSet, D!Classified
  <2> QED
    BY <1>3, <2>3 DEF D!SetTags, DocumentAsked
<1>4. CASE D!Delete \/ UNCHANGED D!vars
  BY <1>4 DEF D!Delete, D!vars, DocumentAsked
<1> QED
  BY <1>1, <1>2, <1>3, <1>4 DEF D!Next

LEMMA DocumentTypes == D!Spec => []D!TypeOK
<1>1. D!Init => DocumentInv /\ DocumentAsked
  BY DocumentBegins DEF D!Init, DocumentAsked
<1>2. DocumentInv /\ DocumentAsked /\ [D!Next]_(D!vars) => DocumentInv' /\ DocumentAsked'
  BY DocumentNext, DocumentAsks
<1>3. DocumentInv /\ DocumentAsked => D!TypeOK
  <2> SUFFICES ASSUME DocumentInv, DocumentAsked PROVE D!TypeOK
    OBVIOUS
  <2>1. ASSUME NEW w \in Writers PROVE writer[w].at = "idle" \/ writer[w] \in D!Writer
    <3>1. writer[w] \in Request
      BY DEF DocumentInv, DocumentTyped
    <3> QED
      BY <3>1 DEF Request, D!Writer
  <2> QED
    BY <2>1 DEF DocumentInv, DocumentTyped, DocumentAsked, D!TypeOK
<1> QED
  BY <1>1, <1>2, <1>3, PTL DEF D!Spec

-----------------------------------------------------------------------------
\* The versions that are listed, read and stamped are those that were written.
PassCounted(k) ==
    /\ k.at \in {"embed", "replace"} => k.got \in E!Body
    /\ k.at = "replace" => k.seen \subseteq E!ChunkSet

EmbedCounted ==
    /\ \A d \in Docs : doc[d].latest <= docWrites
    /\ \A w \in Workers : PassCounted(pass[w])
    /\ overlapped \subseteq Docs
    /\ docWrites \in 0..DocWrites /\ embedFaults \in 0..EmbedFaults

LEMMA PassMoves ==
    ASSUME EmbedFaults \in Nat, EmbedInv, EmbedCounted, NEW w \in Workers, NEW k, PassCounted(k),
           pass' = [pass EXCEPT ![w] = k], UNCHANGED <<doc, docWrites>>, overlapped' \subseteq Docs,
           embedFaults' = embedFaults \/ (embedFaults < EmbedFaults /\ embedFaults' = embedFaults + 1)
    PROVE  EmbedCounted'
<1>1. \A v \in Workers : PassCounted(pass'[v])
  BY DEF EmbedInv, EmbedTyped, EmbedCounted
<1>2. embedFaults' \in 0..EmbedFaults
  BY DEF EmbedCounted
<1> QED
  BY <1>1, <1>2 DEF EmbedCounted, PassCounted, E!Body, E!ChunkSet, E!Version

LEMMA ChunksWritten == ASSUME EmbedInv, EmbedCounted, DocWrites \in Nat, NEW d \in Docs
                       PROVE  chunks[d] \subseteq E!ChunkSet /\ doc[d].latest \in E!Version /\ doc[d].blank \in BOOLEAN
<1>1. doc[d].latest \in Nat /\ doc[d].latest <= docWrites /\ docWrites \in 0..DocWrites /\ doc[d].blank \in BOOLEAN
  BY DEF EmbedInv, EmbedTyped, EmbedCounted
<1>2. ASSUME NEW c \in chunks[d] PROVE c \in E!ChunkSet
  <2>1. c \in [stamp : Nat, version : Nat, by : Workers] /\ c.stamp <= c.version /\ c.version <= doc[d].latest
    BY DEF EmbedInv, EmbedTyped, ChunkSets, E!ChunksFaithful, E!StampHonest
  <2> QED
    BY <1>1, <2>1 DEF E!ChunkSet, E!Version
<1> QED
  BY <1>1, <1>2 DEF E!Version

LEMMA EmbedCounts ==
    ASSUME DocWrites \in Nat, EmbedFaults \in Nat, EmbedInv, EmbedCounted, [E!Next]_(E!vars)
    PROVE  EmbedCounted'
<1>1. \A w \in Workers : pass[w] \in Pass /\ PassCounted(pass[w])
  BY DEF EmbedInv, EmbedTyped, EmbedCounted
<1>2. overlapped \subseteq Docs
  BY DEF EmbedCounted
<1>3. PassCounted(E!Idle)
  BY DEF E!Idle, PassCounted
<1>4. ASSUME NEW w \in Workers, NEW d \in Docs, E!Done(w, d), UNCHANGED <<doc, docWrites>>, overlapped' \subseteq Docs,
             embedFaults' = embedFaults \/ (embedFaults < EmbedFaults /\ embedFaults' = embedFaults + 1)
      PROVE  EmbedCounted'
  <2> DEFINE k == [at |-> "scan", page |-> pass[w].page, todo |-> pass[w].todo \ {d}]
  <2>1. PassCounted(k)
    BY DEF PassCounted
  <2>2. pass' = [pass EXCEPT ![w] = k]
    BY <1>4 DEF E!Done
  <2> HIDE DEF k
  <2> QED
    BY <1>4, <2>1, <2>2, PassMoves
<1>5. ASSUME NEW w \in Workers, NEW page, E!Scan(w, page), UNCHANGED <<doc, docWrites, overlapped>>,
             embedFaults' = embedFaults \/ (embedFaults < EmbedFaults /\ embedFaults' = embedFaults + 1)
      PROVE  EmbedCounted'
  <2> DEFINE k == [at |-> "scan", page |-> page, todo |-> DOMAIN page]
  <2>1. PassCounted(k)
    BY DEF PassCounted
  <2>2. pass' = [pass EXCEPT ![w] = k]
    BY <1>5 DEF E!Scan
  <2> HIDE DEF k
  <2> QED
    BY <1>2, <1>5, <2>1, <2>2, PassMoves
<1>6. ASSUME NEW d \in Docs, NEW status \in {"active", "deleted"}, NEW blank \in BOOLEAN, E!Write(d, status, blank)
      PROVE  EmbedCounted'
  <2>1. /\ docWrites' = docWrites + 1 /\ docWrites < DocWrites /\ docWrites \in Nat
        /\ UNCHANGED <<pass, overlapped, embedFaults>>
    BY <1>6 DEF E!Write, EmbedCounted
  <2>2. \A e \in Docs : doc[e].latest \in Nat /\ doc[e].latest <= docWrites
    BY DEF EmbedInv, EmbedTyped, EmbedCounted
  <2>3. \A e \in Docs : doc'[e].latest = doc[e].latest \/ doc'[e].latest = doc[e].latest + 1
    BY <1>6 DEF E!Write, EmbedInv, EmbedTyped
  <2>4. \A e \in Docs : doc'[e].latest <= docWrites'
    BY <2>1, <2>2, <2>3
  <2>5. docWrites' \in 0..DocWrites
    BY <2>1
  <2> QED
    BY <2>1, <2>4, <2>5 DEF EmbedCounted, PassCounted, E!Body, E!ChunkSet, E!Version
<1>7. ASSUME NEW w \in Workers, E!ListWorkspace(w) PROVE EmbedCounted'
  <2>1. PICK c \in Pass : c = pass[w] /\ c.at = "idle"
    BY <1>1, <1>7 DEF E!ListWorkspace
  <2>2. PICK k : /\ k = [c EXCEPT !.at = "project", !.page = E!Listed(E!Newest(Docs \ ProjectDocs))]
                 /\ pass' = [pass EXCEPT ![w] = k]
    BY <1>7, <2>1 DEF E!ListWorkspace
  <2>3. k.at = "project"
    BY <2>1, <2>2 DEF Pass
  <2> QED
    BY <1>2, <1>7, <2>2, <2>3, PassMoves DEF E!ListWorkspace, PassCounted
<1>8. ASSUME NEW w \in Workers, E!ListProject(w) PROVE EmbedCounted'
  BY <1>5, <1>8 DEF E!ListProject
<1>9. ASSUME NEW w \in Workers, E!ListProjectFails(w) PROVE EmbedCounted'
  BY <1>5, <1>9 DEF E!ListProjectFails
<1>10. ASSUME NEW w \in Workers, NEW d \in Docs, E!Check(w, d) PROVE EmbedCounted'
  <2>1. PICK c \in Pass : c = pass[w] /\ c.at = "scan"
    BY <1>1, <1>10 DEF E!Check
  <2>2. UNCHANGED <<doc, overlapped, docWrites, embedFaults>>
    BY <1>10 DEF E!Check
  <2>3. CASE E!Done(w, d)
    BY <1>2, <1>4, <2>2, <2>3
  <2>4. CASE ~ E!Done(w, d)
    <3>1. PICK k : k = [c EXCEPT !.at = "get"] /\ pass' = [pass EXCEPT ![w] = k]
      BY <1>10, <2>1, <2>4 DEF E!Check, EmbedInv, EmbedTyped
    <3>2. k.at = "get"
      BY <2>1, <3>1 DEF Pass
    <3> QED
      BY <1>2, <2>2, <3>1, <3>2, PassMoves DEF PassCounted
  <2> QED
    BY <2>3, <2>4
<1>11. ASSUME NEW w \in Workers, NEW d \in Docs, E!Get(w, d) PROVE EmbedCounted'
  <2>1. UNCHANGED <<doc, overlapped, docWrites, embedFaults>>
    BY <1>11 DEF E!Get
  <2>2. CASE E!Done(w, d)
    BY <1>2, <1>4, <2>1, <2>2
  <2>3. CASE ~ E!Done(w, d)
    <3>1. PICK k : /\ k = [at |-> "embed", page |-> pass[w].page, todo |-> pass[w].todo,
                           got |-> [version |-> doc[d].latest, blank |-> doc[d].blank]]
                   /\ pass' = [pass EXCEPT ![w] = k]
      BY <1>11, <2>3 DEF E!Get
    <3>2. k.at = "embed" /\ k.got \in E!Body
      BY <3>1, ChunksWritten DEF E!Body
    <3> QED
      BY <1>2, <2>1, <3>1, <3>2, PassMoves DEF PassCounted
  <2> QED
    BY <2>2, <2>3
<1>12. ASSUME NEW w \in Workers, NEW d \in Docs, E!EmbedBlank(w, d) \/ E!PassOver(w, d) PROVE EmbedCounted'
  BY <1>2, <1>4, <1>12 DEF E!EmbedBlank, E!PassOver
<1>13. ASSUME NEW w \in Workers, NEW d \in Docs, E!Embed(w, d) PROVE EmbedCounted'
  <2>1. PICK k : /\ k = [at |-> "replace", page |-> pass[w].page, todo |-> pass[w].todo, got |-> pass[w].got,
                         seen |-> chunks[d]]
                 /\ pass' = [pass EXCEPT ![w] = k]
    BY <1>13 DEF E!Embed
  <2>2. k.at = "replace" /\ k.got \in E!Body /\ k.seen \subseteq E!ChunkSet
    <3>1. pass[w].got \in E!Body
      BY <1>1, <1>13 DEF E!Embed, PassCounted
    <3> QED
      BY <2>1, <3>1, ChunksWritten
  <2> QED
    BY <1>2, <1>13, <2>1, <2>2, PassMoves DEF E!Embed, PassCounted
<1>14. ASSUME NEW w \in Workers, NEW d \in Docs, E!Replace(w, d) PROVE EmbedCounted'
  <2>1. overlapped' \subseteq Docs
    BY <1>2, <1>14 DEF E!Replace
  <2> QED
    BY <1>4, <1>14, <2>1 DEF E!Replace
<1>15. ASSUME NEW w \in Workers, E!PruneList(w) PROVE EmbedCounted'
  <2>1. PICK c \in Pass : c = pass[w] /\ c.at = "scan"
    BY <1>1, <1>15 DEF E!PruneList
  <2>2. PICK k : /\ k = E!Idle \/ k = [c EXCEPT !.at = "prune", !.todo = E!Pruning(w)]
                 /\ pass' = [pass EXCEPT ![w] = k]
    BY <1>15, <2>1 DEF E!PruneList
  <2>3. PassCounted(k)
    <3>1. [c EXCEPT !.at = "prune", !.todo = E!Pruning(w)].at = "prune"
      BY <2>1 DEF Pass
    <3> QED
      BY <1>3, <2>2, <3>1 DEF PassCounted
  <2> QED
    BY <1>2, <1>15, <2>2, <2>3, PassMoves DEF E!PruneList
<1>16. ASSUME NEW w \in Workers, NEW d \in Docs, E!Prune(w, d) \/ E!PruneFails(w, d) PROVE EmbedCounted'
  <2>1. PICK c \in Pass : c = pass[w] /\ c.at = "prune"
    BY <1>1, <1>16 DEF E!Prune, E!PruneFails
  <2>2. PICK k : /\ k = E!Idle \/ k = [c EXCEPT !.todo = c.todo \ {d}]
                 /\ pass' = [pass EXCEPT ![w] = k]
    BY <1>16, <2>1 DEF E!Prune, E!PruneFails, E!PruneDone
  <2>3. PassCounted(k)
    <3>1. [c EXCEPT !.todo = c.todo \ {d}].at = "prune"
      BY <2>1 DEF Pass
    <3> QED
      BY <1>3, <2>2, <3>1 DEF PassCounted
  <2> QED
    BY <1>2, <1>16, <2>2, <2>3, PassMoves DEF E!Prune, E!PruneFails
<1>17. ASSUME NEW w \in Workers, E!EndPass(w) PROVE EmbedCounted'
  BY <1>2, <1>3, <1>17, PassMoves DEF E!EndPass
<1>18. CASE UNCHANGED E!vars
  BY <1>18 DEF E!vars, EmbedCounted, PassCounted, E!Body, E!ChunkSet, E!Version
<1> QED
  BY <1>6, <1>7, <1>8, <1>9, <1>10, <1>11, <1>12, <1>13, <1>14, <1>15, <1>16, <1>17, <1>18 DEF E!Next, E!WorkerStep

LEMMA EmbedTypes ==
    Docs \subseteq Int /\ ProjectDocs \subseteq Docs /\ DocWrites \in Nat /\ EmbedFaults \in Nat =>
        (E!Spec => []E!TypeOK)
<1> SUFFICES ASSUME Docs \subseteq Int, ProjectDocs \subseteq Docs, DocWrites \in Nat, EmbedFaults \in Nat
             PROVE  E!Spec => []E!TypeOK
  OBVIOUS
<1>1. E!Init => EmbedInv /\ EmbedCounted
  <2> SUFFICES ASSUME E!Init PROVE EmbedInv /\ EmbedCounted
    OBVIOUS
  <2>1. \A w \in Workers : PassCounted(pass[w])
    BY IdlePass DEF E!Init, PassCounted
  <2>2. \A d \in Docs : doc[d].latest <= docWrites
    BY DEF E!Init
  <2>3. overlapped \subseteq Docs /\ docWrites \in 0..DocWrites /\ embedFaults \in 0..EmbedFaults
    BY DEF E!Init
  <2> QED
    BY <2>1, <2>2, <2>3, EmbedBegins DEF EmbedCounted
<1>2. EmbedInv /\ EmbedCounted /\ [E!Next]_(E!vars) => EmbedInv' /\ EmbedCounted'
  BY EmbedKept, EmbedCounts
<1>3. EmbedInv /\ EmbedCounted => E!TypeOK
  <2> SUFFICES ASSUME EmbedInv, EmbedCounted PROVE E!TypeOK
    OBVIOUS
  <2>1. doc \in [Docs -> E!Document]
    <3>1. \A d \in Docs : doc[d] \in E!Document
      BY ChunksWritten DEF EmbedInv, EmbedTyped, E!Document
    <3> QED
      BY <3>1 DEF EmbedInv, EmbedTyped
  <2>2. chunks \in [Docs -> SUBSET E!ChunkSet]
    BY ChunksWritten DEF EmbedInv, EmbedTyped
  <2>3. ASSUME NEW w \in Workers
        PROVE  /\ pass[w].at \in {"idle", "project", "scan", "get", "embed", "replace", "prune"}
               /\ DOMAIN pass[w].page \subseteq Docs /\ pass[w].todo \subseteq Docs
               /\ PassCounted(pass[w])
    <3>1. pass[w] \in Pass
      BY DEF EmbedInv, EmbedTyped
    <3>2. pass[w].page \in Pages /\ pass[w].todo \subseteq Docs
          /\ pass[w].at \in {"idle", "project", "scan", "get", "embed", "replace", "prune"}
      BY <3>1 DEF Pass
    <3> QED
      BY <3>2, PageIs DEF EmbedCounted
  <2> QED
    BY <2>1, <2>2, <2>3 DEF EmbedCounted, PassCounted, E!TypeOK
<1> QED
  BY <1>1, <1>2, <1>3, PTL DEF E!Spec

-----------------------------------------------------------------------------
\* Every step of the run is a step of one service, and leaves the others alone.
LEMMA ServicesStep ==
    ASSUME [MCNext]_allVars
    PROVE  /\ [Next]_vars /\ [D!Next]_(D!vars) /\ [E!Next]_(E!vars) /\ [L!Next]_(L!vars)
           /\ [M!Next]_(M!vars)
<1>1. /\ UNCHANGED documentsVars => UNCHANGED D!vars
      /\ UNCHANGED embedVars => UNCHANGED E!vars
      /\ UNCHANGED liveVars => UNCHANGED L!vars
      /\ UNCHANGED membersVars => UNCHANGED M!vars
  BY DEF documentsVars, embedVars, liveVars, membersVars, D!vars, E!vars, L!vars, M!vars
<1>2. CASE UNCHANGED allVars
  BY <1>1, <1>2 DEF allVars
<1>3. CASE MCNext
  BY <1>1, <1>3 DEF MCNext, HandlerNext, DocumentsNext, EmbedNext, LiveNext, MembersNext
<1> QED
  BY <1>2, <1>3

ServiceBounds ==
    /\ Docs \subseteq Int /\ ProjectDocs \subseteq Docs /\ DocWrites \in Nat /\ EmbedFaults \in Nat
    /\ PageWrites \in Nat /\ ClientBuffer \in Nat
    /\ IsFiniteSet(Users) /\ "link" \notin Users

\* In the run that has them all, the services are what their types say, the handler accounts for
\* its records, the documents and their chunks are faithful, a page that is not current asks
\* again or has missed something, and the members are whom they may be.  For any values of the
\* constants, within the bounds of the services.
THEOREM ServicesAreSound ==
    ServiceBounds =>
        (MCSpec => [](/\ Types
                      /\ Accounted /\ HoldsNewest /\ QuietClose /\ OnceUnlessUnsure
                      /\ DocumentsFaithful /\ StaleOnlyIfMissed /\ MembershipSound))
<1> SUFFICES ASSUME ServiceBounds
             PROVE  MCSpec => [](/\ Types
                                 /\ Accounted /\ HoldsNewest /\ QuietClose /\ OnceUnlessUnsure
                                 /\ DocumentsFaithful /\ StaleOnlyIfMissed /\ MembershipSound)
  OBVIOUS
<1>1. MCInit => Init /\ D!Init /\ E!Init /\ L!Init /\ M!Init
  BY DEF MCInit
<1>2. [MCNext]_allVars =>
        [Next]_vars /\ [D!Next]_(D!vars) /\ [E!Next]_(E!vars) /\ [L!Next]_(L!vars) /\ [M!Next]_(M!vars)
  BY ServicesStep
<1>3. MCSpec => Spec /\ D!Spec /\ E!Spec /\ L!Spec /\ M!Spec
  <2>1. MCSpec => MCInit /\ [][MCNext]_allVars
    BY PTL DEF MCSpec
  <2> QED
    BY <1>1, <1>2, <2>1, PTL DEF Spec, D!Spec, E!Spec, L!Spec, M!Spec
<1>4. /\ Spec => []TypeOK
      /\ D!Spec => []D!TypeOK
      /\ E!Spec => []E!TypeOK
      /\ L!Spec => []L!TypeOK
      /\ M!Spec => []M!TypeOK
  BY HandlerTypeCorrect, DocumentTypes, EmbedTypes, PageTypes, MembersTypes DEF ServiceBounds
<1>5. Spec => []Accounted /\ []HoldsNewest /\ []QuietClose /\ []OnceUnlessUnsure
  BY HandlerAccounts, ChannelHoldsNewest, CloseLeavesNothing, RowsOnceUnlessUnsure
<1>6. D!Spec /\ E!Spec => []DocumentsFaithful
  BY DocumentsAreFaithful DEF ServiceBounds
<1>7. (L!Spec => []StaleOnlyIfMissed) /\ (M!Spec => []MembershipSound)
  BY PagesAskAgain, MembershipIsSound DEF ServiceBounds
<1>8. TypeOK /\ D!TypeOK /\ E!TypeOK /\ L!TypeOK /\ M!TypeOK => Types
  BY DEF Types
<1> QED
  BY <1>3, <1>4, <1>5, <1>6, <1>7, <1>8, PTL
=============================================================================
