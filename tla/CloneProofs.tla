---------------------------- MODULE CloneProofs ----------------------------
(***************************************************************************)
(* Theorems about a clone: the flushes of its event log (WorkSync) and of  *)
(* the inbox of a review (Inbox), the sync of a skill (SkillSync), what an *)
(* accepted workflow file guarantees (WorkflowFile) and which file governs *)
(* a story (Governance), for any number of overlapping flushes and syncs,  *)
(* events, rows and faults, and any files; then the run that has them all. *)
(***************************************************************************)
EXTENDS MCClone, FiniteSetTheorems, NaturalsInduction, WellFoundedInduction, TLAPS

-----------------------------------------------------------------------------
(* The event log.                                                          *)

\* The ledger r holds the events up to n.
Holds(r, n) == \A e \in Seqs : e <= n => r[e] > 0

\* What a flush c under way knows of a log of n events and a ledger r: everything up
\* to max is on the ledger, and the event it is appending is the next one.
Fits(c, n, r) ==
    /\ c.at # "idle" => c.max <= n /\ Holds(r, c.max)
    /\ c.at = "marked" => c.max = c.last
    /\ c.at \in {"check", "insert"} => /\ c.next = c.max + 1
                                       /\ c.next <= c.upto /\ c.upto <= n

\* NothingSkipped is not inductive alone: rows come from flushes and from calls that
\* were given up, and the mark from what a flush saw go through.
SyncInv ==
    /\ TypeOK
    /\ mark <= events
    /\ NothingSkipped
    /\ \A e \in Seqs : late[e] > 0 => Holds(rows, e - 1)
    /\ \A f \in Flushes : Fits(flush[f], events, rows)

\* A flush appends an event of the log.
LEMMA NextIsEvent ==
    ASSUME SyncInv, NEW f \in Flushes, flush[f].at \in {"check", "insert"}
    PROVE  /\ flush[f] \in Flush /\ flush[f].next \in Seqs
           /\ flush[f].next <= events /\ events \in Nat
           /\ flush[f].next = flush[f].max + 1 /\ flush[f].upto <= events
           /\ Holds(rows, flush[f].max)
<1>1. flush[f] \in Flush /\ Fits(flush[f], events, rows) /\ events \in 0..MaxEvents
  BY DEF SyncInv, TypeOK
<1> QED
  BY <1>1, WorkSyncAssumption DEF Fits, Flush, Seqs

\* A ledger that only grows.
Grows(r, s) == s \in [Seqs -> Nat] /\ \A e \in Seqs : s[e] >= r[e]

LEMMA FitsStays ==
    ASSUME NEW c, NEW m \in Nat, NEW n \in Nat, m <= n,
           NEW r \in [Seqs -> Nat], NEW s, Grows(r, s), Fits(c, m, r), c \in Flush
    PROVE  Fits(c, n, s)
<1>1. \A k : Holds(r, k) => Holds(s, k)
  BY DEF Holds, Grows
<1> QED
  BY <1>1 DEF Fits, Flush

LEMMA SyncInit == Init => SyncInv
<1> SUFFICES ASSUME Init
             PROVE  SyncInv
  OBVIOUS
<1>1. Idle \in Flush /\ Fits(Idle, events, rows)
  BY DEF Idle, Flush, Fits
<1>2. TypeOK
  BY <1>1, WorkSyncAssumption DEF Init, TypeOK
<1>3. NothingSkipped /\ \A e \in Seqs : late[e] > 0 => Holds(rows, e - 1)
  BY DEF Init, NothingSkipped, Delivered, Seqs
<1> QED
  BY <1>1, <1>2, <1>3 DEF Init, SyncInv

\* One flush changes into c while the ledger grows or stays.
LEMMA FlushChanges ==
    ASSUME SyncInv, NEW f \in Flushes, NEW c \in Flush,
           flush' = [flush EXCEPT ![f] = c], events' = events,
           Grows(rows, rows'), Fits(c, events, rows')
    PROVE  /\ flush' \in [Flushes -> Flush]
           /\ \A g \in Flushes : Fits(flush'[g], events', rows')
<1>1. /\ flush' \in [Flushes -> Flush]
      /\ \A g \in Flushes : flush'[g] = IF g = f THEN c ELSE flush[g]
      /\ events \in Nat /\ rows \in [Seqs -> Nat]
  BY WorkSyncAssumption DEF SyncInv, TypeOK
<1>2. ASSUME NEW g \in Flushes, g # f
      PROVE  Fits(flush'[g], events', rows')
  <2>1. flush'[g] = flush[g] /\ Fits(flush[g], events, rows) /\ flush[g] \in Flush
    BY <1>1, <1>2 DEF SyncInv, TypeOK
  <2>2. Fits(flush[g], events, rows')
    BY <1>1, <2>1, FitsStays
  <2> QED
    BY <2>1, <2>2
<1> QED
  BY <1>1, <1>2

\* An event is through: the flush goes to the next one, or to store the mark.
LEMMA SucceedsSound ==
    ASSUME SyncInv, NEW f \in Flushes, flush[f].at \in {"check", "insert"}, Succeeds(f),
           events' = events, Grows(rows, rows'), rows'[flush[f].next] > 0
    PROVE  /\ flush' \in [Flushes -> Flush]
           /\ \A g \in Flushes : Fits(flush'[g], events', rows')
<1> DEFINE c == flush[f]
           d == IF c.next < c.upto
                THEN [c EXCEPT !.at = "check", !.max = c.next, !.next = c.next + 1]
                ELSE [c EXCEPT !.at = "advance", !.max = c.next]
<1>1. /\ c \in Flush /\ c.next \in Seqs /\ c.next <= events /\ events \in Nat
      /\ c.next = c.max + 1 /\ c.upto <= events /\ Holds(rows, c.max)
  BY NextIsEvent
<1>2. c.next \in Nat /\ c.max \in Nat /\ c.upto \in Nat
  BY <1>1 DEF Flush
<1>3. d \in Flush
  <2>1. [c EXCEPT !.at = "check", !.max = c.next, !.next = c.next + 1] \in Flush
    <3>1. \A b \in Flush, k \in Nat, j \in Nat :
            [b EXCEPT !.at = "check", !.max = k, !.next = j] \in Flush
      BY DEF Flush
    <3>2. c.next + 1 \in Nat
      BY <1>2
    <3> QED
      BY <1>1, <1>2, <3>1, <3>2
  <2>2. [c EXCEPT !.at = "advance", !.max = c.next] \in Flush
    BY <1>1, <1>2 DEF Flush
  <2> QED
    BY <2>1, <2>2
<1>4. flush' = [flush EXCEPT ![f] = d]
  BY DEF Succeeds
<1>5. Holds(rows', c.next)
  BY <1>1, <1>2 DEF Holds, Grows, Seqs, SyncInv, TypeOK
<1>6. Fits(d, events, rows')
  <2>1. CASE c.next < c.upto
    <3>1. d.at = "check" /\ d.max = c.next /\ d.next = c.next + 1 /\ d.upto = c.upto
      BY <1>1, <2>1 DEF Flush
    <3> QED
      BY <1>1, <1>2, <1>5, <2>1, <3>1 DEF Fits
  <2>2. CASE ~(c.next < c.upto)
    <3>1. d.at = "advance" /\ d.max = c.next
      BY <1>1, <2>2 DEF Flush
    <3> QED
      BY <1>1, <1>5, <3>1 DEF Fits
  <2> QED
    BY <2>1, <2>2
<1> HIDE DEF d
<1> QED
  BY <1>3, <1>4, <1>6, FlushChanges

\* A flush stops, or is killed: what went through before stands.
LEMMA StopsSound ==
    ASSUME SyncInv, NEW f \in Flushes, flush[f].at # "idle",
           NEW d \in {Idle, [flush[f] EXCEPT !.at = "advance"]},
           flush' = [flush EXCEPT ![f] = d], UNCHANGED <<events, rows>>
    PROVE  /\ flush' \in [Flushes -> Flush]
           /\ \A g \in Flushes : Fits(flush'[g], events', rows')
<1> DEFINE c == flush[f]
<1>1. c \in Flush /\ Fits(c, events, rows) /\ rows \in [Seqs -> Nat]
  BY DEF SyncInv, TypeOK
<1>2. d \in Flush /\ Fits(d, events, rows)
  <2>1. CASE d = Idle
    BY <2>1 DEF Idle, Flush, Fits
  <2>2. CASE d = [c EXCEPT !.at = "advance"]
    BY <1>1, <2>2 DEF Flush, Fits
  <2> QED
    BY <2>1, <2>2
<1>3. Grows(rows, rows') /\ rows' = rows
  BY <1>1 DEF Grows
<1> QED
  BY <1>2, <1>3, FlushChanges

\* The steps of a flush that leave the ledger alone.
LEMMA QuietStep ==
    ASSUME SyncInv, NEW f \in Flushes, UNCHANGED <<rows, late>>,
           ReadMark(f) \/ ReadEvents(f) \/ Check(f) \/ Advance(f) \/ Fails(f)
    PROVE  SyncInv'
<1>1. /\ flush \in [Flushes -> Flush] /\ events \in 0..MaxEvents /\ events \in Nat
      /\ rows \in [Seqs -> Nat] /\ faults \in 0..MaxFaults /\ mark \in Nat
  BY WorkSyncAssumption DEF SyncInv, TypeOK
<1>2. Grows(rows, rows')
  BY <1>1 DEF Grows
<1> DEFINE Kept == /\ flush' \in [Flushes -> Flush]
                   /\ \A g \in Flushes : Fits(flush'[g], events', rows')
<1>3. ASSUME Kept, events' = events, mark' <= events, mark' \in 0..MaxEvents,
             Holds(rows, mark'), raced' \subseteq Seqs, faults' \in 0..MaxFaults
      PROVE  SyncInv'
  BY <1>1, <1>3 DEF SyncInv, TypeOK, NothingSkipped, Delivered, Holds
<1>4. Holds(rows, mark) /\ mark <= events /\ mark \in 0..MaxEvents /\ raced \subseteq Seqs
  BY DEF SyncInv, TypeOK, NothingSkipped, Delivered, Holds
<1>5. CASE ReadMark(f)
  <2> DEFINE d == [Idle EXCEPT !.at = "marked", !.last = mark, !.max = mark]
  <2>1. d \in Flush /\ Fits(d, events, rows')
    BY <1>1, <1>4 DEF Flush, Idle, Fits
  <2>2. flush' = [flush EXCEPT ![f] = d]
    BY <1>5 DEF ReadMark
  <2> HIDE DEF d
  <2>3. Kept
    BY <1>2, <1>5, <2>1, <2>2, FlushChanges DEF ReadMark
  <2> QED
    BY <1>1, <1>3, <1>4, <1>5, <2>3 DEF ReadMark
<1>6. CASE ReadEvents(f)
  <2> DEFINE c == flush[f]
             d == [c EXCEPT !.at = "check", !.next = c.last + 1, !.upto = events]
  <2>1. c \in Flush /\ c.at = "marked" /\ Fits(c, events, rows)
    BY <1>1, <1>6 DEF SyncInv, ReadEvents
  <2>2. ASSUME events > c.last
        PROVE  d \in Flush /\ Fits(d, events, rows')
    <3>1. d \in Flush
      <4>1. \A b \in Flush, k \in Nat, j \in Nat :
              [b EXCEPT !.at = "check", !.next = k, !.upto = j] \in Flush
        BY DEF Flush
      <4>2. c.last + 1 \in Nat
        BY <2>1 DEF Flush
      <4> QED
        BY <1>1, <2>1, <4>1, <4>2
    <3>2. /\ d.at = "check" /\ d.next = c.last + 1 /\ d.upto = events /\ d.max = c.max
          /\ c.last \in Nat
      BY <1>1, <2>1 DEF Flush
    <3> QED
      BY <1>1, <1>6, <2>1, <2>2, <3>1, <3>2 DEF Fits, ReadEvents
  <2>3. Idle \in Flush /\ Fits(Idle, events, rows')
    BY DEF Idle, Flush, Fits
  <2>4. \/ events > c.last /\ flush' = [flush EXCEPT ![f] = d]
        \/ flush' = [flush EXCEPT ![f] = Idle]
    BY <1>6 DEF ReadEvents
  <2> HIDE DEF d
  <2>5. Kept
    BY <1>2, <1>6, <2>2, <2>3, <2>4, FlushChanges DEF ReadEvents
  <2> QED
    BY <1>1, <1>3, <1>4, <1>6, <2>5 DEF ReadEvents
<1>7. CASE Check(f)
  <2> DEFINE c == flush[f]
             d == [c EXCEPT !.at = "insert"]
  <2>1. c \in Flush /\ c.at = "check" /\ Fits(c, events, rows) /\ c.next \in Seqs
    BY <1>7, NextIsEvent DEF SyncInv, Check
  <2>2. d \in Flush /\ Fits(d, events, rows')
    BY <1>7, <2>1 DEF Flush, Fits, Check
  <2>3. \/ Succeeds(f) /\ rows'[c.next] > 0
        \/ flush' = [flush EXCEPT ![f] = d]
    BY <1>7, <2>1 DEF Check, Moves
  <2> HIDE DEF d
  <2>4. Kept
    BY <1>2, <1>7, <2>1, <2>2, <2>3, FlushChanges, SucceedsSound DEF Check
  <2>5. raced' \subseteq Seqs
    BY <1>4, <1>7, <2>1 DEF Check
  <2> QED
    BY <1>1, <1>3, <1>4, <1>7, <2>4, <2>5 DEF Check
<1>8. CASE Advance(f)
  <2>1. /\ flush[f] \in Flush /\ flush[f].max <= events /\ Holds(rows, flush[f].max)
        /\ flush[f].at = "advance"
    BY <1>1, <1>8 DEF SyncInv, Fits, Advance
  <2>2. flush[f].max \in 0..MaxEvents
    BY <1>1, <2>1, WorkSyncAssumption DEF Flush
  <2>3. Kept
    BY <1>8, <2>1, StopsSound DEF Advance
  <2> QED
    BY <1>1, <1>3, <1>4, <1>8, <2>1, <2>2, <2>3 DEF Advance
<1>9. CASE Fails(f)
  <2>1. flush[f].at # "idle"
    BY <1>9 DEF Fails
  <2>2. Kept
    BY <1>9, <2>1, StopsSound DEF Fails, Stops
  <2>3. faults' \in 0..MaxFaults
    BY <1>1, <1>9, WorkSyncAssumption DEF Fails, Faulty
  <2> QED
    BY <1>1, <1>3, <1>4, <1>9, <2>2, <2>3 DEF Fails
<1> QED
  BY <1>5, <1>6, <1>7, <1>8, <1>9

\* The steps that add to the ledger, or to what may still reach it.
LEMMA LedgerStep ==
    ASSUME SyncInv,
           \/ \E f \in Flushes : Insert(f) \/ GivesUp(f) \/ Killed(f)
           \/ \E e \in Seqs : LateInsert(e)
    PROVE  SyncInv'
<1>1. /\ flush \in [Flushes -> Flush] /\ events \in 0..MaxEvents
      /\ rows \in [Seqs -> Nat] /\ late \in [Seqs -> Nat] /\ faults \in 0..MaxFaults
      /\ \A e \in Seqs : late[e] > 0 => Holds(rows, e - 1)
      /\ \A e \in Seqs : rows[e] > 0 => Holds(rows, e)
  BY DEF SyncInv, TypeOK, NothingSkipped, Delivered, Holds
<1> DEFINE Kept == /\ flush' \in [Flushes -> Flush]
                   /\ \A g \in Flushes : Fits(flush'[g], events', rows')
<1>2. ASSUME Kept, UNCHANGED <<events, mark, raced>>, Grows(rows, rows'),
             late' \in [Seqs -> Nat], faults' \in 0..MaxFaults,
             \A e \in Seqs : late'[e] > 0 => Holds(rows, e - 1),
             \A e \in Seqs : rows'[e] > 0 => Holds(rows, e - 1)
      PROVE  SyncInv'
  <2>1. \A k : Holds(rows, k) => Holds(rows', k)
    BY <1>1, <1>2 DEF Holds, Grows
  <2>2. \A e \in Seqs : rows'[e] > 0 => Holds(rows', e)
    <3> SUFFICES ASSUME NEW e \in Seqs, rows'[e] > 0, NEW d \in Seqs, d <= e
                 PROVE  rows'[d] > 0
      BY DEF Holds
    <3>1. CASE d = e
      BY <3>1
    <3>2. CASE d <= e - 1
      BY <1>2, <2>1, <3>2 DEF Holds
    <3> QED
      BY <3>1, <3>2 DEF Seqs
  <2> QED
    BY <1>2, <2>1, <2>2 DEF SyncInv, TypeOK, NothingSkipped, Delivered, Holds, Grows
<1>3. Grows(rows, rows)
  BY <1>1 DEF Grows
<1>4. \A e \in Seqs : rows[e] > 0 => Holds(rows, e - 1)
  BY <1>1 DEF Holds, Seqs
<1>5. ASSUME NEW f \in Flushes, flush[f].at = "insert"
      PROVE  flush[f].next \in Seqs /\ Holds(rows, flush[f].next - 1)
  <2>1. flush[f] \in Flush /\ flush[f].next \in Seqs /\ flush[f].next = flush[f].max + 1
        /\ Holds(rows, flush[f].max)
    BY <1>5, NextIsEvent
  <2>2. flush[f].next - 1 = flush[f].max
    BY <2>1 DEF Flush
  <2> QED
    BY <2>1, <2>2
<1>6. ASSUME NEW f \in Flushes, Insert(f)
      PROVE  SyncInv'
  <2> DEFINE e == flush[f].next
  <2>1. e \in Seqs /\ Holds(rows, e - 1) /\ rows' = [rows EXCEPT ![e] = @ + 1]
    BY <1>5, <1>6 DEF Insert
  <2>2. Grows(rows, rows') /\ rows'[e] > 0
    BY <1>1, <2>1 DEF Grows
  <2>3. Kept
    BY <1>6, <2>2, SucceedsSound DEF Insert
  <2>4. \A d \in Seqs : rows'[d] > 0 => Holds(rows, d - 1)
    BY <1>1, <1>4, <2>1
  <2> QED
    BY <1>1, <1>2, <1>6, <2>2, <2>3, <2>4 DEF Insert
<1>7. ASSUME NEW f \in Flushes, GivesUp(f) \/ Killed(f)
      PROVE  SyncInv'
  <2> DEFINE e == flush[f].next
  <2>1. flush[f].at # "idle" /\ UNCHANGED <<events, mark, rows, raced>>
    BY <1>7 DEF GivesUp, Killed
  <2>2. PICK d \in {Idle, [flush[f] EXCEPT !.at = "advance"]} :
          flush' = [flush EXCEPT ![f] = d]
    BY <1>7 DEF GivesUp, Killed, Stops
  <2>3. Kept
    BY <2>1, <2>2, StopsSound
  <2>4. \/ late' = late
        \/ flush[f].at = "insert" /\ late' = [late EXCEPT ![e] = @ + 1]
    BY <1>7 DEF GivesUp, Killed
  <2>5. /\ late' \in [Seqs -> Nat]
        /\ \A q \in Seqs : late'[q] > 0 => Holds(rows, q - 1)
    BY <1>1, <1>5, <2>4
  <2>6. faults' \in 0..MaxFaults
    BY <1>1, <1>7, WorkSyncAssumption DEF GivesUp, Killed, Faulty
  <2> QED
    BY <1>2, <1>3, <1>4, <2>1, <2>3, <2>5, <2>6
<1>8. ASSUME NEW e \in Seqs, LateInsert(e)
      PROVE  SyncInv'
  <2>1. /\ late[e] > 0 /\ late' = [late EXCEPT ![e] = @ - 1]
        /\ rows' \in {rows, [rows EXCEPT ![e] = @ + 1]}
        /\ UNCHANGED <<events, mark, flush, raced, faults>>
    BY <1>8 DEF LateInsert
  <2>2. Grows(rows, rows')
    BY <1>1, <2>1 DEF Grows
  <2>3. late' \in [Seqs -> Nat] /\ \A d \in Seqs : late'[d] > 0 => Holds(rows, d - 1)
    BY <1>1, <2>1
  <2>4. \A d \in Seqs : rows'[d] > 0 => Holds(rows, d - 1)
    BY <1>1, <1>4, <2>1
  <2>5. Kept
    <3>1. events \in Nat
      BY <1>1
    <3>2. \A g \in Flushes : flush[g] \in Flush /\ Fits(flush[g], events, rows)
      BY <1>1 DEF SyncInv
    <3>3. \A g \in Flushes : Fits(flush[g], events, rows')
      BY <1>1, <2>2, <3>1, <3>2, FitsStays
    <3> QED
      BY <1>1, <2>1, <3>3
  <2> QED
    BY <1>1, <1>2, <2>1, <2>2, <2>3, <2>4, <2>5
<1> QED
  BY <1>6, <1>7, <1>8

LEMMA SyncNext == SyncInv /\ [Next]_vars => SyncInv'
<1> SUFFICES ASSUME SyncInv, [Next]_vars
             PROVE  SyncInv'
  OBVIOUS
<1>1. /\ flush \in [Flushes -> Flush] /\ events \in Nat /\ rows \in [Seqs -> Nat]
      /\ events \in 0..MaxEvents /\ mark \in 0..MaxEvents
      /\ \A f \in Flushes : flush[f] \in Flush /\ Fits(flush[f], events, rows)
  BY WorkSyncAssumption DEF SyncInv, TypeOK
<1>2. CASE Record
  <2>1. events' = events + 1 /\ events' \in 0..MaxEvents /\ events' \in Nat
    BY <1>1, <1>2, WorkSyncAssumption DEF Record
  <2>2. Grows(rows, rows)
    BY <1>1 DEF Grows
  <2>3. \A f \in Flushes : Fits(flush[f], events', rows)
    BY <1>1, <2>1, <2>2, FitsStays
  <2>4. mark <= events'
    BY <1>1, <2>1 DEF SyncInv
  <2> QED
    BY <1>2, <2>1, <2>3, <2>4 DEF Record, SyncInv, TypeOK, NothingSkipped, Delivered, Holds
<1>3. CASE UNCHANGED vars
  BY <1>3 DEF vars, SyncInv, TypeOK, NothingSkipped, Delivered, Holds, Fits
<1>4. ASSUME NEW f \in Flushes,
             ReadMark(f) \/ ReadEvents(f) \/ Check(f) \/ Advance(f) \/ Fails(f)
      PROVE  SyncInv'
  <2>1. UNCHANGED <<rows, late>>
    BY <1>4 DEF ReadMark, ReadEvents, Check, Advance, Fails
  <2> QED
    BY <1>4, <2>1, QuietStep
<1> QED
  BY <1>2, <1>3, <1>4, LedgerStep DEF Next, Runs

\* Every reachable state is well typed: the mark and what flushes append stay within
\* the log (runWorkSync, Store.EventsSince).
THEOREM SyncTyped == Spec => []TypeOK
<1>1. SyncInv => TypeOK
  BY DEF SyncInv
<1> QED
  BY <1>1, SyncInit, SyncNext, PTL DEF Spec

\* What the mark covers is on the ledger, and so is everything before a row that is,
\* however flushes overlap, fail or are killed: runWorkSync stops at the first event
\* that fails and advances the mark only past events that went through.
THEOREM NothingIsSkipped == Spec => []NothingSkipped
<1>1. SyncInv => NothingSkipped
  BY DEF SyncInv
<1> QED
  BY <1>1, SyncInit, SyncNext, PTL DEF Spec

-----------------------------------------------------------------------------
\* A seq whose inserts never overlapped is on the ledger once, or one insert of it is
\* under way.
Appending(e) == {f \in Flushes : flush[f].at = "insert" /\ flush[f].next = e}
Single(e) ==
    /\ rows[e] <= 1
    /\ rows[e] = 1 => late[e] = 0 /\ Appending(e) = {}
    /\ late[e] <= 1
    /\ late[e] = 1 => Appending(e) = {}
    /\ \A f, g \in Appending(e) : f = g
RaceInv == \A e \in Seqs : e \notin raced => Single(e)

\* A flush that is not, or no longer, inserting is out of every Appending set.
LEMMA Leaves ==
    ASSUME SyncInv, NEW f \in Flushes, NEW d \in Flush, d.at # "insert",
           flush' = [flush EXCEPT ![f] = d], NEW e \in Seqs
    PROVE  Appending(e)' = Appending(e) \ {f}
<1>1. \A g \in Flushes : flush'[g] = IF g = f THEN d ELSE flush[g]
  BY DEF SyncInv, TypeOK
<1> QED
  BY <1>1 DEF Appending

\* Whatever a flush does but start an insert takes it out of the Appending sets.
LEMMA LeavesBy ==
    ASSUME SyncInv, NEW f \in Flushes, NEW e \in Seqs,
           \/ ReadMark(f) \/ ReadEvents(f) \/ Insert(f) \/ Advance(f)
           \/ Fails(f) \/ GivesUp(f) \/ Killed(f)
           \/ Check(f) /\ rows[flush[f].next] > 0
    PROVE  Appending(e)' = Appending(e) \ {f}
<1> DEFINE c == flush[f]
           Others == {d \in Flush : d.at # "insert"}
<1>1. c \in Flush /\ mark \in Nat /\ events \in Nat
  BY WorkSyncAssumption DEF SyncInv, TypeOK
<1>2. Idle \in Others
  BY DEF Idle, Flush
<1>3. [Idle EXCEPT !.at = "marked", !.last = mark, !.max = mark] \in Others
  BY <1>1 DEF Idle, Flush
<1>4. [c EXCEPT !.at = "advance"] \in Others
  BY <1>1 DEF Flush
<1>5. \A m \in Nat, n \in Nat :
        /\ [c EXCEPT !.at = "check", !.next = m, !.upto = n] \in Others
        /\ [c EXCEPT !.at = "check", !.max = m, !.next = n] \in Others
        /\ [c EXCEPT !.at = "advance", !.max = m] \in Others
  BY <1>1 DEF Flush
<1>6. c.last + 1 \in Nat /\ c.next \in Nat /\ c.next + 1 \in Nat
  BY <1>1 DEF Flush
<1> HIDE DEF Others
<1>7. \E d \in Others : flush' = [flush EXCEPT ![f] = d]
  <2>1. CASE ReadMark(f) \/ Advance(f) \/ Killed(f)
    BY <1>2, <1>3, <2>1 DEF ReadMark, Advance, Killed
  <2>2. CASE ReadEvents(f)
    <3>1. [c EXCEPT !.at = "check", !.next = c.last + 1, !.upto = events] \in Others
      BY <1>1, <1>5, <1>6
    <3> QED
      BY <1>2, <2>2, <3>1 DEF ReadEvents
  <2>3. CASE Fails(f) \/ GivesUp(f)
    BY <1>2, <1>4, <2>3 DEF Fails, GivesUp, Stops
  <2>4. CASE Insert(f) \/ (Check(f) /\ rows[flush[f].next] > 0)
    <3>1. /\ [c EXCEPT !.at = "check", !.max = c.next, !.next = c.next + 1] \in Others
          /\ [c EXCEPT !.at = "advance", !.max = c.next] \in Others
      BY <1>5, <1>6
    <3>2. Succeeds(f)
      BY <2>4 DEF Insert, Check
    <3> QED
      BY <3>1, <3>2 DEF Succeeds
  <2> QED
    BY <2>1, <2>2, <2>3, <2>4
<1> QED
  BY <1>7, Leaves DEF Others

LEMMA RaceNext == SyncInv /\ RaceInv /\ [Next]_vars => RaceInv'
<1> SUFFICES ASSUME SyncInv, RaceInv, [Next]_vars, NEW e \in Seqs, e \notin raced'
             PROVE  Single(e)'
  BY DEF RaceInv
<1>1. rows \in [Seqs -> Nat] /\ late \in [Seqs -> Nat] /\ rows[e] \in Nat /\ late[e] \in Nat
  BY DEF SyncInv, TypeOK
<1>2. raced \subseteq raced'
  BY DEF Next, Runs, Record, ReadMark, ReadEvents, Check, Insert, Advance, Fails, GivesUp,
     Killed, LateInsert, vars
<1>3. Single(e)
  BY <1>2 DEF RaceInv
<1>4. ASSUME rows'[e] = rows[e], late'[e] = late[e], Appending(e)' \subseteq Appending(e)
      PROVE  Single(e)'
  BY <1>1, <1>3, <1>4 DEF Single
<1>5. CASE Record \/ UNCHANGED vars
  BY <1>4, <1>5 DEF Record, vars, Appending
<1>6. ASSUME NEW f \in Flushes, ReadMark(f) \/ ReadEvents(f) \/ Advance(f) \/ Fails(f)
      PROVE  Single(e)'
  <2>1. UNCHANGED <<rows, late>>
    BY <1>6 DEF ReadMark, ReadEvents, Advance, Fails
  <2>2. Appending(e)' = Appending(e) \ {f}
    BY <1>6, LeavesBy
  <2> QED
    BY <1>4, <2>1, <2>2
<1>7. ASSUME NEW f \in Flushes, Check(f)
      PROVE  Single(e)'
  <2>1. flush[f].next \in Seqs /\ flush \in [Flushes -> Flush] /\ flush[f] \in Flush
    BY <1>7, NextIsEvent DEF Check, SyncInv, TypeOK
  <2>2. UNCHANGED <<rows, late>>
    BY <1>7 DEF Check
  <2>3. CASE rows[flush[f].next] > 0
    BY <1>4, <1>7, <2>2, <2>3, LeavesBy
  <2>4. CASE ~(rows[flush[f].next] > 0)
    <3>1. flush' = [flush EXCEPT ![f].at = "insert"]
      BY <1>7, <2>4 DEF Check, Moves
    <3>2. flush'[f].at = "insert" /\ flush'[f].next = flush[f].next
          /\ \A g \in Flushes : g # f => flush'[g] = flush[g]
      BY <2>1, <3>1 DEF Flush
    <3>3. CASE flush[f].next # e
      BY <1>4, <2>2, <3>2, <3>3 DEF Appending
    <3>4. CASE flush[f].next = e
      <4>1. ~(late[e] > 0) /\ Appending(e) = {}
        BY <1>7, <2>4, <3>4 DEF Check, Appending
      <4>2. Appending(e)' = {f}
        BY <3>2, <3>4, <4>1 DEF Appending
      <4>3. rows[e] = 0 /\ late[e] = 0
        BY <1>1, <2>4, <3>4, <4>1
      <4> QED
        BY <2>2, <4>2, <4>3 DEF Single
    <3> QED
      BY <3>3, <3>4
  <2> QED
    BY <2>3, <2>4
<1>8. ASSUME NEW f \in Flushes, Insert(f)
      PROVE  Single(e)'
  <2>1. flush[f].at = "insert" /\ flush[f].next \in Seqs /\ late' = late
        /\ rows' = [rows EXCEPT ![flush[f].next] = @ + 1]
    BY <1>8, NextIsEvent DEF Insert
  <2>2. Appending(e)' = Appending(e) \ {f}
    BY <1>8, LeavesBy
  <2>3. CASE flush[f].next # e
    BY <1>1, <1>4, <2>1, <2>2, <2>3
  <2>4. CASE flush[f].next = e
    <3>1. f \in Appending(e)
      BY <2>1, <2>4 DEF Appending
    <3>2. rows[e] = 0 /\ late[e] = 0
      BY <1>1, <1>3, <3>1 DEF Single
    <3>3. Appending(e)' = {}
      BY <1>3, <2>2, <3>1 DEF Single
    <3> QED
      BY <1>1, <2>1, <2>4, <3>2, <3>3 DEF Single
  <2> QED
    BY <2>3, <2>4
<1>9. ASSUME NEW f \in Flushes, GivesUp(f) \/ Killed(f)
      PROVE  Single(e)'
  <2>1. Appending(e)' = Appending(e) \ {f} /\ rows' = rows
    BY <1>9, LeavesBy DEF GivesUp, Killed
  <2>2. CASE late'[e] = late[e]
    BY <1>4, <2>1, <2>2
  <2>3. CASE late'[e] # late[e]
    <3>1. flush[f].at = "insert" /\ flush[f].next = e /\ late'[e] = late[e] + 1
      BY <1>1, <1>9, <2>3 DEF GivesUp, Killed
    <3>2. f \in Appending(e)
      BY <3>1 DEF Appending
    <3>3. rows[e] = 0 /\ late[e] = 0
      BY <1>1, <1>3, <3>2 DEF Single
    <3>4. Appending(e)' = {}
      BY <1>3, <2>1, <3>2 DEF Single
    <3> QED
      BY <2>1, <3>1, <3>3, <3>4 DEF Single
  <2> QED
    BY <2>2, <2>3
<1>10. ASSUME NEW d \in Seqs, LateInsert(d)
       PROVE  Single(e)'
  <2>1. Appending(e)' = Appending(e) /\ late[d] > 0 /\ late' = [late EXCEPT ![d] = @ - 1]
        /\ rows' \in {rows, [rows EXCEPT ![d] = @ + 1]}
    BY <1>10 DEF LateInsert, Appending
  <2>2. CASE d # e
    BY <1>1, <1>4, <2>1, <2>2
  <2>3. CASE d = e
    <3>1. late[e] = 1 /\ Appending(e) = {} /\ rows[e] = 0
      BY <1>1, <1>3, <2>1, <2>3 DEF Single
    <3>2. late'[e] = 0 /\ rows'[e] \in {0, 1}
      BY <1>1, <2>1, <2>3, <3>1
    <3> QED
      BY <2>1, <3>1, <3>2 DEF Single
  <2> QED
    BY <2>2, <2>3
<1> QED
  BY <1>5, <1>6, <1>7, <1>8, <1>9, <1>10 DEF Next, Runs

\* After a kill, a lost answer or a lowered mark the check in invokeLedgerAppend
\* recognises a replay: an event is on the ledger twice only if one insert of it began
\* while another was under way.
THEOREM ReplaysRecognised == Spec => []OnceUnlessRaced
<1>1. Init => SyncInv /\ RaceInv
  BY SyncInit DEF Init, RaceInv, Single, Appending, Idle
<1>2. SyncInv /\ RaceInv /\ [Next]_vars => SyncInv' /\ RaceInv'
  BY SyncNext, RaceNext
<1>3. SyncInv /\ RaceInv => OnceUnlessRaced
  BY DEF SyncInv, TypeOK, RaceInv, Single, OnceUnlessRaced
<1> QED
  BY <1>1, <1>2, <1>3, PTL DEF Spec

-----------------------------------------------------------------------------
(* The inbox.                                                              *)

\* The row is on the ledger, or excused.
Settled(s) == ledger[s] > 0 \/ s \in excused

\* What the phase of a flush c says of its fields.
RunFits(c) ==
    /\ c.last <= count /\ c.todo \cup c.sent \subseteq 1..count
    /\ c.at \in {"idle", "open"} => c.todo = {} /\ c.sent = {}
    /\ c.at = "marked" => c.sent = {}
    /\ c.at = "clean" => c.end
    /\ \A s \in c.todo : s > c.last

\* What a flush knows of the rows: those below the mark it read are settled, and later on all
\* that it does not have to send itself, except rows staged after it read the inbox.  A flush
\* that ends in a cleanup has no such rows: they are excused when they are staged.
Covers(c) ==
    /\ c.at = "marked" => \A s \in 1..count : s <= c.last => Settled(s)
    /\ c.at = "send" => \A s \in 1..count :
          s \in c.todo \/ Settled(s) \/ (~ c.end /\ \A t \in c.todo \cup c.sent : t < s)
    /\ c.at = "clean" => \A s \in 1..count : Settled(s)

\* A row that a flush will send although it is on the ledger is known to be repeated.
Warned(c) ==
    /\ c.at = "marked" => \A s \in inbox : s > c.last /\ ledger[s] > 0 => s \in again
    /\ c.at = "send" => \A s \in c.todo : ledger[s] > 0 => s \in again

\* Rows on the ledger that a later flush would find: their flush has not raised the mark yet,
\* or did not come to that.
Unmarked ==
    \A s \in inbox : s > inboxMark /\ ledger[s] > 0 =>
        s \in again \/ \E r \in ReviewRuns : s \in run[r].sent

FlushInv ==
    /\ I!TypeOK
    /\ inbox \subseteq 1..count /\ inboxMark <= count
    /\ \A s \in I!Seqs : s > count => ledger[s] = 0
    /\ \A r \in ReviewRuns : RunFits(run[r]) /\ Covers(run[r]) /\ Warned(run[r])
    /\ Unmarked
    /\ I!FlushFaithful

-----------------------------------------------------------------------------
(* The first and the largest of some rows.                                 *)

\* A nonempty set of naturals has a least member.
LEMMA LeastExists ==
    ASSUME NEW S \in SUBSET Nat, S # {}
    PROVE  \E i \in S : \A j \in S : i <= j
<1>1. PICK m \in S : \A k \in S : ~(<<k, m>> \in OpToRel(<, Nat))
  BY NatLessThanWellFounded, WFMin
<1>2. \A k \in S : m <= k
  <2> SUFFICES ASSUME NEW k \in S PROVE m <= k
    OBVIOUS
  <2>1. <<k, m>> \in Nat \X Nat
    OBVIOUS
  <2>2. ~(k < m)
    BY <1>1, <2>1 DEF OpToRel
  <2> QED
    BY <2>2
<1> QED
  BY <1>2

LEMMA FirstIs ==
    ASSUME NEW S \in SUBSET Nat, S # {}
    PROVE  I!First(S) \in S
  BY LeastExists DEF I!First

LEMMA LargestIs ==
    ASSUME NEW n \in Nat, NEW S \in SUBSET (0..n), S # {}
    PROVE  I!Largest(S) \in S /\ \A s \in S : s <= I!Largest(S)
<1> DEFINE T == {n - i : i \in S}
<1>1. T \in SUBSET Nat /\ T # {}
  <2>1. \A i \in S : n - i \in Nat
    OBVIOUS
  <2> QED
    BY <2>1
<1>2. PICK m \in T : \A k \in T : m <= k
  <2> HIDE DEF T
  <2> QED
    BY <1>1, LeastExists
<1>3. PICK i \in S : m = n - i
  OBVIOUS
<1>4. \A j \in S : j <= i
  <2> SUFFICES ASSUME NEW j \in S PROVE j <= i
    OBVIOUS
  <2>1. n - i <= n - j
    BY <1>2, <1>3
  <2>2. i \in Nat /\ j \in Nat
    OBVIOUS
  <2> QED
    BY <2>1, <2>2
<1> QED
  BY <1>4 DEF I!Largest

-----------------------------------------------------------------------------
(* The steps that only move a run on.                                      *)

\* What holds of the other runs holds on when no row is staged or removed, the ledger and what
\* is excused and repeated only grow, and no row is sent.
LEMMA OthersKeep ==
    ASSUME FlushInv, NEW r \in ReviewRuns, NEW c, run' = [run EXCEPT ![r] = c],
           count' = count, inbox' \subseteq inbox, ledger' = ledger,
           excused \subseteq excused', again \subseteq again'
    PROVE  /\ run'[r] = c
           /\ \A q \in ReviewRuns \ {r} :
                 run'[q] = run[q] /\ RunFits(run[q])' /\ Covers(run[q])' /\ Warned(run[q])'
<1>1. run'[r] = c /\ \A q \in ReviewRuns \ {r} : run'[q] = run[q]
  BY DEF FlushInv, I!TypeOK
<1>2. ASSUME NEW q \in ReviewRuns \ {r} PROVE RunFits(run[q])'
  BY <1>1, <1>2 DEF FlushInv, RunFits
<1>3. ASSUME NEW q \in ReviewRuns \ {r} PROVE Covers(run[q])'
  BY <1>1, <1>3 DEF FlushInv, Covers, Settled
<1>4. ASSUME NEW q \in ReviewRuns \ {r} PROVE Warned(run[q])'
  BY <1>1, <1>4 DEF FlushInv, Warned
<1> QED
  BY <1>1, <1>2, <1>3, <1>4

\* A run is again idle, or on its way to the cleanup with everything settled.
LEMMA ReturnKeeps ==
    ASSUME FlushInv, NEW r \in ReviewRuns, run[r].at \in {"marked", "send"},
           NEW c \in I!Run, c = I!AfterFlush(run[r]),
           run' = [run EXCEPT ![r] = c], I!TypeOK',
           count' = count, inbox' = inbox, ledger' = ledger, excused \subseteq excused',
           again \subseteq again', inboxMark' >= inboxMark, inboxMark' <= count,
           \A s \in run[r].sent : s <= inboxMark' \/ s \in again',
           \A s \in 1..count : s <= inboxMark' => Settled(s)',
           run[r].end => \A s \in 1..count : Settled(s)'
    PROVE  FlushInv'
<1>1. /\ run'[r] = c
      /\ \A q \in ReviewRuns \ {r} :
            run'[q] = run[q] /\ RunFits(run[q])' /\ Covers(run[q])' /\ Warned(run[q])'
  BY OthersKeep
<1>2. /\ run[r].end => c = [run[r] EXCEPT !.at = "clean", !.todo = {}]
      /\ ~ run[r].end => c = I!Idle
      /\ run[r] \in I!Run
  BY DEF I!AfterFlush, FlushInv, I!TypeOK
<1>3. RunFits(run[r])' /\ Covers(run[r])' /\ Warned(run[r])'
  <2>1. CASE run[r].end
    <3>1. /\ c.at = "clean" /\ c.end /\ c.todo = {}
          /\ c.sent = run[r].sent /\ c.last = run[r].last
      BY <1>2, <2>1 DEF I!Run
    <3> QED
      BY <1>1, <2>1, <3>1 DEF FlushInv, RunFits, Covers, Warned
  <2>2. CASE ~ run[r].end
    <3>1. c.at = "idle" /\ c.todo = {} /\ c.sent = {} /\ c.last = 0
      BY <1>2, <2>2 DEF I!Idle
    <3>2. count >= 0
      BY DEF FlushInv, I!TypeOK
    <3> QED
      BY <1>1, <3>1, <3>2 DEF RunFits, Covers, Warned
  <2> QED
    BY <2>1, <2>2
<1>4. Unmarked'
  BY <1>1 DEF FlushInv, Unmarked, I!AfterFlush, I!Idle, I!TypeOK, I!Seqs
<1>5. I!FlushFaithful'
  BY DEF FlushInv, I!FlushFaithful, I!NoneForgotten, I!FlushedOnce, Settled
<1> QED
  BY <1>1, <1>3, <1>4, <1>5 DEF FlushInv

LEMMA AfterFlushTyped ==
    ASSUME NEW c \in I!Run, 0 \in 0..MaxRows
    PROVE  I!AfterFlush(c) \in I!Run /\ I!Idle \in I!Run
  BY DEF I!AfterFlush, I!Idle, I!Run

\* A flush sends its next row; the row lands, or its append fails and it is excused.
LEMMA SendKeeps ==
    ASSUME MaxRows \in Nat, FlushInv, NEW r \in ReviewRuns, NEW s \in I!Seqs, I!Send(r, s),
           \/ ledger' = [ledger EXCEPT ![s] = @ + 1] /\ excused' = excused
           \/ ledger' = ledger /\ excused' = excused \cup {s},
           inboxFaults' \in 0..InboxFaults, UNCHANGED <<count, inbox, inboxMark, ended>>
    PROVE  FlushInv'
<1> USE DEF I!Seqs
<1>1. run[r] \in I!Run /\ ledger \in [I!Seqs -> Nat] /\ count \in 0..MaxRows /\ run[r].at = "send"
  BY DEF FlushInv, I!TypeOK, I!Send
<1>2. s \in run[r].todo /\ s \in 1..count /\ s > run[r].last
  <2>1. run[r].todo \in SUBSET Nat /\ run[r].todo # {}
    BY <1>1 DEF I!Run, I!Send
  <2>2. s \in run[r].todo
    BY <2>1, FirstIs DEF I!Send
  <2> QED
    BY <2>2 DEF FlushInv, RunFits
<1> DEFINE c == [run[r] EXCEPT !.todo = @ \ {s}, !.sent = @ \cup {s}]
<1>3. /\ c \in I!Run /\ c.at = "send" /\ c.end = run[r].end /\ c.last = run[r].last
      /\ c.todo = run[r].todo \ {s} /\ c.sent = run[r].sent \cup {s}
  BY <1>1 DEF I!Run
<1>4. run' = [run EXCEPT ![r] = c]
  BY DEF I!Send
<1> HIDE DEF c
<1>5. run'[r] = c /\ \A q \in ReviewRuns \ {r} : run'[q] = run[q]
  BY <1>4 DEF FlushInv, I!TypeOK
<1>6. /\ again \subseteq again'
      /\ again' \subseteq again \cup {s}
      /\ \A q \in ReviewRuns \ {r} : I!Flushing(q) /\ run[q].last < s => s \in again'
  BY DEF I!Send, I!Others
<1>7. /\ ledger' \in [I!Seqs -> Nat]
      /\ \A t \in I!Seqs : ledger'[t] = ledger[t] \/ (t = s /\ ledger'[t] = ledger[t] + 1)
  <2>1. CASE ledger' = ledger
    BY <1>1, <2>1
  <2>2. CASE ledger' = [ledger EXCEPT ![s] = @ + 1]
    BY <1>1, <2>2
  <2> QED
    BY <2>1, <2>2
<1>8. /\ Settled(s)'
      /\ \A t \in 1..count : Settled(t) => Settled(t)'
  BY <1>1, <1>2, <1>7 DEF Settled
<1>9. I!TypeOK'
  BY <1>3, <1>4, <1>6, <1>7 DEF FlushInv, I!TypeOK
<1>10. ASSUME NEW q \in ReviewRuns \ {r} PROVE RunFits(run[q])' /\ Covers(run[q])' /\ Warned(run[q])'
  <2>1. RunFits(run[q])'
    BY <1>5, <1>10 DEF FlushInv, RunFits
  <2>2. Covers(run[q])'
    BY <1>5, <1>8, <1>10 DEF FlushInv, Covers
  <2>3. Warned(run[q])'
    <3>1. run[q].at \in {"marked", "send"} => I!Flushing(q)
      BY DEF I!Flushing
    <3>2. \A t \in run[q].todo : t > run[q].last /\ t \in I!Seqs
      BY <1>1, <1>10 DEF FlushInv, RunFits
    <3>3. \A t \in inbox : t \in I!Seqs
      BY DEF FlushInv, I!TypeOK
    <3>4. ASSUME NEW t \in I!Seqs, t > run[q].last, I!Flushing(q), ledger'[t] > 0,
                 ledger[t] > 0 => t \in again
          PROVE  t \in again'
      BY <1>1, <1>6, <1>7, <1>10, <3>4
    <3> QED
      BY <1>5, <1>10, <3>1, <3>2, <3>3, <3>4 DEF FlushInv, Warned
  <2> QED
    BY <2>1, <2>2, <2>3
<1>11. RunFits(run[r])'
  BY <1>1, <1>2, <1>3, <1>5 DEF FlushInv, RunFits
<1>12. Covers(run[r])'
  <2> SUFFICES ASSUME NEW t \in 1..count
               PROVE  \/ t \in c.todo \/ Settled(t)'
                      \/ ~ c.end /\ \A u \in c.todo \cup c.sent : u < t
    BY <1>3, <1>5 DEF Covers
  <2>1. \/ t \in run[r].todo \/ Settled(t)
        \/ ~ run[r].end /\ \A u \in run[r].todo \cup run[r].sent : u < t
    BY <1>1 DEF FlushInv, Covers
  <2> QED
    BY <1>2, <1>3, <1>8, <2>1
<1>13. Warned(run[r])'
  <2>1. ASSUME NEW t \in c.todo, ledger'[t] > 0 PROVE t \in again'
    <3>1. t \in run[r].todo /\ t # s /\ t \in I!Seqs
      BY <1>1, <1>3 DEF I!Run
    <3>2. ledger[t] > 0
      BY <1>7, <2>1, <3>1
    <3> QED
      BY <1>1, <1>6, <3>1, <3>2 DEF FlushInv, Warned
  <2> QED
    BY <1>3, <1>5, <2>1 DEF Warned
<1>14. Unmarked'
  BY <1>1, <1>3, <1>5, <1>6, <1>7 DEF FlushInv, Unmarked, I!TypeOK
<1>15. I!FlushFaithful'
  <2>1. ledger[s] > 0 => s \in again
    BY <1>1, <1>2 DEF FlushInv, Warned
  <2>2. I!FlushedOnce'
    BY <1>1, <1>6, <1>7, <2>1 DEF FlushInv, I!FlushFaithful, I!FlushedOnce
  <2>3. I!NoneForgotten'
    BY <1>8 DEF FlushInv, I!FlushFaithful, I!NoneForgotten, Settled
  <2> QED
    BY <2>2, <2>3 DEF I!FlushFaithful
<1>16. \A t \in I!Seqs : t > count => ledger'[t] = 0
  BY <1>1, <1>2, <1>7 DEF FlushInv
<1> QED
  BY <1>5, <1>9, <1>10, <1>11, <1>12, <1>13, <1>14, <1>15, <1>16 DEF FlushInv

LEMMA FlushNext ==
    ASSUME MaxRows \in Nat, InboxFaults \in Nat, FlushInv, [I!Next]_I!vars
    PROVE  FlushInv'
<1> USE DEF I!Seqs
<1>1. ASSUME NEW r \in ReviewRuns, I!Begin(r) PROVE FlushInv'
  <2>1. /\ run'[r] = [run[r] EXCEPT !.at = "open"]
        /\ \A q \in ReviewRuns \ {r} :
              run'[q] = run[q] /\ RunFits(run[q])' /\ Covers(run[q])' /\ Warned(run[q])'
    <3>1. run' = [run EXCEPT ![r] = [run[r] EXCEPT !.at = "open"]]
      BY <1>1 DEF I!Begin
    <3> QED
      BY <1>1, <3>1, OthersKeep DEF I!Begin
  <2>2. I!TypeOK'
    BY <1>1 DEF I!Begin, FlushInv, I!TypeOK, I!Run
  <2>3. RunFits(run[r])' /\ Covers(run[r])' /\ Warned(run[r])' /\ run'[r].sent = run[r].sent
    <3>1. run[r] \in I!Run
      BY DEF FlushInv, I!TypeOK
    <3> QED
      BY <1>1, <2>1, <3>1 DEF I!Begin, FlushInv, RunFits, Covers, Warned, I!Run
  <2> QED
    BY <1>1, <2>1, <2>2, <2>3
    DEF I!Begin, FlushInv, Unmarked, I!FlushFaithful, I!NoneForgotten, I!FlushedOnce
<1>2. ASSUME NEW r \in ReviewRuns, I!Stage(r) PROVE FlushInv'
  <2> DEFINE n == count + 1
  <2>1. count \in 0..MaxRows /\ count < MaxRows
    BY <1>2 DEF I!Stage, FlushInv, I!TypeOK
  <2>2. /\ n \in 1..MaxRows /\ \A s \in 1..n : s = n \/ s \in 1..count
        /\ \A s \in 1..count : s \in 1..n /\ s < n
    BY <2>1
  <2>3. ledger[n] = 0
    BY <2>1, <2>2 DEF FlushInv
  <2>4. /\ count' = n /\ inbox' = inbox \cup {n} /\ run' = run /\ ledger' = ledger
        /\ again' = again /\ inboxMark' = inboxMark /\ excused \subseteq excused'
        /\ I!Closing(r) => n \in excused'
    BY <1>2 DEF I!Stage
  <2>5. \A s \in I!Seqs : s > n => s > count
    BY <2>1
  <2> HIDE DEF n
  <2>6. I!TypeOK'
    BY <1>2, <2>2, <2>4 DEF I!Stage, FlushInv, I!TypeOK
  <2>7. ASSUME NEW q \in ReviewRuns PROVE RunFits(run[q])' /\ Covers(run[q])' /\ Warned(run[q])'
    <3>1. run[q] \in I!Run
      BY DEF FlushInv, I!TypeOK
    <3>2. RunFits(run[q])'
      <4>1. run[q].last <= count /\ run[q].last \in 0..MaxRows
        BY <3>1 DEF FlushInv, RunFits, I!Run
      <4>2. run[q].last <= n
        BY <2>1, <4>1 DEF n
      <4> QED
        BY <2>2, <2>4, <4>2 DEF FlushInv, RunFits
    <3>3. Covers(run[q])'
      <4>1. ASSUME I!Flushing(q), run[q].end PROVE n \in excused'
        <5>1. q \in I!Others(r)
          BY <1>2, <4>1 DEF I!Stage, I!Flushing, I!Others
        <5> QED
          BY <2>4, <4>1, <5>1 DEF I!Closing
      <4>2. \A s \in 1..count : Settled(s) => Settled(s)'
        BY <2>4 DEF Settled
      <4>4. CASE run[q].at = "marked"
        BY <2>2, <2>4, <3>1, <4>2, <4>4 DEF FlushInv, RunFits, Covers, I!Run, Settled, n
      <4>5. CASE run[q].at = "send"
        BY <2>2, <2>4, <3>1, <4>1, <4>2, <4>5 DEF FlushInv, RunFits, Covers, I!Flushing, Settled
      <4>6. CASE run[q].at = "clean"
        BY <2>2, <2>4, <3>1, <4>1, <4>2, <4>6 DEF FlushInv, RunFits, Covers, I!Flushing, Settled
      <4> QED
        BY <2>4, <4>4, <4>5, <4>6 DEF Covers
    <3>4. Warned(run[q])'
      BY <2>3, <2>4 DEF FlushInv, Warned
    <3> QED
      BY <3>2, <3>3, <3>4
  <2>8. Unmarked'
    BY <2>3, <2>4 DEF FlushInv, Unmarked
  <2>9. I!FlushFaithful'
    <3>1. ASSUME NEW s \in 1..n, s \notin inbox' \/ s <= inboxMark
          PROVE  ledger[s] > 0 \/ s \in excused'
      <4>1. s # n
        BY <2>1, <2>4, <3>1 DEF FlushInv, I!TypeOK, n
      <4> QED
        BY <2>2, <2>4, <3>1, <4>1 DEF FlushInv, I!FlushFaithful, I!NoneForgotten
    <3> QED
      BY <2>4, <3>1 DEF FlushInv, I!FlushFaithful, I!NoneForgotten, I!FlushedOnce
  <2>10. inbox' \subseteq 1..n /\ inboxMark <= n
    BY <2>1, <2>2, <2>4 DEF FlushInv, I!TypeOK, n
  <2> QED
    BY <2>4, <2>5, <2>6, <2>7, <2>8, <2>9, <2>10 DEF FlushInv
<1>3. ASSUME NEW r \in ReviewRuns, I!End(r) PROVE FlushInv'
  BY <1>3 DEF I!End, FlushInv, I!TypeOK, RunFits, Covers, Warned, Settled, Unmarked, I!FlushFaithful,
             I!NoneForgotten, I!FlushedOnce
<1>4. ASSUME NEW r \in ReviewRuns, I!Abandon(r) PROVE FlushInv'
  <2>1. /\ run'[r] = I!Idle
        /\ \A q \in ReviewRuns \ {r} :
              run'[q] = run[q] /\ RunFits(run[q])' /\ Covers(run[q])' /\ Warned(run[q])'
    BY <1>4, OthersKeep DEF I!Abandon
  <2>2. I!TypeOK'
    BY <1>4 DEF I!Abandon, FlushInv, I!TypeOK, I!Run, I!Idle
  <2>3. RunFits(run[r])' /\ Covers(run[r])' /\ Warned(run[r])' /\ run[r].sent = {}
    BY <1>4, <2>1, <2>2 DEF I!Abandon, FlushInv, I!TypeOK, RunFits, Covers, Warned, I!Idle
  <2> QED
    BY <1>4, <2>1, <2>2, <2>3
    DEF I!Abandon, FlushInv, Unmarked, I!FlushFaithful, I!NoneForgotten, I!FlushedOnce
<1>5. ASSUME NEW r \in ReviewRuns, I!ReadMark(r) PROVE FlushInv'
  <2>1. PICK end \in {FALSE, ended} :
          run' = [run EXCEPT ![r] = [I!Idle EXCEPT !.at = "marked", !.end = end, !.last = inboxMark]]
    BY <1>5 DEF I!ReadMark
  <2> DEFINE c == [I!Idle EXCEPT !.at = "marked", !.end = end, !.last = inboxMark]
  <2>2. /\ c.at = "marked" /\ c.last = inboxMark /\ c.todo = {} /\ c.sent = {} /\ c \in I!Run
    BY DEF I!Idle, I!Run, FlushInv, I!TypeOK
  <2> HIDE DEF c
  <2>3. /\ run'[r] = c
        /\ \A q \in ReviewRuns \ {r} :
              run'[q] = run[q] /\ RunFits(run[q])' /\ Covers(run[q])' /\ Warned(run[q])'
    <3>1. run' = [run EXCEPT ![r] = c]
      BY <2>1 DEF c
    <3> QED
      BY <1>5, <3>1, OthersKeep DEF I!ReadMark
  <2>4. I!TypeOK'
    <3>1. run' \in [ReviewRuns -> I!Run]
      BY <2>1, <2>2 DEF c, FlushInv, I!TypeOK
    <3>2. \A q \in ReviewRuns : run[q].sent \subseteq I!Seqs
      BY DEF FlushInv, I!TypeOK, I!Run
    <3>3. again' \subseteq I!Seqs
      BY <1>5, <3>2 DEF I!ReadMark, I!Others, FlushInv, I!TypeOK
    <3> QED
      BY <1>5, <3>1, <3>3 DEF I!ReadMark, FlushInv, I!TypeOK
  <2>5. run[r].sent = {}
    BY <1>5 DEF I!ReadMark, FlushInv, RunFits
  <2>6. \A s \in inbox : s > inboxMark /\ ledger[s] > 0 => s \in again'
    BY <1>5, <2>5 DEF I!ReadMark, FlushInv, Unmarked, I!Others
  <2>7. RunFits(run[r])' /\ Covers(run[r])' /\ Warned(run[r])'
    BY <1>5, <2>2, <2>3, <2>6
    DEF I!ReadMark, FlushInv, RunFits, Covers, Warned, Settled, I!FlushFaithful, I!NoneForgotten
  <2>8. Unmarked'
    BY <1>5, <2>6 DEF I!ReadMark, Unmarked
  <2>9. I!FlushFaithful'
    BY <1>5 DEF I!ReadMark, FlushInv, I!FlushFaithful, I!NoneForgotten, I!FlushedOnce
  <2> QED
    BY <1>5, <2>3, <2>4, <2>7, <2>8, <2>9 DEF I!ReadMark, FlushInv
<1>6. ASSUME NEW r \in ReviewRuns, I!ReadAll(r) PROVE FlushInv'
  <2>1. run[r] \in I!Run /\ run \in [ReviewRuns -> I!Run] /\ I!Idle \in I!Run /\ I!AfterFlush(run[r]) \in I!Run
    BY AfterFlushTyped DEF FlushInv, I!TypeOK
  <2>2. /\ run[r].at = "marked" /\ run[r].sent = {} /\ inbox \subseteq 1..count
        /\ \A s \in 1..count : s \notin I!Unflushed(r) => Settled(s)
    <3>1. run[r].last \in Nat /\ run[r].at = "marked"
      BY <1>6, <2>1 DEF I!ReadAll, I!Run
    <3>2. \A s \in 1..count : (s \notin inbox \/ s <= run[r].last) => Settled(s)
      BY <3>1 DEF FlushInv, Covers, I!FlushFaithful, I!NoneForgotten, Settled
    <3> QED
      BY <3>1, <3>2 DEF FlushInv, RunFits, I!Unflushed
  <2>3. CASE I!Unflushed(r) = {}
    <3> DEFINE c == I!AfterFlush(run[r])
    <3>1. run' = [run EXCEPT ![r] = c]
      BY <1>6, <2>3 DEF I!ReadAll
    <3>2. I!TypeOK'
      BY <1>6, <2>1, <3>1 DEF I!ReadAll, FlushInv, I!TypeOK
    <3>3. \A s \in 1..count : Settled(s)'
      BY <1>6, <2>2, <2>3 DEF I!ReadAll, Settled
    <3>4. inboxMark' = inboxMark /\ inboxMark <= count /\ inboxMark >= inboxMark
      BY <1>6 DEF I!ReadAll, FlushInv, I!TypeOK
    <3> QED
      BY <1>6, <2>1, <2>2, <3>1, <3>2, <3>3, <3>4, ReturnKeeps DEF I!ReadAll
  <2>4. CASE I!Unflushed(r) # {}
    <3> DEFINE c == [run[r] EXCEPT !.at = "send", !.todo = I!Unflushed(r)]
    <3>1. run' = [run EXCEPT ![r] = c]
      BY <1>6, <2>4 DEF I!ReadAll
    <3>2. /\ c.at = "send" /\ c.todo = I!Unflushed(r) /\ c.sent = {}
          /\ c.last = run[r].last /\ c.end = run[r].end /\ c \in I!Run
      BY <2>1, <2>2 DEF I!Run, I!Unflushed, FlushInv, I!TypeOK
    <3> HIDE DEF c
    <3>3. I!TypeOK'
      BY <1>6, <2>1, <3>1, <3>2 DEF I!ReadAll, FlushInv, I!TypeOK
    <3>4. /\ run'[r] = c
          /\ \A q \in ReviewRuns \ {r} :
                run'[q] = run[q] /\ RunFits(run[q])' /\ Covers(run[q])' /\ Warned(run[q])'
      BY <1>6, <3>1, OthersKeep DEF I!ReadAll
    <3>5. RunFits(run[r])'
      BY <1>6, <2>2, <3>2, <3>4 DEF I!ReadAll, FlushInv, RunFits, I!Unflushed
    <3>6. Covers(run[r])'
      BY <1>6, <2>2, <3>2, <3>4 DEF I!ReadAll, Covers, Settled
    <3>7. Warned(run[r])'
      BY <1>6, <2>2, <3>2, <3>4 DEF I!ReadAll, FlushInv, Warned, I!Unflushed
    <3>8. Unmarked'
      BY <1>6, <2>2, <3>4 DEF I!ReadAll, FlushInv, Unmarked
    <3>9. I!FlushFaithful'
      BY <1>6 DEF I!ReadAll, FlushInv, I!FlushFaithful, I!NoneForgotten, I!FlushedOnce
    <3> QED
      BY <1>6, <3>3, <3>4, <3>5, <3>6, <3>7, <3>8, <3>9 DEF I!ReadAll, FlushInv
  <2> QED
    BY <2>3, <2>4
<1>7. ASSUME NEW r \in ReviewRuns, I!ReadFails(r) PROVE FlushInv'
  <2>1. run[r] \in I!Run /\ run \in [ReviewRuns -> I!Run] /\ I!Idle \in I!Run /\ I!AfterFlush(run[r]) \in I!Run
    BY AfterFlushTyped DEF FlushInv, I!TypeOK
  <2>2. run[r].at = "marked" /\ run[r].sent = {} /\ \A s \in 1..count : Settled(s)'
    BY <1>7 DEF I!ReadFails, FlushInv, RunFits, I!FlushFaithful, I!NoneForgotten, Settled
  <2>3. run' = [run EXCEPT ![r] = I!AfterFlush(run[r])]
    BY <1>7 DEF I!ReadFails
  <2>4. inboxFaults' \in 0..InboxFaults
    BY <1>7 DEF I!ReadFails, FlushInv, I!TypeOK
  <2>5. I!TypeOK'
    BY <1>7, <2>1, <2>3, <2>4 DEF I!ReadFails, FlushInv, I!TypeOK
  <2>6. inboxMark' = inboxMark /\ inboxMark <= count /\ inboxMark >= inboxMark
    BY <1>7 DEF I!ReadFails, FlushInv, I!TypeOK
  <2> QED
    BY <1>7, <2>1, <2>2, <2>3, <2>5, <2>6, ReturnKeeps DEF I!ReadFails
<1>8. ASSUME NEW r \in ReviewRuns, NEW s \in I!Seqs, I!SendOk(r, s) PROVE FlushInv'
  <2>1. ledger' = [ledger EXCEPT ![s] = @ + 1] /\ excused' = excused
    BY <1>8 DEF I!SendOk
  <2>2. ledger'[s] > 0 /\ inboxFaults' = inboxFaults
    BY <1>8, <2>1 DEF I!SendOk, FlushInv, I!TypeOK
  <2> QED
    BY <1>8, <2>1, <2>2, SendKeeps DEF I!SendOk, FlushInv, I!TypeOK
<1>9. ASSUME NEW r \in ReviewRuns, NEW s \in I!Seqs, I!SendFails(r, s) PROVE FlushInv'
  <2>1. inboxFaults' \in 0..InboxFaults
    BY <1>9 DEF I!SendFails, FlushInv, I!TypeOK
  <2> QED
    BY <1>9, <2>1, SendKeeps DEF I!SendFails, FlushInv, I!TypeOK
<1>10. ASSUME NEW r \in ReviewRuns, I!Advance(r) PROVE FlushInv'
  <2>1. run[r] \in I!Run /\ run \in [ReviewRuns -> I!Run] /\ I!Idle \in I!Run /\ I!AfterFlush(run[r]) \in I!Run
    BY AfterFlushTyped DEF FlushInv, I!TypeOK
  <2> DEFINE S == {inboxMark} \cup run[r].sent
  <2>2. S \subseteq 0..count /\ S # {} /\ count \in Nat /\ run[r].sent \subseteq 1..count
    BY DEF FlushInv, RunFits, I!TypeOK
  <2>3. inboxMark' \in S /\ \A s \in S : s <= inboxMark'
    <3>1. inboxMark' = I!Largest(S)
      BY <1>10 DEF I!Advance
    <3> HIDE DEF S
    <3> QED
      BY <2>2, <3>1, LargestIs
  <2>4. inboxMark' \in 0..MaxRows /\ inboxMark' <= count /\ inboxMark' >= inboxMark /\ inboxMark' \in 0..count
    BY <2>2, <2>3 DEF FlushInv, I!TypeOK
  <2>5. run' = [run EXCEPT ![r] = I!AfterFlush(run[r])]
    BY <1>10 DEF I!Advance
  <2>6. I!TypeOK'
    BY <1>10, <2>1, <2>4, <2>5 DEF I!Advance, FlushInv, I!TypeOK
  <2>7. \A s \in 1..count : Settled(s) \/ (~ run[r].end /\ \A t \in run[r].sent : t < s)
    BY <1>10 DEF I!Advance, FlushInv, Covers
  <2>8. \A s \in 1..count : s <= inboxMark' => Settled(s)
    <3> SUFFICES ASSUME NEW s \in 1..count, s <= inboxMark', ~ Settled(s) PROVE FALSE
      OBVIOUS
    <3>1. s > inboxMark
      BY DEF FlushInv, I!TypeOK, I!FlushFaithful, I!NoneForgotten, Settled
    <3>2. inboxMark' \in run[r].sent
      BY <2>3, <2>4, <3>1 DEF FlushInv, I!TypeOK
    <3>3. inboxMark' < s
      BY <2>7, <3>2
    <3> QED
      BY <2>4, <3>3
  <2>9. \A s \in 1..count : Settled(s) => Settled(s)'
    BY <1>10 DEF I!Advance, Settled
  <2> QED
    BY <1>10, <2>1, <2>3, <2>4, <2>5, <2>6, <2>7, <2>8, <2>9, ReturnKeeps DEF I!Advance
<1>11. ASSUME NEW r \in ReviewRuns, I!AdvanceFails(r) PROVE FlushInv'
  <2>1. run[r] \in I!Run /\ run \in [ReviewRuns -> I!Run] /\ I!Idle \in I!Run /\ I!AfterFlush(run[r]) \in I!Run
    BY AfterFlushTyped DEF FlushInv, I!TypeOK
  <2>2. run' = [run EXCEPT ![r] = I!AfterFlush(run[r])]
    BY <1>11 DEF I!AdvanceFails
  <2>3. inboxFaults' \in 0..InboxFaults /\ again' \subseteq I!Seqs
    <3>1. inboxFaults' \in 0..InboxFaults
      BY <1>11 DEF I!AdvanceFails, FlushInv, I!TypeOK
    <3>2. run[r].sent \subseteq I!Seqs
      BY <2>1 DEF I!Run
    <3> QED
      BY <1>11, <3>1, <3>2 DEF I!AdvanceFails, FlushInv, I!TypeOK
  <2>4. I!TypeOK'
    BY <1>11, <2>1, <2>2, <2>3 DEF I!AdvanceFails, FlushInv, I!TypeOK
  <2>5. inboxMark' = inboxMark /\ inboxMark <= count /\ inboxMark >= inboxMark
    BY <1>11 DEF I!AdvanceFails, FlushInv, I!TypeOK
  <2>6. \A s \in 1..count : Settled(s) <=> Settled(s)'
    BY <1>11 DEF I!AdvanceFails, Settled
  <2>7. /\ run[r].end => \A s \in 1..count : Settled(s)
        /\ \A s \in 1..count : s <= inboxMark => Settled(s)
    BY <1>11 DEF I!AdvanceFails, FlushInv, Covers, I!FlushFaithful, I!NoneForgotten, Settled
  <2> QED
    BY <1>11, <2>1, <2>2, <2>4, <2>5, <2>6, <2>7, ReturnKeeps DEF I!AdvanceFails
<1>12. ASSUME NEW r \in ReviewRuns, I!Dies(r) PROVE FlushInv'
  <2>1. /\ run'[r] = I!Idle
        /\ \A q \in ReviewRuns \ {r} :
              run'[q] = run[q] /\ RunFits(run[q])' /\ Covers(run[q])' /\ Warned(run[q])'
    BY <1>12, OthersKeep DEF I!Dies
  <2>2. I!TypeOK'
    <3>1. inboxFaults' \in 0..InboxFaults /\ I!Idle \in I!Run
      <4>1. inboxFaults' \in 0..InboxFaults
        BY <1>12 DEF I!Dies, FlushInv, I!TypeOK
      <4>2. I!Idle \in I!Run
        BY DEF I!Idle, I!Run
      <4> QED
        BY <4>1, <4>2
    <3>2. run[r].sent \subseteq I!Seqs
      BY DEF FlushInv, I!TypeOK, I!Run
    <3>3. run' \in [ReviewRuns -> I!Run]
      BY <1>12, <3>1 DEF I!Dies, FlushInv, I!TypeOK
    <3> QED
      BY <1>12, <3>1, <3>2, <3>3 DEF I!Dies, FlushInv, I!TypeOK
  <2>3. RunFits(run[r])' /\ Covers(run[r])' /\ Warned(run[r])'
    BY <1>12, <2>1 DEF I!Dies, FlushInv, I!TypeOK, RunFits, Covers, Warned, I!Idle
  <2>4. Unmarked'
    BY <1>12, <2>1 DEF I!Dies, FlushInv, Unmarked
  <2> QED
    BY <1>12, <2>1, <2>2, <2>3, <2>4 DEF I!Dies, FlushInv, I!FlushFaithful, I!NoneForgotten, I!FlushedOnce
<1>13. ASSUME NEW r \in ReviewRuns, I!Cleanup(r) PROVE FlushInv'
  <2>1. /\ run'[r] = I!Idle
        /\ \A q \in ReviewRuns \ {r} :
              run'[q] = run[q] /\ RunFits(run[q])' /\ Covers(run[q])' /\ Warned(run[q])'
    BY <1>13, OthersKeep DEF I!Cleanup
  <2>2. I!TypeOK'
    BY <1>13 DEF I!Cleanup, FlushInv, I!TypeOK, I!Run, I!Idle
  <2>3. RunFits(run[r])' /\ Covers(run[r])' /\ Warned(run[r])'
    BY <1>13, <2>1 DEF I!Cleanup, FlushInv, I!TypeOK, RunFits, Covers, Warned, I!Idle
  <2>4. \A s \in 1..count : Settled(s)
    BY <1>13 DEF I!Cleanup, FlushInv, Covers
  <2>5. I!FlushFaithful'
    BY <1>13, <2>4 DEF I!Cleanup, FlushInv, I!FlushFaithful, I!NoneForgotten, I!FlushedOnce, Settled
  <2>6. 0 <= count
    BY DEF FlushInv, I!TypeOK
  <2> QED
    BY <1>13, <2>1, <2>2, <2>3, <2>5, <2>6 DEF I!Cleanup, FlushInv, Unmarked
<1>14. ASSUME UNCHANGED I!vars PROVE FlushInv'
  BY <1>14 DEF I!vars, FlushInv, I!TypeOK, RunFits, Covers, Warned, Settled, Unmarked, I!FlushFaithful,
               I!NoneForgotten, I!FlushedOnce
<1> QED
  BY <1>1, <1>2, <1>3, <1>4, <1>5, <1>6, <1>7, <1>8, <1>9, <1>10, <1>11, <1>12, <1>13, <1>14
  DEF I!Next

LEMMA FlushInit == MaxRows \in Nat /\ InboxFaults \in Nat /\ I!Init => FlushInv
<1> SUFFICES ASSUME MaxRows \in Nat, InboxFaults \in Nat, I!Init PROVE FlushInv
  OBVIOUS
<1>1. I!Idle \in I!Run
  BY DEF I!Idle, I!Run
<1>2. I!TypeOK
  <2>1. 0 \in 0..MaxRows /\ 0 \in 0..InboxFaults
    OBVIOUS
  <2> QED
    BY <1>1, <2>1 DEF I!Init, I!TypeOK
<1>3. \A r \in ReviewRuns : RunFits(run[r]) /\ Covers(run[r]) /\ Warned(run[r])
  BY DEF I!Init, I!Idle, RunFits, Covers, Warned
<1> QED
  BY <1>2, <1>3 DEF I!Init, FlushInv, Unmarked, I!FlushFaithful, I!NoneForgotten, I!FlushedOnce

LEMMA FlushesAreTyped == MaxRows \in Nat /\ InboxFaults \in Nat => (I!Spec => []I!TypeOK)
<1> SUFFICES ASSUME MaxRows \in Nat, InboxFaults \in Nat PROVE I!Spec => []I!TypeOK
  OBVIOUS
<1>1. I!Init => FlushInv
  BY FlushInit
<1>2. FlushInv /\ [I!Next]_I!vars => FlushInv'
  BY FlushNext
<1>3. FlushInv => I!TypeOK
  BY DEF FlushInv
<1> QED
  BY <1>1, <1>2, <1>3, PTL DEF I!Spec

\* However many runs of one operator stage, flush, clean up, fail and are killed over each other,
\* a signal that the mark has passed or the cleanup deleted is on the ledger, but for the
\* accidents that excuse it; and one is there twice only if flushes overlapped or one did not
\* come to raise the mark.
THEOREM FlushesAreFaithful == MaxRows \in Nat /\ InboxFaults \in Nat => (I!Spec => []FlushFaithful)
<1> SUFFICES ASSUME MaxRows \in Nat, InboxFaults \in Nat PROVE I!Spec => []FlushFaithful
  OBVIOUS
<1>1. I!Init => FlushInv
  BY FlushInit
<1>2. FlushInv /\ [I!Next]_I!vars => FlushInv'
  BY FlushNext
<1>3. FlushInv => FlushFaithful
  BY DEF FlushInv, FlushFaithful
<1> QED
  BY <1>1, <1>2, <1>3, PTL DEF I!Spec

-----------------------------------------------------------------------------
(* The sync of a skill or a workflow.                                      *)

\* The bodies are none of the marks.
SyncBounds == "none" \notin Bodies /\ "torn" \notin Bodies /\ MaxChanges \in Nat

UnderWay == {"system", "project", "library", "read", "apply", "write"}

\* The scopes a sync has listed.
Past(y) ==
    {c \in K!Scopes :
        /\ y.at \in UnderWay \ {"system"}
        /\ c = "project" => y.bound /\ y.at # "project"
        /\ c = "library" => kind = "skill" /\ y.at \notin {"project", "library"}}

\* A row was what another is now: versions go up, and a version has one body.
Older(r, now) == r.version <= now.version /\ (r.version = now.version => r.body = now.body)

\* What a sync has been told of the rows.
Asks(y) ==
    /\ y.owned \subseteq K!Owned(K!Shown)
    /\ \A c \in y.owned \cap Past(y) : K!Kept(y.listed[c].body)
    /\ \A c \in K!Scopes : Older(y.listed[c], row[c])
    /\ y.calm => \A c \in K!Scopes : y.listed[c] = IF c \in Past(y) THEN K!Shown[c] ELSE K!NoRow
    /\ y.at = "write" => K!Chosen(y) # {}
    /\ y.at = "project" => y.bound
    /\ y.at = "library" => kind = "skill"

\* What it knows of the file: nobody but the operator put his work there, and he did so before
\* it looked.
Looks(y) ==
    /\ y.calm => y.read = copyFile
    /\ K!OperatorsWork(copyFile) /\ ~ y.touched =>
          IF y.at = "apply" THEN y.read = copyFile ELSE copyFile.body \in backups

\* A file that a sync of all scopes may leave.
LeftBy(force) ==
    \/ \E c \in K!Owned(K!Shown) : /\ copyFile = K!Materialised(c, row[c])
                               /\ \A d \in K!Owned(K!Shown) : K!Rank[d] <= K!Rank[c]
    \/ copyFile # K!Absent /\ ~ K!Stamped(copyFile) /\ (force => K!Owned(K!Shown) = {})
    \/ K!Edited(copyFile) /\ (force => K!Owned(K!Shown) = {})
    \/ K!Owned(K!Shown) = {} /\ copyFile = K!Absent

SyncKnows(y) ==
    /\ y.at \in UnderWay => Asks(y)
    /\ y.at \in {"apply", "write"} => Looks(y)
    /\ y.at = "done" /\ y.calm /\ y.scope = "" /\ y.bound => LeftBy(y.force)

\* A stamp is of a row as it is or was.
StampFits == K!Stamped(copyFile) =>
    Older([version |-> copyFile.stamp.version, body |-> copyFile.stamp.hash], row[copyFile.stamp.id])

SkillInv ==
    /\ K!TypeOK
    /\ \A c \in K!Scopes : Older(K!NoRow, row[c])
    /\ StampFits
    /\ \A s \in Syncs : SyncKnows(sync[s])

-----------------------------------------------------------------------------
\* The most specific of some scopes is one of them.
LEMMA WinsIs ==
    ASSUME NEW S, S \subseteq K!Scopes, S # {}
    PROVE  K!Wins(S) \in S /\ \A d \in S : K!Rank[d] <= K!Rank[K!Wins(S)]
<1>1. \E c \in S : \A d \in S : K!Rank[d] <= K!Rank[c]
  <2>1. CASE "project" \in S
    BY <2>1 DEF K!Scopes, K!Rank
  <2>2. CASE "project" \notin S /\ "system" \in S
    BY <2>2 DEF K!Scopes, K!Rank
  <2>3. CASE "project" \notin S /\ "system" \notin S
    <3>1. S = {"library"}
      BY <2>3 DEF K!Scopes
    <3> QED
      BY <3>1 DEF K!Rank
  <2> QED
    BY <2>1, <2>2, <2>3
<1> QED
  BY <1>1 DEF K!Wins

\* A row that owns its name by the lists is one they have.
LEMMA ListsHave ==
    ASSUME SyncBounds
    PROVE  \A c \in K!Owned(K!Shown) : c \in K!Scopes /\ c \notin beyond /\ K!Shown[c] = row[c]
<1> SUFFICES ASSUME NEW c \in K!Owned(K!Shown) PROVE c \in K!Scopes /\ c \notin beyond /\ K!Shown[c] = row[c]
  OBVIOUS
<1>1. c \in K!Scopes /\ K!Kept(K!Shown[c].body)
  BY DEF K!Owned, K!Asked
<1>2. K!Shown[c] = IF c \in beyond THEN K!NoRow ELSE row[c]
  BY <1>1 DEF K!Shown
<1>3. K!NoRow.body = "none"
  BY DEF K!NoRow
<1> QED
  BY <1>1, <1>2, <1>3 DEF SyncBounds, K!Kept

\* A sync that chose something writes a copy of a row it was told of.
LEMMA Chooses ==
    ASSUME SyncBounds, NEW y \in K!Sync, K!Chosen(y) # {}
    PROVE  /\ K!Winner(y) \in K!Chosen(y)
           /\ K!Winner(y) \in K!Scopes /\ K!Sub(y) = y.listed[K!Winner(y)]
           /\ K!Sub(y).body \in Bodies /\ K!Sub(y).version \in Nat
           /\ \A d \in K!Chosen(y) : K!Rank[d] <= K!Rank[K!Winner(y)]
<1>1. K!Chosen(y) \subseteq K!Scopes
  BY DEF K!Chosen, K!Owned, K!Shown, K!Asked
<1>2. /\ K!Winner(y) \in K!Chosen(y)
      /\ \A d \in K!Chosen(y) : K!Rank[d] <= K!Rank[K!Winner(y)]
  BY <1>1, WinsIs DEF K!Winner
<1>3. K!Kept(y.listed[K!Winner(y)].body)
  BY <1>2 DEF K!Chosen, K!Owned, K!Shown
<1>4. y.listed[K!Winner(y)] \in K!RowOf
  BY <1>1, <1>2 DEF K!Sync
<1> QED
  BY <1>1, <1>2, <1>3, <1>4 DEF K!Sub, K!Kept, K!RowOf

LEMMA Materials ==
    ASSUME SyncBounds, NEW c \in K!Scopes, NEW r \in K!RowOf, r.body \in Bodies
    PROVE  LET f == K!Materialised(c, r) IN
           /\ f \in K!File /\ f # K!Absent /\ K!Stamped(f) /\ ~ K!OperatorsWork(f)
           /\ f.stamp.id = c /\ f.stamp.version = r.version /\ f.stamp.hash = r.body
  BY DEF K!Materialised, K!File, K!Stamp, K!RowOf, K!Absent, K!Stamped, K!OperatorsWork, K!Edited, K!NoStamp, K!Scopes

\* What a sync becomes while another, a publisher or the operator does something.
Same(y, z) ==
    /\ z.at = y.at /\ z.scope = y.scope /\ z.force = y.force /\ z.bound = y.bound
    /\ z.listed = y.listed /\ z.read = y.read
    /\ z.owned \subseteq y.owned /\ (z.calm => y.calm) /\ (y.touched => z.touched)

RowsPass(z) ==
    \/ UNCHANGED <<row, beyond>>
    \/ /\ ~ z.calm
       /\ z.at \in UnderWay => z.owned \subseteq K!Owned(K!Shown)'
       /\ \A c \in K!Scopes : Older(row[c], row'[c])
FilePasses(z) ==
    \/ copyFile' = copyFile /\ backups \subseteq backups'
    \/ /\ ~ z.calm
       /\ z.at \in {"apply", "write"} => z.touched \/ ~ K!OperatorsWork(copyFile')

LEMMA OlderGoes ==
    ASSUME NEW r \in K!RowOf, NEW s \in K!RowOf, NEW t \in K!RowOf, Older(r, s), Older(s, t)
    PROVE  Older(r, t)
  BY DEF Older, K!RowOf

LEMMA AsksOn ==
    ASSUME NEW y \in K!Sync, NEW z \in K!Sync, Same(y, z), kind' = kind, row \in [K!Scopes -> K!RowOf],
           row' \in [K!Scopes -> K!RowOf], RowsPass(z), z.at \in UnderWay, Asks(y)
    PROVE  Asks(z)'
<1>0. y.listed \in [K!Scopes -> K!RowOf]
  BY DEF K!Sync
<1>1. K!Owned(K!Shown) \subseteq K!Owned(K!Shown)' \/ z.owned \subseteq K!Owned(K!Shown)'
  BY DEF RowsPass, K!Owned, K!Shown, K!Kept, K!Asked
<1>7. ASSUME UNCHANGED <<row, beyond>> PROVE K!Shown' = K!Shown
  BY <1>7 DEF K!Shown
<1>2. (z.owned \subseteq K!Owned(K!Shown))'
  BY <1>1 DEF Asks, Same
<1>3. Past(z)' = Past(y) /\ K!Chosen(z)' = K!Chosen(y)
  BY DEF Same, Past, K!Chosen, K!Owned, K!Shown, K!Kept, K!Asked
<1>4. (\A c \in z.owned \cap Past(z) : K!Kept(z.listed[c].body))'
  BY <1>3 DEF Asks, Same, K!Kept
<1>5. \A c \in K!Scopes : Older(z.listed[c], row'[c])
  <2>1. CASE row' = row
    BY <2>1 DEF Asks, Same
  <2>2. CASE \A c \in K!Scopes : Older(row[c], row'[c])
    BY <2>2, <1>0, OlderGoes DEF Asks, Same
  <2> QED
    BY <2>1, <2>2 DEF RowsPass
<1>6. z.calm => \A c \in K!Scopes : z.listed[c] = IF c \in Past(z)' THEN K!Shown'[c] ELSE K!NoRow
  BY <1>3, <1>7 DEF RowsPass, Asks, Same
<1> QED
  BY <1>2, <1>3, <1>4, <1>5, <1>6 DEF Asks, Same, Older, K!NoRow

LEMMA LooksOn ==
    ASSUME NEW y, NEW z, Same(y, z), FilePasses(z), z.at \in {"apply", "write"}, Looks(y)
    PROVE  Looks(z)'
  BY DEF Looks, FilePasses, Same, K!OperatorsWork, K!Edited, K!Stamped, K!Absent, K!Torn, K!NoStamp

LEMMA KnowsOn ==
    ASSUME NEW y \in K!Sync, NEW z \in K!Sync, Same(y, z), kind' = kind, row \in [K!Scopes -> K!RowOf],
           row' \in [K!Scopes -> K!RowOf], RowsPass(z), FilePasses(z), SyncKnows(y)
    PROVE  SyncKnows(z)'
<1>1. z.at \in UnderWay => Asks(z)'
  BY AsksOn DEF SyncKnows, Same
<1>2. z.at \in {"apply", "write"} => Looks(z)'
  BY LooksOn DEF SyncKnows, Same
<1>3. z.calm => UNCHANGED <<row, beyond, copyFile, kind>>
  BY DEF RowsPass, FilePasses
<1>4. ASSUME UNCHANGED <<row, beyond, copyFile, kind>>, NEW v PROVE LeftBy(v)' = LeftBy(v)
  BY <1>4 DEF LeftBy, K!Owned, K!Shown, K!Kept, K!Asked, K!Absent, K!Materialised, K!Rank, K!Stamped, K!Edited, K!NoStamp
<1>5. z.at = "done" /\ z.calm /\ z.scope = "" /\ z.bound => LeftBy(z.force)'
  BY <1>3, <1>4 DEF SyncKnows, Same
<1> QED
  BY <1>1, <1>2, <1>5 DEF SyncKnows

-----------------------------------------------------------------------------
\* A step of a sync: it moves and the others stay or are disturbed.
OthersStay(s) == \A t \in Syncs \ {s} : Same(sync[t], sync'[t]) /\ RowsPass(sync'[t]) /\ FilePasses(sync'[t])

LEMMA SyncStep ==
    ASSUME SkillInv, NEW s \in Syncs, K!TypeOK', UNCHANGED <<kind, row, beyond>>, OthersStay(s),
           StampFits', SyncKnows(sync[s])'
    PROVE  SkillInv'
<1>1. \A t \in Syncs \ {s} : SyncKnows(sync[t])'
  <2> SUFFICES ASSUME NEW t \in Syncs \ {s} PROVE SyncKnows(sync[t])'
    OBVIOUS
  <2>1. sync[t] \in K!Sync /\ sync'[t] \in K!Sync /\ SyncKnows(sync[t])
        /\ row \in [K!Scopes -> K!RowOf] /\ row' \in [K!Scopes -> K!RowOf]
    BY DEF SkillInv, K!TypeOK
  <2> QED
    BY <2>1, KnowsOn DEF OthersStay
<1>2. (\A t \in Syncs : SyncKnows(sync[t]))'
  BY <1>1
<1> QED
  BY <1>2 DEF SkillInv, Older, K!NoRow

\* A step that leaves the file alone.
LEMMA PlainSync ==
    ASSUME SkillInv, NEW s \in Syncs, NEW y \in K!Sync, K!Steps(s, y), UNCHANGED <<kind, row, beyond, copyFile, changes>>,
           backups \subseteq backups', backups' \subseteq Bodies \cup {"torn"}, SyncKnows(y)'
    PROVE  SkillInv'
<1>1. sync' = [sync EXCEPT ![s] = y] /\ sync \in [Syncs -> K!Sync]
  BY DEF K!Steps, SkillInv, K!TypeOK
<1>2. K!TypeOK'
  BY <1>1 DEF SkillInv, K!TypeOK
<1>3. OthersStay(s)
  BY <1>1 DEF OthersStay, Same, RowsPass, FilePasses
<1>4. sync'[s] = y
  BY <1>1
<1>5. StampFits'
  BY DEF SkillInv, StampFits, K!Stamped, K!NoStamp, Older
<1>6. SyncKnows(sync[s])'
  BY <1>4 DEF SyncKnows, Asks, Looks, Past, K!Owned, K!Shown, K!Asked, K!Chosen
<1> QED
  BY <1>2, <1>3, <1>5, <1>6, SyncStep

\* A step that writes the file or removes it.
LEMMA Disturbs ==
    ASSUME NEW x \in K!Sync, NEW z, z = [x EXCEPT !.calm = FALSE]
    PROVE  Same(x, z) /\ ~ z.calm
<1>1. z.at = x.at /\ z.scope = x.scope /\ z.force = x.force /\ z.bound = x.bound
  BY DEF K!Sync
<1>2. /\ z.listed = x.listed /\ z.read = x.read /\ z.owned = x.owned /\ z.touched = x.touched
      /\ z.calm = FALSE
  BY DEF K!Sync
<1> QED
  BY <1>1, <1>2 DEF Same

LEMMA WritingSync ==
    ASSUME SkillInv, NEW s \in Syncs, NEW y \in K!Sync, sync' = [K!Disturbed EXCEPT ![s] = y],
           UNCHANGED <<kind, row, beyond, changes>>, copyFile' \in K!File, ~ K!OperatorsWork(copyFile'),
           backups' \subseteq Bodies \cup {"torn"}, SyncKnows(y)', StampFits'
    PROVE  SkillInv'
<1>1. sync \in [Syncs -> K!Sync] /\ K!Disturbed \in [Syncs -> K!Sync]
  BY DEF SkillInv, K!TypeOK, K!Disturbed, K!Sync
<1>2. K!TypeOK'
  BY <1>1 DEF SkillInv, K!TypeOK
<1>3. \A t \in Syncs \ {s} : sync'[t] = [sync[t] EXCEPT !.calm = FALSE]
  BY <1>1 DEF K!Disturbed
<1>4. OthersStay(s)
  <2> SUFFICES ASSUME NEW t \in Syncs \ {s}
               PROVE  Same(sync[t], sync'[t]) /\ RowsPass(sync'[t]) /\ FilePasses(sync'[t])
    BY DEF OthersStay
  <2>1. sync[t] \in K!Sync
    BY <1>1
  <2>2. sync'[t] = [sync[t] EXCEPT !.calm = FALSE]
    BY <1>3
  <2>3. Same(sync[t], sync'[t]) /\ ~ sync'[t].calm
    BY <2>1, <2>2, Disturbs
  <2>4. RowsPass(sync'[t])
    BY DEF RowsPass
  <2>5. FilePasses(sync'[t])
    BY <2>3 DEF FilePasses
  <2> QED
    BY <2>3, <2>4, <2>5
<1>5. sync'[s] = y
  BY <1>1
<1>6. SyncKnows(sync[s])'
  BY <1>5 DEF SyncKnows, Asks, Looks, Past, K!Owned, K!Shown, K!Asked, K!Chosen
<1> QED
  BY <1>2, <1>4, <1>6, SyncStep

LEMMA IdleSync == K!Idle \in K!Sync /\ SyncKnows(K!Idle) /\ SyncKnows(K!Idle)'
  BY DEF K!Idle, K!Sync, K!RowOf, K!NoRow, K!Scopes, K!File, SyncKnows, UnderWay

-----------------------------------------------------------------------------
\* What a sync under way has listed, and what it does with it.
LEMMA ListSync ==
    ASSUME SkillInv, NEW s \in Syncs, K!List(s)
    PROVE  SkillInv'
<1> PICK y : y = sync[s]
  OBVIOUS
<1> PICK z : z = [y EXCEPT !.listed[y.at] = K!Shown[y.at], !.at = K!After(y)]
  OBVIOUS
<1>1. /\ y \in K!Sync /\ y.at \in K!Scopes /\ row \in [K!Scopes -> K!RowOf] /\ Asks(y) /\ SyncKnows(y)
      /\ kind \in {"skill", "workflow"}
  BY DEF K!List, SkillInv, K!TypeOK, SyncKnows, K!Scopes, UnderWay
<1>2. K!After(y) \in {"project", "library", "read"} /\ K!After(y) # y.at
      /\ (y.at = "project" => K!After(y) \in {"library", "read"})
      /\ (y.at = "system" => K!After(y) = IF y.bound THEN "project" ELSE IF kind = "skill" THEN "library" ELSE "read")
      /\ (y.at = "project" => K!After(y) = IF kind = "skill" THEN "library" ELSE "read")
      /\ (y.at = "library" => K!After(y) = "read")
  BY <1>1 DEF K!After, K!Scopes
<1>3. z \in K!Sync
  <2>1. PICK r \in K!RowOf : r = K!Shown[y.at]
    BY <1>1 DEF K!Shown, K!RowOf, K!NoRow
  <2>2. PICK at \in {"project", "library", "read"} : at = K!After(y)
    BY <1>2
  <2>3. PICK listed \in [K!Scopes -> K!RowOf] : listed = [y.listed EXCEPT ![y.at] = r]
    BY <1>1 DEF K!Sync
  <2>4. z = [y EXCEPT !.listed = listed, !.at = at]
    BY <2>1, <2>2, <2>3
  <2>5. [y EXCEPT !.listed = listed, !.at = at] \in K!Sync
    BY <1>1 DEF K!Sync
  <2> QED
    BY <2>4, <2>5
<1>4. /\ z.at = K!After(y) /\ z.owned = y.owned /\ z.calm = y.calm /\ z.bound = y.bound
      /\ \A c \in K!Scopes : z.listed[c] = IF c = y.at THEN K!Shown[c] ELSE y.listed[c]
  BY <1>1 DEF K!Sync
<1>5. \A c \in Past(z) : c = y.at \/ c \in Past(y)
  BY <1>1, <1>2, <1>4 DEF Past, K!Scopes, UnderWay
<1>6. (\A c \in Past(y) : c \in Past(z)) /\ y.at \in Past(z)
  BY <1>1, <1>2, <1>4 DEF Past, K!Scopes, UnderWay, Asks
<1>7. Past(z)' = Past(z) /\ K!Owned(K!Shown)' = K!Owned(K!Shown) /\ K!Shown' = K!Shown
  BY DEF K!List, Past, K!Owned, K!Shown, K!Kept, K!Asked
<1>8. z.at = "project" => z.bound
  BY <1>1, <1>2, <1>4 DEF K!Scopes
<1>9. z.at = "library" => kind = "skill"
  BY <1>1, <1>2, <1>4 DEF Asks, K!Scopes
<1>10. Asks(z)'
  <2>1. (z.owned \subseteq K!Owned(K!Shown))'
    BY <1>1, <1>4, <1>7 DEF Asks
  <2>2. \A c \in z.owned : K!Kept(K!Shown[c].body) /\ c \in K!Scopes
    BY <1>1, <1>4 DEF Asks, K!Owned, K!Shown, K!Asked
  <2>3. (\A c \in z.owned \cap Past(z) : K!Kept(z.listed[c].body))'
    BY <1>1, <1>4, <1>5, <1>7, <2>2 DEF Asks, K!List, K!Kept
  <2>4. \A c \in K!Scopes : Older(z.listed[c], row[c])
    BY <1>1, <1>4 DEF Asks, Older, K!RowOf, K!Shown, SkillInv
  <2>5. z.calm => \A c \in K!Scopes : z.listed[c] = IF c \in Past(z) THEN K!Shown[c] ELSE K!NoRow
    BY <1>1, <1>4, <1>5, <1>6 DEF Asks
  <2> QED
    BY <1>2, <1>4, <1>7, <1>8, <1>9, <2>1, <2>3, <2>4, <2>5 DEF Asks, K!List, Older, K!NoRow
<1>11. SyncKnows(z)'
  BY <1>2, <1>4, <1>10 DEF SyncKnows
<1>12. K!Steps(s, z)
  BY DEF K!List
<1> QED
  BY <1>3, <1>11, <1>12, PlainSync DEF K!List, SkillInv, K!TypeOK

LEMMA StartSync ==
    ASSUME SkillInv, NEW s \in Syncs, K!Start(s)
    PROVE  SkillInv'
<1>1. PICK c \in SyncCommands[s] :
         K!Steps(s, [K!Idle EXCEPT !.at = "system", !.bound = c.bound,
                               !.scope = IF kind = "skill" THEN c.scope ELSE "",
                               !.force = kind = "skill" /\ c.force,
                               !.owned = K!Owned(K!Shown), !.calm = TRUE])
  BY DEF K!Start
<1>2. c.scope \in {"", "system", "project"} /\ c.force \in BOOLEAN /\ c.bound \in BOOLEAN
  <2>1. SyncCommands[s] \subseteq
           {Cmd("", FALSE, TRUE), Cmd("", TRUE, TRUE), Cmd("system", FALSE, FALSE), Cmd("project", FALSE, TRUE)}
    BY DEF SyncCommands
  <2>2. c \in {Cmd("", FALSE, TRUE), Cmd("", TRUE, TRUE), Cmd("system", FALSE, FALSE), Cmd("project", FALSE, TRUE)}
    BY <2>1
  <2>3. \/ c = [scope |-> "", force |-> FALSE, bound |-> TRUE]
        \/ c = [scope |-> "", force |-> TRUE, bound |-> TRUE]
        \/ c = [scope |-> "system", force |-> FALSE, bound |-> FALSE]
        \/ c = [scope |-> "project", force |-> FALSE, bound |-> TRUE]
    BY <2>2 DEF Cmd
  <2>4. ASSUME NEW a \in {"", "system", "project"}, NEW b \in BOOLEAN, NEW d \in BOOLEAN,
               c = [scope |-> a, force |-> b, bound |-> d]
        PROVE  c.scope \in {"", "system", "project"} /\ c.force \in BOOLEAN /\ c.bound \in BOOLEAN
    BY <2>4
  <2> QED
    BY <2>3, <2>4, Zenon
<1> PICK z : z = [K!Idle EXCEPT !.at = "system", !.bound = c.bound,
                               !.scope = IF kind = "skill" THEN c.scope ELSE "",
                               !.force = kind = "skill" /\ c.force,
                               !.owned = K!Owned(K!Shown), !.calm = TRUE]
  OBVIOUS
<1>3. z.at = "system" /\ z.owned = K!Owned(K!Shown) /\ z.listed = [d \in K!Scopes |-> K!NoRow]
  BY DEF K!Idle
<1>4. z \in K!Sync
  <2>1. K!Owned(K!Shown) \in SUBSET K!Scopes
    BY DEF K!Owned, K!Shown, K!Asked
  <2> QED
    BY <1>2, <2>1, IdleSync DEF K!Idle, K!Sync
<1>5. Past(z) = {}
  BY <1>3 DEF Past, UnderWay
<1>6. Asks(z)
  BY <1>3, <1>5 DEF Asks, SkillInv, K!Scopes
<1>7. SyncKnows(z)'
  BY <1>3, <1>6 DEF K!Start, SyncKnows, Asks, Past, K!Owned, K!Shown, K!Asked, K!Kept, K!Chosen, Older, K!NoRow
<1>8. K!Steps(s, z)
  BY <1>1
<1> QED
  BY <1>4, <1>7, <1>8, PlainSync DEF K!Start, SkillInv, K!TypeOK

LEMMA ReadSync ==
    ASSUME SkillInv, NEW s \in Syncs, K!Read(s)
    PROVE  SkillInv'
<1> PICK y : y = sync[s]
  OBVIOUS
<1> PICK z : z = [y EXCEPT !.at = "apply", !.read = copyFile]
  OBVIOUS
<1>1. y \in K!Sync /\ y.at = "read" /\ Asks(y) /\ copyFile \in K!File
  BY DEF K!Read, SkillInv, K!TypeOK, SyncKnows, UnderWay
<1>2. z \in K!Sync
  BY <1>1 DEF K!Sync
<1>3. /\ z.at = "apply" /\ z.read = copyFile /\ z.listed = y.listed /\ z.owned = y.owned
      /\ z.calm = y.calm /\ z.bound = y.bound /\ z.scope = y.scope
  BY <1>1 DEF K!Sync
<1>4. K!Steps(s, z)
  BY DEF K!Read
<1>5. Past(z) = Past(y)
  BY <1>1, <1>3 DEF Past, UnderWay
<1>6. Asks(z) /\ Looks(z)
  BY <1>1, <1>3, <1>5 DEF Asks, Looks
<1>7. SyncKnows(z)'
  BY <1>3, <1>6 DEF K!Read, SyncKnows, Asks, Looks, Past, K!Owned, K!Shown, K!Asked, K!Kept, K!Chosen, Older, K!NoRow,
                    K!OperatorsWork, K!Edited, K!Stamped, K!Absent, K!Torn, K!NoStamp
<1> QED
  BY <1>2, <1>4, <1>7, PlainSync DEF K!Read, SkillInv, K!TypeOK

\* A sync that has listed what it is to list and goes over the file.
Applies(y) ==
    /\ y \in K!Sync /\ Asks(y) /\ Looks(y) /\ y.at \in {"apply", "write"}
    /\ row \in [K!Scopes -> K!RowOf] /\ kind \in {"skill", "workflow"} /\ copyFile \in K!File

\* Undisturbed it was told of the rows as they are.
LEMMA CalmSees ==
    ASSUME SyncBounds, NEW y, Applies(y), y.calm, y.bound, y.scope = ""
    PROVE  /\ K!Chosen(y) = K!Owned(K!Shown) /\ K!Owned(y.listed) = K!Owned(K!Shown) /\ y.read = copyFile
           /\ \A c \in K!Owned(K!Shown) : y.listed[c] = row[c]
<1>1. \A c \in K!Asked : c \in Past(y) /\ c \in K!Scopes
  BY DEF Applies, K!Asked, Past, UnderWay, K!Scopes
<1>2. \A c \in K!Asked : y.listed[c] = K!Shown[c]
  BY <1>1 DEF Applies, Asks
<1>3. K!Owned(y.listed) = K!Owned(K!Shown)
  BY <1>2 DEF K!Owned
<1>4. K!Owned(K!Shown) \subseteq K!Scopes /\ K!Owned(K!Shown) \subseteq K!Asked
  BY <1>1 DEF K!Owned
<1>5. \A c \in K!Owned(K!Shown) : K!Shown[c] = row[c]
  BY ListsHave
<1> QED
  BY <1>2, <1>3, <1>4, <1>5 DEF K!Chosen, Applies, Looks

LEMMA Ended ==
    ASSUME NEW y, Applies(y)
    PROVE  /\ K!Done(y) \in K!Sync /\ K!Done(y).at = "done" /\ K!Done(y).scope = y.scope
           /\ K!Done(y).force = y.force /\ K!Done(y).bound = y.bound /\ K!Done(y).calm = y.calm
<1>1. /\ y.scope \in {"", "system", "project"} /\ y.force \in BOOLEAN /\ y.bound \in BOOLEAN
      /\ y.calm \in BOOLEAN
  BY DEF Applies, K!Sync
<1> QED
  BY <1>1, IdleSync DEF K!Done, K!Idle, K!Sync

LEMMA WriteLeaves ==
    ASSUME SyncBounds, NEW y, Applies(y), K!Chosen(y) # {}
    PROVE  LET f == K!Materialised(K!Winner(y), K!Sub(y)) IN
           /\ f \in K!File /\ ~ K!OperatorsWork(f) /\ f # K!Absent /\ K!Stamped(f)
           /\ Older([version |-> f.stamp.version, body |-> f.stamp.hash], row[f.stamp.id])
           /\ y.calm /\ y.bound /\ y.scope = "" =>
                 \E c \in K!Owned(K!Shown) : /\ f = K!Materialised(c, row[c])
                                         /\ \A d \in K!Owned(K!Shown) : K!Rank[d] <= K!Rank[c]
<1>1. y \in K!Sync
  BY DEF Applies
<1>2. /\ K!Winner(y) \in K!Chosen(y)
      /\ K!Winner(y) \in K!Scopes /\ K!Sub(y) = y.listed[K!Winner(y)]
      /\ K!Sub(y).body \in Bodies /\ K!Sub(y).version \in Nat
      /\ \A d \in K!Chosen(y) : K!Rank[d] <= K!Rank[K!Winner(y)]
  BY <1>1, Chooses
<1>3. K!Sub(y) \in K!RowOf
  <2>1. y.listed \in [K!Scopes -> K!RowOf]
    BY <1>1 DEF K!Sync
  <2> QED
    BY <1>2, <2>1
<1> DEFINE f == K!Materialised(K!Winner(y), K!Sub(y))
<1>4. /\ f \in K!File /\ f # K!Absent /\ K!Stamped(f) /\ ~ K!OperatorsWork(f)
      /\ f.stamp.id = K!Winner(y) /\ f.stamp.version = K!Sub(y).version /\ f.stamp.hash = K!Sub(y).body
  BY <1>2, <1>3, Materials
<1>5. Older(y.listed[K!Winner(y)], row[K!Winner(y)])
  BY <1>2 DEF Applies, Asks
<1>6. Older([version |-> f.stamp.version, body |-> f.stamp.hash], row[f.stamp.id])
  BY <1>2, <1>4, <1>5 DEF Older
<1>7. ASSUME y.calm, y.bound, y.scope = ""
      PROVE  \E c \in K!Owned(K!Shown) : /\ f = K!Materialised(c, row[c])
                                     /\ \A d \in K!Owned(K!Shown) : K!Rank[d] <= K!Rank[c]
  BY <1>2, <1>7, CalmSees
<1> QED
  BY <1>4, <1>6, <1>7

LEMMA WriteSync ==
    ASSUME SyncBounds, SkillInv, NEW s \in Syncs, K!Write(s)
    PROVE  SkillInv'
<1> PICK y : y = sync[s]
  OBVIOUS
<1>1. Applies(y) /\ K!Chosen(y) # {}
  BY DEF K!Write, SkillInv, K!TypeOK, SyncKnows, UnderWay, Applies, K!Materialises, Asks
<1> PICK f : f = K!Materialised(K!Winner(y), K!Sub(y))
  OBVIOUS
<1>2. /\ f \in K!File /\ ~ K!OperatorsWork(f) /\ f # K!Absent /\ K!Stamped(f)
      /\ Older([version |-> f.stamp.version, body |-> f.stamp.hash], row[f.stamp.id])
      /\ y.calm /\ y.bound /\ y.scope = "" =>
                 \E c \in K!Owned(K!Shown) : /\ f = K!Materialised(c, row[c])
                                         /\ \A d \in K!Owned(K!Shown) : K!Rank[d] <= K!Rank[c]
  BY <1>1, WriteLeaves
<1> PICK z : z = K!Done(y)
  OBVIOUS
<1>3. /\ z \in K!Sync /\ z.at = "done" /\ z.scope = y.scope /\ z.force = y.force /\ z.bound = y.bound
      /\ z.calm = y.calm
  BY <1>1, Ended
<1>4. /\ copyFile' = f /\ sync' = [K!Disturbed EXCEPT ![s] = z] /\ UNCHANGED <<kind, row, beyond, changes>>
      /\ backups' \subseteq Bodies \cup {"torn"}
  BY DEF K!Write, K!Puts, SkillInv, K!TypeOK
<1>5. StampFits'
  BY <1>2, <1>4 DEF StampFits, Older
<1>6. y.calm /\ y.bound /\ y.scope = "" => LeftBy(z.force)'
  BY <1>2, <1>4 DEF LeftBy, K!Owned, K!Shown, K!Kept, K!Asked, K!Rank, K!Materialised
<1>7. SyncKnows(z)'
  BY <1>3, <1>6 DEF SyncKnows, UnderWay
<1>8. copyFile' \in K!File /\ ~ K!OperatorsWork(copyFile')
  BY <1>2, <1>4
<1> QED
  BY <1>3, <1>4, <1>5, <1>7, <1>8, WritingSync

LEMMA TornSync ==
    ASSUME SkillInv, NEW s \in Syncs, K!WriteTorn(s)
    PROVE  SkillInv'
<1>1. /\ copyFile' = K!Torn /\ sync' = [K!Disturbed EXCEPT ![s] = K!Idle]
      /\ UNCHANGED <<kind, row, beyond, changes>> /\ backups' \subseteq Bodies \cup {"torn"}
  BY DEF K!WriteTorn, SkillInv, K!TypeOK
<1>2. copyFile' \in K!File /\ ~ K!OperatorsWork(copyFile') /\ StampFits'
  BY <1>1 DEF K!File, K!Torn, K!OperatorsWork, StampFits, K!Stamped, K!NoStamp
<1> QED
  BY <1>1, <1>2, IdleSync, WritingSync

LEMMA BackupSync ==
    ASSUME SkillInv, NEW s \in Syncs, K!Backup(s)
    PROVE  SkillInv'
<1> PICK y : y = sync[s]
  OBVIOUS
<1>1. Applies(y) /\ K!Chosen(y) # {} /\ SyncKnows(y)
  BY DEF K!Backup, SkillInv, K!TypeOK, SyncKnows, UnderWay, Applies
<1>2. CASE copyFile = K!Absent
  <2> PICK z : z = K!Done([y EXCEPT !.calm = FALSE])
    OBVIOUS
  <2>1. z \in K!Sync /\ z.at = "done" /\ ~ z.calm
    <3>1. /\ y.scope \in {"", "system", "project"} /\ y.force \in BOOLEAN /\ y.bound \in BOOLEAN
          /\ [y EXCEPT !.calm = FALSE].scope = y.scope /\ [y EXCEPT !.calm = FALSE].force = y.force
          /\ [y EXCEPT !.calm = FALSE].bound = y.bound /\ [y EXCEPT !.calm = FALSE].calm = FALSE
      BY <1>1 DEF Applies, K!Sync
    <3> QED
      BY <3>1, IdleSync DEF K!Done, K!Idle, K!Sync
  <2>2. SyncKnows(z)'
    BY <2>1 DEF SyncKnows, UnderWay
  <2>3. K!Steps(s, z) /\ backups' = backups
    BY <1>2 DEF K!Backup
  <2> QED
    BY <2>1, <2>2, <2>3, PlainSync DEF K!Backup, SkillInv, K!TypeOK
<1>3. CASE copyFile # K!Absent
  <2> PICK z : z = [y EXCEPT !.at = "write", !.touched = FALSE]
    OBVIOUS
  <2>1. /\ z \in K!Sync /\ z.at = "write" /\ z.touched = FALSE /\ z.listed = y.listed /\ z.owned = y.owned
        /\ z.calm = y.calm /\ z.bound = y.bound /\ z.scope = y.scope /\ z.read = y.read
    BY <1>1 DEF Applies, K!Sync
  <2>2. K!Steps(s, z) /\ backups' = backups \cup {copyFile.body} /\ y.at = "apply"
    BY <1>3 DEF K!Backup
  <2>3. copyFile.body \in Bodies \cup {"torn"}
    BY <1>1, <1>3 DEF Applies, K!File, K!Torn
  <2>4. Past(z) = Past(y) /\ K!Chosen(z) = K!Chosen(y)
    BY <2>1, <2>2 DEF Past, UnderWay, K!Chosen
  <2>5. Asks(z)
    BY <1>1, <2>1, <2>4 DEF Asks, Applies
  <2>6. Asks(z)'
    <3>1. UNCHANGED <<kind, row, beyond>>
      BY DEF K!Backup
    <3>2. K!Shown' = K!Shown
      BY <3>1 DEF K!Shown
    <3>3. K!Owned(K!Shown)' = K!Owned(K!Shown)
      BY <3>1, <3>2 DEF K!Owned, K!Asked, K!Kept
    <3> QED
      <4>1. Past(z)' = Past(z) /\ (K!Chosen(z) # {} => K!Chosen(z)' # {})
        BY <3>1 DEF Past, K!Chosen, K!Owned, K!Asked, K!Kept
      <4> QED
        BY <2>5, <3>1, <3>2, <3>3, <4>1 DEF Asks, K!Kept, Older, K!NoRow
  <2>7. Looks(z)'
    BY <1>1, <2>1, <2>2 DEF K!Backup, Applies, Looks
  <2>8. SyncKnows(z)'
    BY <2>1, <2>6, <2>7 DEF SyncKnows
  <2> QED
    BY <2>1, <2>2, <2>3, <2>8, PlainSync DEF K!Backup, SkillInv, K!TypeOK
<1> QED
  BY <1>2, <1>3

LEMMA RemoveSync ==
    ASSUME SyncBounds, SkillInv, NEW s \in Syncs, K!Remove(s)
    PROVE  SkillInv'
<1> PICK y : y = sync[s]
  OBVIOUS
<1>1. Applies(y) /\ K!Removes(y)
  BY DEF K!Remove, SkillInv, K!TypeOK, SyncKnows, UnderWay, Applies
<1> PICK z : z = K!Done(y)
  OBVIOUS
<1>2. /\ z \in K!Sync /\ z.at = "done" /\ z.scope = y.scope /\ z.force = y.force /\ z.bound = y.bound
      /\ z.calm = y.calm
  BY <1>1, Ended
<1>3. /\ copyFile' = K!Absent /\ sync' = [K!Disturbed EXCEPT ![s] = z] /\ UNCHANGED <<kind, row, beyond, changes>>
      /\ backups' \subseteq Bodies \cup {"torn"}
  BY DEF K!Remove, K!Puts, SkillInv, K!TypeOK
<1>4. copyFile' \in K!File /\ ~ K!OperatorsWork(copyFile') /\ StampFits'
  BY <1>3 DEF K!File, K!Absent, K!OperatorsWork, StampFits, K!Stamped, K!NoStamp
<1>5. y.calm /\ y.bound /\ y.scope = "" => LeftBy(z.force)'
  <2> SUFFICES ASSUME y.calm, y.bound, y.scope = "" PROVE LeftBy(z.force)'
    OBVIOUS
  <2>1. K!Owned(K!Shown) = {}
    BY <1>1, CalmSees DEF K!Removes
  <2> QED
    BY <1>3, <2>1 DEF LeftBy, K!Owned, K!Shown, K!Kept, K!Asked, K!Absent, K!NoStamp
<1>6. SyncKnows(z)'
  BY <1>2, <1>5 DEF SyncKnows, UnderWay
<1> QED
  BY <1>2, <1>3, <1>4, <1>6, WritingSync

LEMMA AtMost == \A v, w \in Nat : v <= w /\ ~ v < w => v = w
  OBVIOUS

LEMMA StampedIs ==
    ASSUME NEW f \in K!File, K!Stamped(f)
    PROVE  f \in [body : Bodies, stamp : K!Stamp \cup {K!NoStamp}]
  BY DEF K!File, K!Stamped, K!Absent, K!Torn

LEMMA KeepLeaves ==
    ASSUME SyncBounds, NEW y, Applies(y), StampFits, y.at = "apply", y.calm, y.bound, y.scope = "",
           ~ K!Materialises(y), ~ K!Removes(y), K!Conflicts(y) /\ y.force => K!Chosen(y) = {}
    PROVE  LeftBy(y.force)
<1>1. /\ K!Chosen(y) = K!Owned(K!Shown) /\ K!Owned(y.listed) = K!Owned(K!Shown) /\ y.read = copyFile
      /\ \A c \in K!Owned(K!Shown) : y.listed[c] = row[c]
  BY CalmSees
<1>2. CASE K!Edited(copyFile)
  BY <1>1, <1>2 DEF LeftBy, K!Conflicts
<1>3. CASE ~ K!Stamped(copyFile)
  <2>1. copyFile = K!Absent => K!Owned(K!Shown) = {}
    BY <1>1, <1>3 DEF K!Materialises, K!Conflicts, K!Edited
  <2>2. copyFile # K!Absent => (y.force => K!Owned(K!Shown) = {})
    BY <1>1, <1>3 DEF K!Materialises, K!Conflicts, K!Edited
  <2> QED
    BY <1>3, <2>1, <2>2 DEF LeftBy
<1>4. CASE K!Stamped(copyFile) /\ ~ K!Edited(copyFile)
  <2>1. ~ K!Conflicts(y)
    BY <1>1, <1>4 DEF K!Conflicts
  <2>2. K!Owned(K!Shown) # {}
    BY <1>1, <1>4, <2>1 DEF K!Removes, K!Protected
  <2> PICK c : c = K!Winner(y)
    OBVIOUS
  <2>3. /\ c \in K!Owned(K!Shown) /\ c \in K!Scopes /\ K!Sub(y) = row[c] /\ row[c].body \in Bodies
        /\ \A d \in K!Owned(K!Shown) : K!Rank[d] <= K!Rank[c]
    BY <1>1, <2>2, Chooses DEF Applies
  <2>4. /\ copyFile.stamp.id = c /\ ~ copyFile.stamp.version < row[c].version
        /\ ~ copyFile.stamp.legacy /\ copyFile.body = copyFile.stamp.hash
    BY <1>1, <1>4, <2>1, <2>2, <2>3 DEF K!Materialises, K!Edited
  <2>5. /\ copyFile.stamp \in K!Stamp /\ copyFile = [body |-> copyFile.body, stamp |-> copyFile.stamp]
    <3>1. copyFile \in [body : Bodies, stamp : K!Stamp \cup {K!NoStamp}]
      BY <1>4, StampedIs DEF Applies
    <3>2. copyFile = [body |-> copyFile.body, stamp |-> copyFile.stamp]
      BY <3>1
    <3> QED
      BY <1>4, <3>1, <3>2 DEF K!Stamped
  <2>6. copyFile.stamp = [id |-> c, version |-> copyFile.stamp.version, hash |-> copyFile.stamp.hash, legacy |-> FALSE]
        /\ copyFile.stamp.version \in Nat
    BY <2>4, <2>5 DEF K!Stamp
  <2>7. row[c] \in K!RowOf
    BY <2>3 DEF Applies
  <2>8. copyFile.stamp.version = row[c].version /\ copyFile.stamp.hash = row[c].body
    <3>1. Older([version |-> copyFile.stamp.version, body |-> copyFile.stamp.hash], row[c])
      BY <1>4, <2>4 DEF StampFits
    <3>2. row[c].version \in Nat
      BY <2>7 DEF K!RowOf
    <3>3. /\ copyFile.stamp.version <= row[c].version
          /\ copyFile.stamp.version = row[c].version => copyFile.stamp.hash = row[c].body
      BY <3>1 DEF Older
    <3>4. copyFile.stamp.version \in Nat
      BY <2>6
    <3>6. copyFile.stamp.version = row[c].version
      BY <2>4, <3>2, <3>3, <3>4, AtMost, Zenon
    <3> QED
      BY <3>3, <3>6, Zenon
  <2>9. copyFile = K!Materialised(c, row[c])
    BY <2>4, <2>5, <2>6, <2>8 DEF K!Materialised
  <2> QED
    BY <2>3, <2>9 DEF LeftBy
<1> QED
  BY <1>2, <1>3, <1>4

LEMMA KeepSync ==
    ASSUME SyncBounds, SkillInv, NEW s \in Syncs, K!Keep(s)
    PROVE  SkillInv'
<1> PICK y : y = sync[s]
  OBVIOUS
<1>1. /\ Applies(y) /\ StampFits /\ y.at = "apply" /\ ~ K!Materialises(y) /\ ~ K!Removes(y)
      /\ (K!Conflicts(y) /\ y.force => K!Chosen(y) = {})
  BY DEF K!Keep, SkillInv, K!TypeOK, SyncKnows, UnderWay, Applies
<1> PICK z : z = K!Done(y)
  OBVIOUS
<1>2. /\ z \in K!Sync /\ z.at = "done" /\ z.scope = y.scope /\ z.force = y.force /\ z.bound = y.bound
      /\ z.calm = y.calm
  BY <1>1, Ended
<1>3. y.calm /\ y.bound /\ y.scope = "" => LeftBy(z.force)
  BY <1>1, <1>2, KeepLeaves
<1>4. LeftBy(z.force)' = LeftBy(z.force)
  BY DEF K!Keep, LeftBy, K!Owned, K!Shown, K!Kept, K!Asked, K!Absent, K!Materialised, K!Rank, K!Stamped, K!Edited, K!NoStamp
<1>5. SyncKnows(z)'
  BY <1>2, <1>3, <1>4 DEF SyncKnows, UnderWay
<1>6. K!Steps(s, z)
  BY DEF K!Keep
<1> QED
  BY <1>2, <1>5, <1>6, PlainSync DEF K!Keep, SkillInv, K!TypeOK

-----------------------------------------------------------------------------
\* What a publisher or the operator does.
LEMMA RowsMove ==
    ASSUME SyncBounds, SkillInv, NEW c \in K!Scopes, NEW b \in Bodies \cup {"none"}, changes' \in 0..MaxChanges,
           K!RowBecomes(c, [version |-> row[c].version + 1, body |-> b])
    PROVE  SkillInv'
<1> PICK r : r = [version |-> row[c].version + 1, body |-> b]
  OBVIOUS
<1>1. row \in [K!Scopes -> K!RowOf] /\ sync \in [Syncs -> K!Sync]
  BY DEF SkillInv, K!TypeOK
<1>2. r \in K!RowOf /\ Older(row[c], r)
  <2>1. row[c].version \in Nat
    BY <1>1 DEF K!RowOf
  <2> QED
    BY <2>1 DEF K!RowOf, Older
<1>3. row' = [row EXCEPT ![c] = r] /\ UNCHANGED <<kind, beyond, copyFile, backups>>
      /\ sync' = [s \in Syncs |-> [sync[s] EXCEPT !.calm = FALSE,
                                  !.owned = IF K!Kept(r.body) THEN @ ELSE @ \ {c}]]
  BY DEF K!RowBecomes
<1>4. row' \in [K!Scopes -> K!RowOf] /\ \A d \in K!Scopes : row'[d] = IF d = c THEN r ELSE row[d]
  BY <1>1, <1>2, <1>3
<1>5. \A d \in K!Scopes : Older(row[d], row'[d])
  <2>1. \A d \in K!Scopes : Older(row[d], row[d])
    BY <1>1 DEF Older, K!RowOf
  <2> QED
    BY <1>2, <1>4, <2>1
<1>6. ASSUME NEW s \in Syncs
      PROVE  /\ sync'[s] \in K!Sync /\ ~ sync'[s].calm /\ Same(sync[s], sync'[s])
             /\ sync'[s].owned = IF K!Kept(r.body) THEN sync[s].owned ELSE sync[s].owned \ {c}
  <2> PICK x : x = sync[s]
    OBVIOUS
  <2> PICK o : o = IF K!Kept(r.body) THEN x.owned ELSE x.owned \ {c}
    OBVIOUS
  <2>1. x \in K!Sync /\ sync'[s] = [x EXCEPT !.calm = FALSE, !.owned = o]
    BY <1>1, <1>3
  <2>2. o \subseteq x.owned /\ o \in SUBSET K!Scopes
    BY <2>1 DEF K!Sync
  <2>3. [x EXCEPT !.calm = FALSE, !.owned = o] \in K!Sync
    BY <2>1, <2>2 DEF K!Sync
  <2>4. Same(x, [x EXCEPT !.calm = FALSE, !.owned = o])
    BY <2>1, <2>2 DEF K!Sync, Same
  <2>5. [x EXCEPT !.calm = FALSE, !.owned = o].owned = o /\ ~ [x EXCEPT !.calm = FALSE, !.owned = o].calm
    BY <2>1 DEF K!Sync
  <2> QED
    BY <2>1, <2>3, <2>4, <2>5
<1>7. ASSUME NEW s \in Syncs, sync[s].owned \subseteq K!Owned(K!Shown)
      PROVE  sync'[s].owned \subseteq K!Owned(K!Shown)'
  <2>1. \A b1 : K!Kept(b1)' <=> K!Kept(b1)
    BY <1>3 DEF K!Kept
  <2>2. K!Asked' = K!Asked /\ \A d \in K!Asked : d \in K!Scopes
    BY <1>3 DEF K!Asked
  <2>3. K!Owned(K!Shown)' = {d \in K!Asked : K!Kept(K!Shown'[d].body)}
    BY <2>1, <2>2 DEF K!Owned
  <2>4. \A d \in sync'[s].owned : d \in K!Asked /\ d \in K!Owned(K!Shown) /\ (d = c => K!Kept(r.body))
    BY <1>6, <1>7 DEF K!Owned
  <2>5. ASSUME NEW d \in K!Owned(K!Shown), d = c => K!Kept(r.body) PROVE K!Kept(K!Shown'[d].body)
    <3>1. d \in K!Scopes /\ d \notin beyond /\ K!Shown[d] = row[d] /\ K!Kept(K!Shown[d].body)
      BY ListsHave DEF K!Owned
    <3>2. K!Shown'[d] = row'[d]
      BY <1>3, <3>1 DEF K!Shown
    <3> QED
      BY <1>4, <2>5, <3>1, <3>2
  <2> QED
    BY <2>2, <2>3, <2>4, <2>5
<1>8. ASSUME NEW s \in Syncs PROVE SyncKnows(sync[s])'
  <2>1. SyncKnows(sync[s]) /\ sync[s] \in K!Sync
    BY <1>1 DEF SkillInv
  <2>2. RowsPass(sync'[s])
    BY <1>5, <1>6, <1>7, <2>1 DEF RowsPass, SyncKnows, Asks, Same
  <2>3. FilePasses(sync'[s])
    BY <1>3 DEF FilePasses
  <2> QED
    BY <1>1, <1>3, <1>4, <1>6, <2>1, <2>2, <2>3, KnowsOn
<1>9. K!TypeOK'
  <2>1. sync' \in [Syncs -> K!Sync]
    BY <1>3, <1>6
  <2> QED
    BY <1>3, <1>4, <2>1 DEF SkillInv, K!TypeOK
<1>10. StampFits'
  <2>1. CASE ~ K!Stamped(copyFile)
    BY <1>3, <2>1 DEF StampFits, K!Stamped, K!NoStamp
  <2>2. CASE K!Stamped(copyFile)
    <3>1. copyFile.stamp \in K!Stamp
      BY <2>2 DEF SkillInv, K!TypeOK, K!File, K!Stamped, K!Absent, K!Torn
    <3>2. copyFile.stamp.id \in K!Scopes /\ copyFile.stamp.version \in Nat /\ copyFile.stamp.hash \in Bodies
      BY <3>1 DEF K!Stamp
    <3> PICK o : o = [version |-> copyFile.stamp.version, body |-> copyFile.stamp.hash]
      OBVIOUS
    <3>3. o \in K!RowOf
      BY <3>2 DEF K!RowOf
    <3>4. Older(o, row[copyFile.stamp.id])
      BY <2>2 DEF SkillInv, StampFits
    <3>5. Older(o, row'[copyFile.stamp.id])
      BY <1>1, <1>4, <1>5, <3>2, <3>3, <3>4, OlderGoes
    <3> QED
      BY <1>3, <3>5 DEF StampFits
  <2> QED
    BY <2>1, <2>2
<1>11. \A d \in K!Scopes : Older(K!NoRow, row'[d])
  <2>1. K!NoRow \in K!RowOf
    BY DEF K!NoRow, K!RowOf
  <2> QED
    BY <1>1, <1>4, <1>5, <2>1, OlderGoes DEF SkillInv
<1> QED
  BY <1>8, <1>9, <1>10, <1>11 DEF SkillInv, Older, K!NoRow

LEMMA CrowdSync ==
    ASSUME SyncBounds, SkillInv, NEW c \in K!Scopes, K!Crowd(c)
    PROVE  SkillInv'
<1>1. row \in [K!Scopes -> K!RowOf] /\ sync \in [Syncs -> K!Sync] /\ beyond \subseteq K!Scopes
  BY DEF SkillInv, K!TypeOK
<1>2. UNCHANGED <<kind, row, copyFile, backups>> /\ beyond' \subseteq K!Scopes
  BY <1>1 DEF K!Crowd
<1>3. ASSUME NEW s \in Syncs
      PROVE  /\ sync'[s] \in K!Sync /\ ~ sync'[s].calm /\ Same(sync[s], sync'[s])
             /\ sync'[s].owned = sync[s].owned \ beyond'
  <2> PICK x : x = sync[s]
    OBVIOUS
  <2> PICK o : o = x.owned \ beyond'
    OBVIOUS
  <2>1. x \in K!Sync /\ sync'[s] = [x EXCEPT !.calm = FALSE, !.owned = o]
    BY <1>1 DEF K!Crowd
  <2>2. o \subseteq x.owned /\ o \in SUBSET K!Scopes
    BY <2>1 DEF K!Sync
  <2>3. [x EXCEPT !.calm = FALSE, !.owned = o] \in K!Sync
    BY <2>1, <2>2 DEF K!Sync
  <2>4. Same(x, [x EXCEPT !.calm = FALSE, !.owned = o])
    BY <2>1, <2>2 DEF K!Sync, Same
  <2>5. [x EXCEPT !.calm = FALSE, !.owned = o].owned = o /\ ~ [x EXCEPT !.calm = FALSE, !.owned = o].calm
    BY <2>1 DEF K!Sync
  <2> QED
    BY <2>1, <2>3, <2>4, <2>5
<1>4. ASSUME NEW s \in Syncs, sync[s].owned \subseteq K!Owned(K!Shown)
      PROVE  sync'[s].owned \subseteq K!Owned(K!Shown)'
  <2>1. \A b : K!Kept(b)' <=> K!Kept(b)
    BY <1>2 DEF K!Kept
  <2>2. K!Asked' = K!Asked
    BY <1>2 DEF K!Asked
  <2>3. K!Owned(K!Shown)' = {d \in K!Asked : K!Kept(K!Shown'[d].body)}
    BY <2>1, <2>2 DEF K!Owned
  <2>4. ASSUME NEW d \in sync'[s].owned PROVE d \in K!Asked /\ K!Kept(K!Shown'[d].body)
    <3>1. d \in K!Owned(K!Shown) /\ d \notin beyond'
      BY <1>3, <1>4
    <3>2. d \in K!Asked /\ d \in K!Scopes /\ K!Shown[d] = row[d] /\ K!Kept(K!Shown[d].body)
      BY <3>1, ListsHave DEF K!Owned
    <3>3. K!Shown'[d] = row[d]
      BY <1>2, <3>1, <3>2 DEF K!Shown
    <3> QED
      BY <3>2, <3>3
  <2> QED
    BY <2>3, <2>4
<1>5. \A d \in K!Scopes : Older(row[d], row'[d])
  BY <1>1, <1>2 DEF Older, K!RowOf
<1>6. ASSUME NEW s \in Syncs PROVE SyncKnows(sync[s])'
  <2>1. SyncKnows(sync[s]) /\ sync[s] \in K!Sync
    BY <1>1 DEF SkillInv
  <2>2. RowsPass(sync'[s])
    BY <1>3, <1>4, <1>5, <2>1 DEF RowsPass, SyncKnows, Asks, Same
  <2>3. FilePasses(sync'[s])
    BY <1>2 DEF FilePasses
  <2> QED
    BY <1>1, <1>2, <1>3, <2>1, <2>2, <2>3, KnowsOn
<1>7. K!TypeOK'
  <2>1. sync' \in [Syncs -> K!Sync]
    BY <1>3 DEF K!Crowd
  <2>2. changes' \in 0..MaxChanges
    <3>1. changes < MaxChanges /\ changes' = changes + 1
      BY DEF K!Crowd
    <3>2. changes \in 0..MaxChanges
      BY DEF SkillInv, K!TypeOK
    <3> QED
      BY <3>1, <3>2 DEF SyncBounds
  <2> QED
    BY <1>1, <1>2, <2>1, <2>2 DEF SkillInv, K!TypeOK
<1>8. StampFits'
  BY <1>2 DEF SkillInv, StampFits, K!Stamped, K!NoStamp, Older
<1> QED
  BY <1>2, <1>6, <1>7, <1>8 DEF SkillInv, Older, K!NoRow

LEMMA EditSync ==
    ASSUME SyncBounds, SkillInv, NEW f \in K!Edits, K!Edit(f)
    PROVE  SkillInv'
<1>1. copyFile \in K!File /\ sync \in [Syncs -> K!Sync] /\ row \in [K!Scopes -> K!RowOf]
  BY DEF SkillInv, K!TypeOK
<1>2. copyFile.stamp \in K!Stamp \cup {K!NoStamp}
  BY <1>1 DEF K!File, K!Absent, K!Torn
<1>3. copyFile' = f /\ f \in K!File /\ (f.stamp = copyFile.stamp \/ ~ K!Stamped(f))
  <2>1. CASE f = K!Absent
    BY <2>1 DEF K!Edit, K!File, K!Absent, K!Stamped
  <2>2. ASSUME NEW b \in Bodies, NEW t \in {copyFile.stamp, K!NoStamp}, f = [body |-> b, stamp |-> t]
        PROVE  f \in K!File /\ (f.stamp = copyFile.stamp \/ ~ K!Stamped(f))
    BY <1>2, <2>2 DEF K!File, K!Stamped
  <2>3. f = K!Absent \/ \E b \in Bodies : \E t \in {copyFile.stamp, K!NoStamp} : f = [body |-> b, stamp |-> t]
    BY DEF K!Edits
  <2>4. copyFile' = f
    BY DEF K!Edit
  <2> QED
    BY <2>1, <2>2, <2>3, <2>4
<1>4. StampFits'
  BY <1>3 DEF K!Edit, SkillInv, StampFits, K!Stamped, K!NoStamp, Older
<1>5. ASSUME NEW s \in Syncs
      PROVE  /\ sync'[s] \in K!Sync /\ ~ sync'[s].calm /\ Same(sync[s], sync'[s])
             /\ sync'[s].at \in {"apply", "write"} => sync'[s].touched
  <2> PICK x : x = sync[s]
    OBVIOUS
  <2> PICK t : t = (x.touched \/ x.at \in {"apply", "write"})
    OBVIOUS
  <2>1. x \in K!Sync /\ sync'[s] = [x EXCEPT !.calm = FALSE, !.touched = t]
    BY <1>1 DEF K!Edit
  <2>2. t \in BOOLEAN /\ (x.touched => t) /\ (x.at \in {"apply", "write"} => t)
    OBVIOUS
  <2>3. [x EXCEPT !.calm = FALSE, !.touched = t] \in K!Sync
    BY <2>1, <2>2 DEF K!Sync
  <2>4. /\ [x EXCEPT !.calm = FALSE, !.touched = t].touched = t /\ ~ [x EXCEPT !.calm = FALSE, !.touched = t].calm
        /\ [x EXCEPT !.calm = FALSE, !.touched = t].at = x.at
    BY <2>1 DEF K!Sync
  <2>5. Same(x, [x EXCEPT !.calm = FALSE, !.touched = t])
    BY <2>1, <2>2, <2>4 DEF K!Sync, Same
  <2> QED
    BY <2>1, <2>2, <2>3, <2>4, <2>5
<1>6. ASSUME NEW s \in Syncs PROVE SyncKnows(sync[s])'
  <2>1. SyncKnows(sync[s]) /\ sync[s] \in K!Sync
    BY <1>1 DEF SkillInv
  <2>2. RowsPass(sync'[s]) /\ UNCHANGED <<row, beyond, kind>>
    BY DEF RowsPass, K!Edit
  <2>3. FilePasses(sync'[s])
    BY <1>5 DEF FilePasses
  <2> QED
    BY <1>1, <1>5, <2>1, <2>2, <2>3, KnowsOn
<1>7. K!TypeOK'
  <2>1. sync' \in [Syncs -> K!Sync]
    BY <1>5 DEF K!Edit
  <2>2. changes' \in 0..MaxChanges
    <3>1. changes < MaxChanges /\ changes' = changes + 1
      BY DEF K!Edit
    <3>2. changes \in 0..MaxChanges
      BY DEF SkillInv, K!TypeOK
    <3> QED
      BY <3>1, <3>2 DEF SyncBounds
  <2> QED
    BY <1>3, <2>1, <2>2 DEF SkillInv, K!TypeOK, K!Edit
<1> QED
  BY <1>4, <1>6, <1>7 DEF SkillInv, Older, K!NoRow, K!Edit

-----------------------------------------------------------------------------
LEMMA SkillInit == SyncBounds /\ K!Init => SkillInv
<1> SUFFICES ASSUME SyncBounds, K!Init PROVE SkillInv
  OBVIOUS
<1>1. row \in [K!Scopes -> K!RowOf]
  BY DEF K!Init, K!RowOf, K!NoRow
<1>2. \A c \in K!Scopes : row[c] = K!NoRow \/ (row[c].version = 2 /\ row[c].body \in Bodies)
  BY DEF K!Init
<1>3. \A c \in K!Scopes : Older(K!NoRow, row[c])
  BY <1>2 DEF Older, K!NoRow
<1>4. copyFile \in K!File /\ StampFits
  <2>1. CASE copyFile = K!Absent
    BY <2>1 DEF K!File, StampFits, K!Stamped, K!Absent
  <2>2. CASE copyFile \in {[body |-> b, stamp |-> K!NoStamp] : b \in Bodies}
    BY <2>2 DEF K!File, StampFits, K!Stamped
  <2>3. ASSUME NEW c \in K!Scopes, row[c].body # "none", NEW old \in 1..2, NEW h \in Bodies, NEW b \in Bodies,
               NEW legacy \in BOOLEAN, old = 2 => h = row[c].body,
               copyFile = [body |-> b, stamp |-> [id |-> c, version |-> old, hash |-> h, legacy |-> legacy]]
        PROVE  copyFile \in K!File /\ StampFits
    <3>1. row[c].version = 2
      BY <1>2, <2>3 DEF K!NoRow
    <3>2. [id |-> c, version |-> old, hash |-> h, legacy |-> legacy] \in K!Stamp
      BY DEF K!Stamp
    <3> QED
      BY <2>3, <3>1, <3>2 DEF K!File, StampFits, Older
  <2> QED
    BY <2>1, <2>2, <2>3 DEF K!Init
<1>5. K!TypeOK
  BY <1>1, <1>4, IdleSync DEF K!Init, K!TypeOK, SyncBounds
<1>6. \A s \in Syncs : SyncKnows(sync[s])
  BY IdleSync DEF K!Init
<1> QED
  BY <1>3, <1>4, <1>5, <1>6 DEF SkillInv

LEMMA SkillNext == SyncBounds /\ SkillInv /\ [K!Next]_K!vars => SkillInv'
<1> SUFFICES ASSUME SyncBounds, SkillInv, [K!Next]_K!vars PROVE SkillInv'
  OBVIOUS
<1>1. ASSUME UNCHANGED K!vars PROVE SkillInv'
  <2>1. UNCHANGED <<kind, row, beyond, copyFile, backups, sync, changes>>
    BY <1>1 DEF K!vars
  <2>2. K!TypeOK'
    BY <2>1 DEF SkillInv, K!TypeOK
  <2>3. StampFits'
    BY <2>1 DEF SkillInv, StampFits, K!Stamped, K!NoStamp, Older
  <2>4. ASSUME NEW s \in Syncs PROVE SyncKnows(sync[s])'
    <3>1. sync[s] \in K!Sync /\ Same(sync[s], sync[s]) /\ RowsPass(sync[s]) /\ FilePasses(sync[s])
      BY <2>1 DEF SkillInv, K!TypeOK, Same, RowsPass, FilePasses
    <3> QED
      BY <2>1, <3>1, KnowsOn DEF SkillInv, K!TypeOK
  <2> QED
    BY <2>1, <2>2, <2>3, <2>4 DEF SkillInv, Older, K!NoRow
<1>2. ASSUME NEW s \in Syncs, K!ListFails(s) PROVE SkillInv'
  <2>1. K!Steps(s, K!Idle)
    BY <1>2 DEF K!ListFails
  <2> QED
    BY <1>2, <2>1, IdleSync, PlainSync DEF K!ListFails, SkillInv, K!TypeOK
<1>3. ASSUME NEW c \in K!Scopes, K!Withdraw(c) PROVE SkillInv'
  <2>1. changes' \in 0..MaxChanges
    BY <1>3 DEF K!Withdraw, SkillInv, K!TypeOK, SyncBounds
  <2> QED
    BY <1>3, <2>1, RowsMove DEF K!Withdraw
<1>4. ASSUME NEW c \in K!Scopes, NEW b \in Bodies, K!Publish(c, b) PROVE SkillInv'
  <2>1. changes' \in 0..MaxChanges
    BY <1>4 DEF K!Publish, SkillInv, K!TypeOK, SyncBounds
  <2> QED
    BY <1>4, <2>1, RowsMove DEF K!Publish
<1> QED
  BY <1>1, <1>2, <1>3, <1>4, StartSync, ListSync, ReadSync, WriteSync, TornSync, BackupSync, RemoveSync,
     KeepSync, CrowdSync, EditSync DEF K!Next

-----------------------------------------------------------------------------
\* The steps of a sync leave the others where they are.
LEMMA OthersAt ==
    ASSUME SkillInv, K!Next, NEW s \in Syncs
    PROVE  \/ sync'[s].at = sync[s].at
           \/ K!Start(s) \/ K!List(s) \/ K!ListFails(s) \/ K!Read(s) \/ K!Write(s) \/ K!WriteTorn(s)
           \/ K!Backup(s) \/ K!Remove(s) \/ K!Keep(s)
<1>1. sync \in [Syncs -> K!Sync] /\ K!Disturbed = [t \in Syncs |-> [sync[t] EXCEPT !.calm = FALSE]]
  BY DEF SkillInv, K!TypeOK, K!Disturbed
<1>2. ASSUME NEW x \in K!Sync PROVE [x EXCEPT !.calm = FALSE].at = x.at
  BY DEF K!Sync
<1>3. ASSUME NEW t \in Syncs, t # s, NEW y, K!Steps(t, y) PROVE sync'[s].at = sync[s].at
  BY <1>1, <1>3 DEF K!Steps
<1>4. ASSUME NEW t \in Syncs, t # s, NEW y, sync' = [K!Disturbed EXCEPT ![t] = y] PROVE sync'[s].at = sync[s].at
  <2>1. sync'[s] = [sync[s] EXCEPT !.calm = FALSE]
    BY <1>1, <1>4
  <2> QED
    BY <1>1, <1>2, <2>1
<1>5. ASSUME NEW t \in Syncs, t # s,
             \/ K!Start(t) \/ K!List(t) \/ K!ListFails(t) \/ K!Read(t) \/ K!Backup(t) \/ K!Keep(t)
      PROVE  \E y : K!Steps(t, y)
  BY <1>5 DEF K!Start, K!List, K!ListFails, K!Read, K!Backup, K!Keep
<1>6. ASSUME NEW t \in Syncs, t # s, K!Write(t) \/ K!WriteTorn(t) \/ K!Remove(t)
      PROVE  \E y : sync' = [K!Disturbed EXCEPT ![t] = y]
  BY <1>6 DEF K!Write, K!WriteTorn, K!Remove, K!Puts
<1>7. ASSUME NEW c, NEW r, K!RowBecomes(c, r) PROVE sync'[s].at = sync[s].at
  BY <1>1, <1>7 DEF K!RowBecomes, K!Sync
<1>8. ASSUME NEW f, K!Edit(f) PROVE sync'[s].at = sync[s].at
  BY <1>1, <1>8 DEF K!Edit, K!Sync
<1>9. ASSUME NEW c, K!Withdraw(c) \/ \E b \in Bodies : K!Publish(c, b) PROVE sync'[s].at = sync[s].at
  BY <1>7, <1>9 DEF K!Withdraw, K!Publish
<1>10. ASSUME NEW c, K!Crowd(c) PROVE sync'[s].at = sync[s].at
  BY <1>1, <1>10 DEF K!Crowd, K!Sync
<1> QED
  BY <1>3, <1>4, <1>5, <1>6, <1>8, <1>9, <1>10 DEF K!Next

\* A step by which a sync that is over the file ends is its own.
LEMMA EndsItself ==
    ASSUME SkillInv, K!Next, NEW s \in Syncs, sync[s].at \in {"apply", "write"}, sync'[s].at = "done"
    PROVE  K!Write(s) \/ K!Remove(s) \/ copyFile' = copyFile
<1>1. sync \in [Syncs -> K!Sync]
  BY DEF SkillInv, K!TypeOK
<1>2. ~ K!WriteTorn(s)
  <2>1. K!WriteTorn(s) => sync'[s] = K!Idle
    BY <1>1 DEF K!WriteTorn, K!Disturbed
  <2>2. K!Idle.at = "idle"
    BY DEF K!Idle
  <2> QED
    BY <2>1, <2>2
<1> QED
  BY <1>2, OthersAt DEF K!Start, K!List, K!ListFails, K!Read, K!Backup, K!Keep, K!Scopes

\* What the operator wrote outlives a sync that looked at it.
LEMMA EditsKept ==
    ASSUME SyncBounds, SkillInv, K!Next, NEW s \in Syncs, K!OperatorsWork(copyFile),
           sync[s].at \in {"apply", "write"}, sync'[s].at = "done", ~ sync[s].touched
    PROVE  copyFile.body \in {copyFile'.body} \cup backups'
<1> PICK y : y = sync[s]
  OBVIOUS
<1>1. Looks(y)
  BY DEF SkillInv, SyncKnows
<1>2. CASE K!Write(s)
  <2>1. copyFile' = K!Materialised(K!Winner(y), K!Sub(y)) /\ backups' = backups
    BY <1>2 DEF K!Write, K!Puts
  <2>2. CASE y.at = "write"
    BY <1>1, <2>1, <2>2 DEF Looks
  <2>3. CASE y.at = "apply"
    <3>1. y.read = copyFile /\ K!Materialises(y)
      BY <1>1, <1>2, <2>3 DEF Looks, K!Write
    <3>2. ~ K!Stamped(copyFile) /\ copyFile.body = K!Sub(y).body
      BY <3>1 DEF K!Materialises, K!Conflicts, K!OperatorsWork
    <3> QED
      BY <2>1, <3>2 DEF K!Materialised
  <2> QED
    BY <2>2, <2>3
<1>3. CASE K!Remove(s)
  <2>1. y.read = copyFile /\ K!Removes(y)
    BY <1>1, <1>3 DEF Looks, K!Remove
  <2> QED
    BY <2>1 DEF K!Removes, K!Conflicts, K!OperatorsWork
<1> QED
  BY <1>2, <1>3, EndsItself

\* A sync removes a copy only if no scope it could have asked about kept a row of that name.
LEMMA CopyStays ==
    ASSUME SyncBounds, SkillInv, K!Next, NEW s \in Syncs, copyFile # K!Absent, copyFile' = K!Absent,
           sync[s].at = "apply", sync'[s].at = "done"
    PROVE  sync[s].owned \subseteq (IF sync[s].bound THEN {} ELSE {"project"})
<1> PICK y : y = sync[s]
  OBVIOUS
<1>1. Asks(y) /\ y \in K!Sync /\ Applies(y)
  BY DEF SkillInv, SyncKnows, UnderWay, K!TypeOK, Applies
<1>2. ~ K!Write(s)
  <2>1. K!Write(s) => K!Chosen(y) # {} /\ copyFile' = K!Materialised(K!Winner(y), K!Sub(y))
    BY DEF K!Write, K!Puts, K!Materialises
  <2> QED
    BY <1>1, <2>1, WriteLeaves
<1>3. K!Owned(y.listed) = {}
  BY <1>2, EndsItself DEF K!Remove, K!Removes, K!Protected
<1>4. \A c \in y.owned : c \in K!Asked /\ (c # "project" \/ y.bound => c \in Past(y))
  BY <1>1 DEF Asks, K!Owned, K!Shown, K!Asked, Past, UnderWay, K!Scopes
<1> QED
  BY <1>1, <1>3, <1>4 DEF Asks, K!Owned, K!Shown

LEMMA CopiesAreTyped == SyncBounds => (K!Spec => []K!TypeOK)
<1> SUFFICES ASSUME SyncBounds PROVE K!Spec => []K!TypeOK
  OBVIOUS
<1>1. K!Init => SkillInv
  BY SkillInit
<1>2. SkillInv /\ [K!Next]_K!vars => SkillInv'
  BY SkillNext
<1>3. SkillInv => K!TypeOK
  BY DEF SkillInv
<1> QED
  BY <1>1, <1>2, <1>3, PTL DEF K!Spec

\* What the operator wrote outlives a sync, a copy that a row on the page of a scope's list owns is
\* not removed, and an undisturbed sync of all scopes ends with the most specific row the lists
\* have or the operator's body: for any number of syncs, whatever is published, crowded out, edited
\* and killed meanwhile.
THEOREM SyncIsFaithful == SyncBounds => (K!Spec => SyncFaithful)
<1> SUFFICES ASSUME SyncBounds PROVE K!Spec => SyncFaithful
  OBVIOUS
<1>1. K!Init => SkillInv
  BY SkillInit
<1>2. SkillInv /\ [K!Next]_K!vars => SkillInv'
  BY SkillNext
<1>3. SkillInv => K!SettlesOnWinner
  BY DEF SkillInv, SyncKnows, LeftBy, K!SettlesOnWinner, UnderWay
<1>4. SkillInv /\ [K!Next]_K!vars =>
         [\A s \in Syncs :
            /\ K!OperatorsWork(copyFile)
            /\ sync[s].at \in {"apply", "write"} /\ sync'[s].at = "done"
            /\ ~ sync[s].touched
            => copyFile.body \in {copyFile'.body} \cup backups']_K!vars
  BY EditsKept
<1>5. SkillInv /\ [K!Next]_K!vars =>
         [\A s \in Syncs :
            /\ copyFile # K!Absent /\ copyFile' = K!Absent
            /\ sync[s].at = "apply" /\ sync'[s].at = "done"
            => sync[s].owned \subseteq (IF sync[s].bound THEN {} ELSE {"project"})]_K!vars
  BY CopyStays
<1> QED
  BY <1>1, <1>2, <1>3, <1>4, <1>5, PTL DEF K!Spec, SyncFaithful, K!KeepsEdits, K!OwnedCopyStays

-----------------------------------------------------------------------------
(* Workflow files.                                                         *)

\* A nonempty set of line numbers has a last one.
LEMMA LastExists ==
    ASSUME NEW n \in Nat, NEW S \in SUBSET (0..n), S # {}
    PROVE  \E i \in S : \A j \in S : j <= i
<1>1. I!Largest(S) \in S /\ \A s \in S : s <= I!Largest(S)
  BY LargestIs
<1> QED
  BY <1>1

\* What a line does not say.
Unset == ""

LEMMA UnsetIs == Unset # "pass" /\ Unset # "fail" /\ Unset # "checkpoint" /\ Unset # "reopen"
  BY Zenon DEF Unset

\* A line an author may write: an edge of Workflow.
Line == [from : States, to : States, on : {Unset, "pass", "fail"},
         trigger : {Unset, "checkpoint", "reopen"}, gate : Gates \cup {NoGate}, max : Nat,
         exhausted : States \cup {NoState}]

\* A file of such lines.
Written(d) ==
    /\ d = [states |-> d.states, edges |-> d.edges]
    /\ d.states \in Seq(States) /\ d.edges \in Seq(Line)

\* A file of the lines of the pool.
FromPool(d) == Written(d) /\ d.edges \in Seq(Pool)

\* The marks are no names; what a review decides is not also the operator's reopening.
LineBounds == NoState \notin States /\ NoGate \notin Gates
FileBounds ==
    /\ LineBounds
    /\ MaxEdges \in Nat /\ IsFiniteSet(States)
    /\ \A e \in Pool : e \in Line /\ (e.on # Unset => e.trigger # "reopen")

LEMMA LinesTyped ==
    ASSUME NEW d, Written(d)
    PROVE  /\ Len(d.edges) \in Nat /\ F!Lines(d) = 1..Len(d.edges)
           /\ \A i \in F!Lines(d) : d.edges[i] \in Line
  BY DEF Written, F!Lines

LEMMA PoolTyped ==
    ASSUME FileBounds, NEW d, FromPool(d)
    PROVE  \A i \in F!Lines(d) : d.edges[i] \in Pool /\ (d.edges[i].on # Unset => d.edges[i].trigger # "reopen")
<1>1. \A i \in F!Lines(d) : d.edges[i] \in Pool
  BY DEF FromPool, F!Lines
<1> QED
  BY <1>1 DEF FileBounds

\* The edge queries of Workflow on one file.
LEMMA FromIs ==
    ASSUME NEW d, NEW s
    PROVE  /\ F!W(d)!TransitionsFrom(s) = {i \in F!Lines(d) : d.edges[i].from = s}
           /\ \A i : F!W(d)!Edge(i) = d.edges[i]
           /\ F!W(d)!IsV2(s) <=> \E i \in F!Lines(d) : d.edges[i].from = s /\ d.edges[i].on \in {"pass", "fail"}
  BY DEF F!W!TransitionsFrom, F!W!Edges, F!W!Edge, F!Lines, F!W!EdgesOn, F!W!IsV2

LEMMA EdgesOnIs ==
    ASSUME NEW d, NEW s, NEW o
    PROVE  F!W(d)!EdgesOn(s, o) = {i \in F!Lines(d) : d.edges[i].from = s /\ d.edges[i].on = o}
  BY DEF F!W!TransitionsFrom, F!W!Edges, F!W!Edge, F!Lines, F!W!EdgesOn

LEMMA PicksLast ==
    ASSUME NEW d, Written(d), NEW S \in SUBSET F!Lines(d), S # {}
    PROVE  F!W(d)!LastOf(S) \in S
<1>1. Len(d.edges) \in Nat /\ F!Lines(d) = 1..Len(d.edges)
  BY LinesTyped
<1>0. \A n \in Nat : 1..n \subseteq 0..n
  OBVIOUS
<1>2. \E i \in S : \A j \in S : j <= i
  <2> DEFINE n == Len(d.edges)
  <2>1. n \in Nat /\ S \in SUBSET (0..n)
    BY <1>0, <1>1
  <2> HIDE DEF n
  <2> QED
    BY <2>1, LastExists
<1> QED
  BY <1>2 DEF F!W!LastOf

LEMMA PicksFirst ==
    ASSUME NEW d, Written(d), NEW S \in SUBSET F!Lines(d), S # {}
    PROVE  F!W(d)!FirstOf(S) \in S
<1>1. S \in SUBSET Nat
  <2>1. Len(d.edges) \in Nat /\ F!Lines(d) = 1..Len(d.edges)
    BY LinesTyped
  <2>2. \A n \in Nat : 1..n \subseteq Nat
    OBVIOUS
  <2> QED
    BY <2>1, <2>2
<1>2. \E i \in S : \A j \in S : i <= j
  BY <1>1, LeastExists
<1> QED
  BY <1>2 DEF F!W!FirstOf

\* In a file that validates, a reviewed state has an edge for each outcome, which the commands
\* find.
LEMMA Reviewed2 ==
    ASSUME NEW d, Written(d), F!Validates(d), NEW s, F!W(d)!IsV2(s)
    PROVE  /\ \E p \in F!Lines(d) : d.edges[p].from = s /\ d.edges[p].on = "pass"
                                    /\ F!W(d)!PassTo(s) = d.edges[p].to
           /\ \E f \in F!Lines(d) : d.edges[f].from = s /\ d.edges[f].on = "fail"
                                    /\ F!W(d)!FailEdge(s) = d.edges[f]
<1>1. F!Paired(d)
  BY DEF F!Validates
<1>2. PICK k \in F!Lines(d) : d.edges[k].from = s /\ d.edges[k].on \in {"pass", "fail"}
  BY FromIs
<1>3. \A t : (\E p \in F!Lines(d) : d.edges[p].from = t /\ d.edges[p].on = "pass")
             <=> (\E p \in F!Lines(d) : d.edges[p].from = t /\ d.edges[p].on = "fail")
  BY <1>1 DEF F!Paired
<1>0. /\ F!W(d)!EdgesOn(s, "pass") = {i \in F!Lines(d) : d.edges[i].from = s /\ d.edges[i].on = "pass"}
      /\ F!W(d)!EdgesOn(s, "fail") = {i \in F!Lines(d) : d.edges[i].from = s /\ d.edges[i].on = "fail"}
  BY EdgesOnIs
<1>4. F!W(d)!EdgesOn(s, "pass") # {} /\ F!W(d)!EdgesOn(s, "fail") # {}
  BY <1>0, <1>2, <1>3
<1>5. F!W(d)!EdgesOn(s, "pass") \in SUBSET F!Lines(d) /\ F!W(d)!EdgesOn(s, "fail") \in SUBSET F!Lines(d)
  BY <1>0
<1>6. F!W(d)!LastOf(F!W(d)!EdgesOn(s, "pass")) \in F!W(d)!EdgesOn(s, "pass")
  BY <1>4, <1>5, PicksLast
<1>7. F!W(d)!LastOf(F!W(d)!EdgesOn(s, "fail")) \in F!W(d)!EdgesOn(s, "fail")
  BY <1>4, <1>5, PicksLast
<1>8. F!W(d)!PassTo(s) = d.edges[F!W(d)!LastOf(F!W(d)!EdgesOn(s, "pass"))].to
  BY FromIs DEF F!W!PassTo
<1>9. F!W(d)!FailEdge(s) = d.edges[F!W(d)!LastOf(F!W(d)!EdgesOn(s, "fail"))]
  BY FromIs DEF F!W!FailEdge
<1> QED
  BY <1>0, <1>6, <1>7, <1>8, <1>9

\* A gated edge and a checkpoint are edges out of the state.
LEMMA GatedLine ==
    ASSUME NEW d, Written(d), NEW s, NEW g, F!W(d)!HasGatedEdge(s, g)
    PROVE  \E i \in F!Lines(d) : d.edges[i].from = s /\ d.edges[i].on = Unset /\ d.edges[i].trigger = Unset
                                 /\ d.edges[i].gate = g
                                 /\ F!W(d)!GatedTo(s, g) = d.edges[i].to
<1>1. F!W(d)!GatedEdges(s, g) \in SUBSET F!Lines(d) /\ F!W(d)!GatedEdges(s, g) # {}
  BY DEF F!W!HasGatedEdge, F!W!GatedEdges, F!W!TransitionsFrom, F!W!Edges, F!W!Edge, F!Lines
<1>2. F!W(d)!FirstOf(F!W(d)!GatedEdges(s, g)) \in F!W(d)!GatedEdges(s, g)
  BY <1>1, PicksFirst
<1> QED
  BY <1>2, Zenon DEF Unset, F!W!GatedTo, F!W!GatedEdges, F!W!TransitionsFrom, F!W!Edges, F!W!Edge, F!Lines

LEMMA CheckpointLine ==
    ASSUME NEW d, Written(d), NEW s, F!W(d)!HasCheckpoint(s)
    PROVE  \E i \in F!Lines(d) : d.edges[i].from = s /\ d.edges[i].trigger = "checkpoint"
                                 /\ d.edges[i].gate = NoGate /\ F!W(d)!CheckpointTo(s) = d.edges[i].to
<1>1. Cardinality(F!W(d)!CheckpointEdges(s)) = 1
  BY DEF F!W!HasCheckpoint, F!W!Cardinality, Cardinality
<1>2. F!W(d)!CheckpointEdges(s) # {}
  BY <1>1, FS_EmptySet
<1> QED
  BY <1>2 DEF F!W!CheckpointTo, F!W!CheckpointEdges, F!W!TransitionsFrom, F!W!Edges, F!W!Edge, F!Lines

-----------------------------------------------------------------------------
(* What leads where.                                                       *)

\* after, as far as it is looked at.
After(d, x, a) == a = [n \in 0..Len(d.edges) |-> IF n = 0 THEN {x} ELSE F!Beyond(d, a[n - 1])]

LEMMA AfterExists ==
    ASSUME NEW d, NEW x, Len(d.edges) \in Nat
    PROVE  \E a : After(d, x, a)
<1> DEFINE Upto(m, a) == a = [n \in 0..m |-> IF n = 0 THEN {x} ELSE F!Beyond(d, a[n - 1])]
           Missing == {m \in Nat : ~ \E a : Upto(m, a)}
<1>1. Missing = {}
  <2> SUFFICES ASSUME Missing # {} PROVE FALSE
    OBVIOUS
  <2>1. PICK m \in Missing : \A k \in Missing : m <= k
    <3>1. Missing \in SUBSET Nat
      OBVIOUS
    <3> HIDE DEF Missing
    <3> QED
      BY <3>1, LeastExists
  <2>2. m \in Nat /\ m # 0
    <3>1. ASSUME m = 0 PROVE FALSE
      <4>1. Upto(0, [n \in 0..0 |-> {x}])
        OBVIOUS
      <4> QED
        BY <4>1, <3>1
    <3> QED
      BY <3>1
  <2>3. m - 1 \in Nat /\ m - 1 \notin Missing
    <3> HIDE DEF Missing
    <3> QED
      BY <2>1, <2>2
  <2>4. PICK a : Upto(m - 1, a)
    BY <2>3
  <2> DEFINE b == [n \in 0..m |-> IF n = 0 THEN {x} ELSE F!Beyond(d, a[n - 1])]
  <2>5. \A n \in 0..m - 1 : n \in 0..m /\ a[n] = IF n = 0 THEN {x} ELSE F!Beyond(d, a[n - 1])
    <3>1. \A n \in 0..m - 1 : n \in 0..m
      BY <2>2
    <3> QED
      BY <2>4, <3>1
  <2>6. \A n \in 0..m - 1 : b[n] = a[n]
    BY <2>5
  <2>7. \A n \in 0..m : n # 0 => n - 1 \in 0..m - 1
    BY <2>2
  <2>8. b = [n \in 0..m |-> IF n = 0 THEN {x} ELSE F!Beyond(d, b[n - 1])]
    <3>1. \A n \in 0..m : n # 0 => a[n - 1] = b[n - 1]
      <4> HIDE DEF b
      <4> QED
        BY <2>6, <2>7
    <3>2. b = [n \in 0..m |-> IF n = 0 THEN {x} ELSE F!Beyond(d, a[n - 1])]
      OBVIOUS
    <3> HIDE DEF b
    <3>3. \A n \in 0..m : (IF n = 0 THEN {x} ELSE F!Beyond(d, a[n - 1]))
                           = (IF n = 0 THEN {x} ELSE F!Beyond(d, b[n - 1]))
      BY <3>1
    <3> QED
      BY <3>2, <3>3
  <2>9. Upto(m, b)
    BY <2>8
  <2> HIDE DEF b
  <2> QED
    BY <2>1, <2>9
<1> QED
  BY <1>1 DEF After

LEMMA ReachesAfter ==
    ASSUME NEW d, NEW x, Len(d.edges) \in Nat
    PROVE  \E a : After(d, x, a) /\ \A y : F!Reaches(d, x, y) <=> y \in a[Len(d.edges)]
<1> DEFINE a == CHOOSE a : After(d, x, a)
<1>1. After(d, x, a)
  BY AfterExists
<1>2. \A y : F!Reaches(d, x, y) <=> y \in a[Len(d.edges)]
  BY DEF F!Reaches, After
<1> QED
  BY <1>1, <1>2

\* A set of states that no edge leaves.
Closed(d, C) == \A i \in F!Lines(d) : d.edges[i].from \in C => d.edges[i].to \in C

LEMMA BeyondIs ==
    ASSUME NEW d, NEW S
    PROVE  \A y : y \in F!Beyond(d, S) <=>
                    y \in S \/ \E i \in F!Lines(d) : d.edges[i].from \in S /\ d.edges[i].to = y
  BY DEF F!Beyond

\* What is looked at grows.
LEMMA AfterGrows ==
    ASSUME NEW d, NEW x, Len(d.edges) \in Nat, NEW a, After(d, x, a)
    PROVE  /\ a[0] = {x}
           /\ \A n \in 0..Len(d.edges) : n # 0 => a[n] = F!Beyond(d, a[n - 1])
           /\ \A m, n \in 0..Len(d.edges) : m <= n => a[m] \subseteq a[n]
<1> DEFINE L == Len(d.edges)
<1>1. a[0] = {x} /\ \A n \in 0..L : n # 0 => a[n] = F!Beyond(d, a[n - 1])
  <2>1. \A n \in 0..L : a[n] = IF n = 0 THEN {x} ELSE F!Beyond(d, a[n - 1])
    BY Zenon DEF After
  <2>2. 0 \in 0..L
    OBVIOUS
  <2> HIDE DEF L
  <2> QED
    BY <2>1, <2>2
<1>2. ASSUME NEW m \in 0..L PROVE \A n \in 0..L : m <= n => a[m] \subseteq a[n]
  <2> DEFINE Missing == {n \in Nat : n <= L /\ m <= n /\ ~ (a[m] \subseteq a[n])}
  <2>1. Missing = {}
    <3> SUFFICES ASSUME Missing # {} PROVE FALSE
      OBVIOUS
    <3>1. PICK n \in Missing : \A k \in Missing : n <= k
      <4>1. Missing \in SUBSET Nat
        OBVIOUS
      <4> HIDE DEF Missing
      <4> QED
        BY <4>1, LeastExists
    <3>2. n \in Nat /\ n <= L /\ m <= n /\ n # m /\ m \in Nat
      OBVIOUS
    <3>3. n - 1 \in Nat /\ m <= n - 1 /\ n - 1 <= L /\ n - 1 \notin Missing
      BY <3>1, <3>2
    <3>4. a[m] \subseteq a[n - 1]
      BY <3>3
    <3>5. a[n - 1] \subseteq a[n]
      BY <1>1, <3>2, BeyondIs
    <3> QED
      BY <3>4, <3>5
  <2> QED
    BY <2>1
<1> QED
  BY <1>1, <1>2

\* It stops growing: each time it grows, a line is used for the first time.
LEMMA AfterSettles ==
    ASSUME NEW d, NEW x, Len(d.edges) \in Nat, F!Lines(d) = 1..Len(d.edges), NEW a, After(d, x, a)
    PROVE  Closed(d, a[Len(d.edges)])
<1> DEFINE L == Len(d.edges)
           New(n, i) == d.edges[i].from \in a[n] /\ d.edges[i].to \notin a[n]
           Still == {n \in Nat : n <= L /\ ~ \E i \in 1..L : New(L - n, i)}
<1>1. /\ a[0] = {x}
      /\ \A n \in 0..L : n # 0 => a[n] = F!Beyond(d, a[n - 1])
      /\ \A m, n \in 0..L : m <= n => a[m] \subseteq a[n]
  BY AfterGrows
<1>2. L \in Nat
  OBVIOUS
<1> SUFFICES ASSUME ~ Closed(d, a[L]) PROVE FALSE
  OBVIOUS
<1>3. \E i \in 1..L : New(L, i)
  BY DEF Closed
<1>4. Still = {}
  <2> SUFFICES ASSUME Still # {} PROVE FALSE
    OBVIOUS
  <2>1. PICK m \in Still : \A k \in Still : m <= k
    <3>1. Still \in SUBSET Nat
      OBVIOUS
    <3> HIDE DEF Still
    <3> QED
      BY <3>1, LeastExists
  <2>2. m \in Nat /\ m <= L /\ ~ \E i \in 1..L : New(L - m, i)
    OBVIOUS
  <2>3. m # 0
    <3> HIDE DEF New, L
    <3> QED
      BY <1>2, <1>3, <2>2
  <2>4. m - 1 \in Nat /\ m - 1 <= L /\ m - 1 \notin Still
    <3> HIDE DEF Still, L
    <3> QED
      BY <1>2, <2>1, <2>2, <2>3
  <2>5. PICK i \in 1..L : New(L - (m - 1), i)
    BY <2>4
  <2> DEFINE n == L - m
  <2>6. n \in 0..L /\ n + 1 \in 0..L /\ n + 1 = L - (m - 1) /\ (n + 1) - 1 = n /\ n + 1 # 0
    <3> HIDE DEF L
    <3> QED
      BY <1>2, <2>2, <2>3
  <2>7. a[n + 1] = F!Beyond(d, a[n])
    <3> HIDE DEF n, L
    <3> QED
      BY <1>1, <2>6
  <2>8. d.edges[i].from \in a[n + 1] /\ d.edges[i].to \notin a[n + 1]
    <3> HIDE DEF n, L
    <3> QED
      BY <2>5, <2>6
  <2>9. \A y : y \in a[n + 1] <=> y \in a[n] \/ \E j \in 1..L : d.edges[j].from \in a[n] /\ d.edges[j].to = y
    <3> HIDE DEF n
    <3> QED
      BY <2>7, BeyondIs
  <2>10. d.edges[i].from \notin a[n]
    <3> HIDE DEF n, L
    <3> QED
      BY <2>8, <2>9
  <2>11. PICK j \in 1..L : d.edges[j].from \in a[n] /\ d.edges[j].to = d.edges[i].from
    <3> HIDE DEF n, L
    <3> QED
      BY <2>8, <2>9, <2>10
  <2>12. New(n, j)
    BY <2>10, <2>11
  <2> QED
    BY <2>2, <2>12
<1>5. \A n \in 0..L : \E i \in 1..L : New(n, i)
  <2> SUFFICES ASSUME NEW n \in 0..L PROVE \E i \in 1..L : New(n, i)
    OBVIOUS
  <2>1. L - n \in Nat /\ L - n <= L /\ L - (L - n) = n
    OBVIOUS
  <2>2. L - n \notin Still
    BY <1>4
  <2> QED
    BY <2>1, <2>2
<1> DEFINE h == [n \in 0..L |-> CHOOSE i \in 1..L : New(n, i)]
<1>6. h \in [0..L -> 1..L] /\ \A n \in 0..L : New(n, h[n])
  <2> HIDE DEF New
  <2> QED
    BY <1>5
<1>7. /\ IsFiniteSet(0..L) /\ IsFiniteSet(1..L)
      /\ Cardinality(1..L) < Cardinality(0..L)
  <2> HIDE DEF L
  <2>1. 0 \in Int /\ 1 \in Int /\ L \in Int
    BY <1>2
  <2>2. IsFiniteSet(0..L) /\ Cardinality(0..L) = IF 0 > L THEN 0 ELSE L - 0 + 1
    BY <2>1, FS_Interval
  <2>3. IsFiniteSet(1..L) /\ Cardinality(1..L) = IF 1 > L THEN 0 ELSE L - 1 + 1
    BY <2>1, FS_Interval
  <2> QED
    BY <1>2, <2>2, <2>3
<1>8. PICK m, n \in 0..L : m # n /\ h[m] = h[n]
  <2> HIDE DEF h, L
  <2> QED
    BY <1>6, <1>7, FS_PigeonHole
<1>9. \A k, l \in 0..L : k < l /\ h[k] = h[l] => FALSE
  <2> SUFFICES ASSUME NEW k \in 0..L, NEW l \in 0..L, k < l, h[k] = h[l] PROVE FALSE
    OBVIOUS
  <2>1. New(k, h[k]) /\ New(l, h[k]) /\ h[k] \in 1..L
    <3> HIDE DEF h, New
    <3> QED
      BY <1>6
  <2>2. k + 1 \in 0..L /\ (k + 1) - 1 = k /\ k + 1 # 0 /\ k + 1 <= l
    OBVIOUS
  <2>3. a[k + 1] = F!Beyond(d, a[k]) /\ a[k + 1] \subseteq a[l]
    <3> HIDE DEF h, L
    <3> QED
      BY <1>1, <2>2
  <2> DEFINE i == h[k]
  <2>4. d.edges[i].from \in a[k] /\ d.edges[i].to \notin a[l] /\ i \in F!Lines(d)
    BY <2>1
  <2> HIDE DEF h, i
  <2>5. d.edges[i].to \in F!Beyond(d, a[k])
    BY <2>4, BeyondIs
  <2> QED
    BY <2>3, <2>4, <2>5
<1>10. m < n \/ n < m
  BY <1>8
<1> HIDE DEF h
<1> QED
  BY <1>8, <1>9, <1>10

\* Nothing is looked at that a set without a way out keeps off.
LEMMA AfterWithin ==
    ASSUME NEW d, NEW x, Len(d.edges) \in Nat, F!Lines(d) = 1..Len(d.edges), NEW a, After(d, x, a),
           NEW C, Closed(d, C), x \in C
    PROVE  a[Len(d.edges)] \subseteq C
<1> DEFINE L == Len(d.edges)
           Out == {n \in Nat : n <= L /\ ~ (a[n] \subseteq C)}
<1>1. /\ a[0] = {x}
      /\ \A n \in 0..L : n # 0 => a[n] = F!Beyond(d, a[n - 1])
  BY AfterGrows
<1>2. Out = {}
  <2> SUFFICES ASSUME Out # {} PROVE FALSE
    OBVIOUS
  <2>1. PICK n \in Out : \A k \in Out : n <= k
    <3>1. Out \in SUBSET Nat
      OBVIOUS
    <3> HIDE DEF Out
    <3> QED
      BY <3>1, LeastExists
  <2>2. n \in Nat /\ n <= L /\ ~ (a[n] \subseteq C) /\ n # 0
    BY <1>1
  <2>3. n - 1 \in Nat /\ n - 1 <= L /\ n - 1 \notin Out /\ n \in 0..L
    BY <2>1, <2>2
  <2>4. a[n - 1] \subseteq C
    BY <2>3
  <2>5. a[n] = F!Beyond(d, a[n - 1])
    BY <1>1, <2>2, <2>3
  <2>6. a[n] \subseteq C
    BY <2>4, <2>5, BeyondIs DEF Closed
  <2> QED
    BY <2>2, <2>6
<1> QED
  BY <1>2

\* What a state reaches is the least set that contains it and that no edge leaves.
LEMMA ReachIs ==
    ASSUME NEW d, Written(d), NEW x
    PROVE  /\ F!Reaches(d, x, x)
           /\ \A i \in F!Lines(d) : \A y :
                 d.edges[i].from = x /\ F!Reaches(d, d.edges[i].to, y) => F!Reaches(d, x, y)
<1>1. Len(d.edges) \in Nat /\ F!Lines(d) = 1..Len(d.edges)
  BY LinesTyped
<1>2. PICK a : After(d, x, a) /\ \A y : F!Reaches(d, x, y) <=> y \in a[Len(d.edges)]
  BY <1>1, ReachesAfter
<1>3. Closed(d, a[Len(d.edges)])
  BY <1>1, <1>2, AfterSettles
<1>4. x \in a[Len(d.edges)]
  <2>1. \A n \in Nat : 0 \in 0..n /\ n \in 0..n /\ 0 <= n
    OBVIOUS
  <2> QED
    BY <1>1, <1>2, <2>1, AfterGrows
<1>5. ASSUME NEW i \in F!Lines(d), NEW y, d.edges[i].from = x, F!Reaches(d, d.edges[i].to, y)
      PROVE  F!Reaches(d, x, y)
  <2>1. PICK b : After(d, d.edges[i].to, b) /\ \A z : F!Reaches(d, d.edges[i].to, z) <=> z \in b[Len(d.edges)]
    BY <1>1, ReachesAfter
  <2>2. d.edges[i].to \in a[Len(d.edges)]
    BY <1>3, <1>4, <1>5 DEF Closed
  <2>3. b[Len(d.edges)] \subseteq a[Len(d.edges)]
    <3> DEFINE t == d.edges[i].to
               C == a[Len(d.edges)]
    <3>1. After(d, t, b) /\ Closed(d, C) /\ t \in C
      BY <1>3, <2>1, <2>2
    <3> HIDE DEF t, C
    <3>2. b[Len(d.edges)] \subseteq C
      BY <1>1, <3>1, AfterWithin
    <3> QED
      BY <3>2 DEF C
  <2> QED
    BY <1>2, <1>5, <2>1, <2>3
<1> QED
  BY <1>2, <1>4, <1>5

-----------------------------------------------------------------------------
(* A story under an accepted file.                                         *)

\* In a state at st under the file d, the rejects r of a state stay below its bound, and one
\* without a bound that has rejected is not reached again.
Spared(d, st, r, s) ==
    F!W(d)!IsV2(s) =>
        IF F!W(d)!FailEdge(s).max = 0
        THEN r[s] = 0 \/ (r[s] = 1 /\ ~ F!Reaches(d, st, s))
        ELSE r[s] <= F!W(d)!FailEdge(s).max - 1

\* A copy of a file that validates, with two lines swapped or one replaced.
PinnedFrom(c, d) ==
    /\ FromPool(c) /\ c.states = d.states /\ F!Validates(d)
    /\ \/ \E i, j \in F!Lines(d) : c.edges = [d.edges EXCEPT ![i] = d.edges[j], ![j] = d.edges[i]]
       \/ \E i \in F!Lines(d) : \E e \in Pool : c.edges = [d.edges EXCEPT ![i] = e]

\* A pinned copy is one of the file, unless lines were added to the file since.
CopyFits ==
    \/ copy = F!Blank
    \/ FromPool(copy) /\ Len(copy.edges) < Len(draft.edges)
    \/ PinnedFrom(copy, draft)

FileInv ==
    /\ FromPool(draft) /\ Len(draft.edges) <= MaxEdges
    /\ CopyFits
    /\ rejects \in [States -> Nat]
    /\ status # NoState => status \in States /\ F!Accepted(draft)
    /\ status # NoState => \A s \in States : Spared(draft, status, rejects, s)
    /\ status = NoState => last = "start" /\ \A s \in States : rejects[s] = 0
    /\ last \in {"start", "edge", "reopen"}
    /\ last = "edge" => status \in F!Entered(draft)

LEMMA FileInit == FileBounds /\ F!Init => FileInv
<1> SUFFICES ASSUME FileBounds, F!Init PROVE FileInv
  OBVIOUS
<1>1. F!Cardinality(States) \in Nat
  BY FS_CardinalityType DEF FileBounds, F!Cardinality, Cardinality
<1>2. PICK o \in [1..F!Cardinality(States) -> States] : draft = [states |-> o, edges |-> <<>>]
  BY DEF F!Init
<1>3. o \in Seq(States)
  BY <1>1, <1>2
<1>4. draft.states = o /\ draft.edges = <<>> /\ Len(draft.edges) = 0 /\ draft.edges \in Seq(Pool)
  BY <1>2
<1>5. FromPool(draft) /\ Len(draft.edges) <= MaxEdges
  <2>1. draft = [states |-> draft.states, edges |-> draft.edges]
    BY <1>2
  <2>2. Len(draft.edges) <= MaxEdges
    <3>1. Len(draft.edges) = 0 /\ MaxEdges \in Nat
      BY <1>4 DEF FileBounds
    <3>2. \A n \in Nat : 0 <= n
      OBVIOUS
    <3> QED
      BY <3>1, <3>2
  <2> QED
    BY <1>3, <1>4, <2>1, <2>2 DEF Written, FromPool
<1> QED
  BY <1>5, UnsetIs DEF FileInv, F!Init, CopyFits, FileBounds, LineBounds

\* A story starts in a declared state.
LEMMA StartsInState ==
    ASSUME NEW d, Written(d), F!Validates(d)
    PROVE  /\ F!InitialState(d) \in States
           /\ F!Declared(d) \subseteq States
           /\ F!InitialState(d) \in F!Entered(d) => F!Declared(d) \subseteq F!Entered(d)
<1>1. d.states \in Seq(States) /\ d.states # <<>>
  BY DEF Written, F!Validates
<1>2. Len(d.states) \in Nat /\ DOMAIN d.states = 1..Len(d.states) /\ 1 \in DOMAIN d.states
      /\ \A i \in DOMAIN d.states : d.states[i] \in States
  BY <1>1
<1> DEFINE entries == {i \in DOMAIN d.states : d.states[i] \notin F!Entered(d)}
<1>3. CASE entries = {}
  <2>1. F!InitialState(d) = d.states[1]
    BY <1>3 DEF F!InitialState
  <2> QED
    BY <1>2, <1>3, <2>1 DEF F!Declared
<1>4. CASE entries # {}
  <2>1. \A n \in Nat : 1..n \subseteq Nat
    OBVIOUS
  <2>2. entries \in SUBSET Nat
    BY <1>2, <2>1
  <2>3. \E i \in entries : \A j \in entries : i <= j
    <3> HIDE DEF entries
    <3> QED
      BY <1>4, <2>2, LeastExists
  <2>4. \E i \in entries : F!InitialState(d) = d.states[i]
    BY <1>4, <2>3 DEF F!InitialState
  <2> QED
    BY <1>2, <2>4 DEF F!Declared
<1> QED
  BY <1>3, <1>4

\* What a line leads into, unless it is the operator's.
LEMMA LineEnters ==
    ASSUME NEW d, NEW i \in F!Lines(d), d.edges[i].trigger # "reopen"
    PROVE  d.edges[i].to \in F!Entered(d) /\ d.edges[i].exhausted \in F!Entered(d)
  BY DEF F!Entered

\* A story follows a line.
LEMMA Follows ==
    ASSUME FileBounds, FileInv, status # NoState, NEW i \in F!Lines(draft),
           draft.edges[i].from = status, status' = draft.edges[i].to,
           UNCHANGED <<draft, copy, rejects>>,
           \/ last' = "reopen"
           \/ last' = "edge" /\ draft.edges[i].trigger # "reopen"
    PROVE  FileInv'
<1>1. Written(draft) /\ draft.edges[i].to \in States
  BY LinesTyped DEF FileInv, FromPool, Line
<1>2. status' \in States /\ status' # NoState
  BY <1>1 DEF FileBounds, LineBounds
<1>3. \A s \in States : Spared(draft, status', rejects, s)
  <2> SUFFICES ASSUME NEW s \in States PROVE Spared(draft, status', rejects, s)
    OBVIOUS
  <2>1. Spared(draft, status, rejects, s)
    BY DEF FileInv
  <2>2. F!Reaches(draft, status', s) => F!Reaches(draft, status, s)
    BY <1>1, ReachIs
  <2> QED
    BY <2>1, <2>2 DEF Spared
<1>4. last' = "edge" => status' \in F!Entered(draft)
  BY LineEnters
<1>5. last' \in {"start", "edge", "reopen"}
  OBVIOUS
<1>6. CopyFits'
  BY DEF FileInv, CopyFits
<1>7. draft' = draft /\ rejects' = rejects
  OBVIOUS
<1> QED
  BY <1>2, <1>3, <1>4, <1>5, <1>6, <1>7 DEF FileInv

\* Counts that start afresh are below every bound.
LEMMA FreshSpared ==
    ASSUME NEW d, Written(d), F!Validates(d), NEW st, NEW r, NEW s, r[s] = 0
    PROVE  Spared(d, st, r, s)
<1> SUFFICES ASSUME F!W(d)!IsV2(s), F!W(d)!FailEdge(s).max # 0
             PROVE  r[s] <= F!W(d)!FailEdge(s).max - 1
  BY DEF Spared
<1> DEFINE m == F!W(d)!FailEdge(s).max
<1>1. PICK k \in F!Lines(d) : F!W(d)!FailEdge(s) = d.edges[k]
  BY Reviewed2
<1>2. d.edges[k] \in Line
  BY LinesTyped
<1>3. m \in Nat /\ m # 0
  BY <1>1, <1>2 DEF Line
<1> HIDE DEF m
<1>4. r[s] <= m - 1
  BY <1>3
<1> QED
  BY <1>4 DEF m

LEMMA FailKeeps == FileBounds /\ FileInv /\ status # NoState /\ F!Fail => FileInv'
<1> SUFFICES ASSUME FileBounds, FileInv, status # NoState, F!Fail PROVE FileInv'
  OBVIOUS
<1>1. FromPool(draft) /\ Written(draft) /\ F!Validates(draft) /\ status \in States /\ F!W(draft)!IsV2(status)
      /\ rejects \in [States -> Nat]
  BY DEF FileInv, FromPool, F!Fail, F!Accepted
<1> DEFINE e == F!W(draft)!FailEdge(status)
           spent == e.max > 0 /\ rejects[status] + 1 >= e.max
<1>2. PICK f \in F!Lines(draft) : draft.edges[f].from = status /\ draft.edges[f].on = "fail" /\ e = draft.edges[f]
  BY <1>1, Reviewed2
<1>3. e \in Line /\ e.trigger # "reopen" /\ e.max \in Nat /\ e.to \in States
      /\ (e.max > 0 => e.exhausted \in States)
  <2>1. e \in Line /\ e.trigger # "reopen"
    BY <1>1, <1>2, LinesTyped, PoolTyped, UnsetIs
  <2>2. F!Validates(draft) => (e.max > 0 => e.exhausted # NoState)
    BY <1>2 DEF F!Validates
  <2> HIDE DEF e
  <2> QED
    BY <1>1, <2>1, <2>2 DEF Line
<1>4. /\ status' = IF spent THEN e.exhausted ELSE e.to
      /\ last' = "edge"
      /\ rejects' = IF spent THEN [s \in States |-> 0] ELSE [rejects EXCEPT ![status] = @ + 1]
      /\ draft' = draft /\ copy' = copy
  BY DEF F!Fail, F!MoveTo
<1>5. e.to \in F!Entered(draft) /\ e.exhausted \in F!Entered(draft)
  BY <1>2, <1>3, LineEnters
<1>6. CopyFits'
  BY <1>4 DEF FileInv, CopyFits
<1>7. Spared(draft, status, rejects, status) /\ \A s \in States : Spared(draft, status, rejects, s)
  BY <1>1 DEF FileInv
<1>8. \A s \in States : Spared(draft, status', rejects', s)
  <2> SUFFICES ASSUME NEW s \in States PROVE Spared(draft, status', rejects', s)
    OBVIOUS
  <2>1. CASE spent
    <3>1. rejects'[s] = 0
      BY <1>4, <2>1
    <3> QED
      BY <1>1, <3>1, FreshSpared
  <2>2. CASE ~ spent /\ s # status
    <3>1. rejects'[s] = rejects[s] /\ status' = e.to
      <4> HIDE DEF e
      <4> QED
        BY <1>1, <1>4, <2>2
    <3>2. F!Reaches(draft, status', s) => F!Reaches(draft, status, s)
      BY <1>1, <1>2, <3>1, ReachIs
    <3>3. Spared(draft, status, rejects, s)
      BY <1>7
    <3> QED
      BY <3>1, <3>2, <3>3 DEF Spared
  <2>3. CASE ~ spent /\ s = status /\ e.max > 0
    <3>1. rejects'[s] = rejects[s] + 1 /\ rejects[s] \in Nat /\ rejects[s] + 1 < e.max
      <4> HIDE DEF e
      <4> QED
        BY <1>1, <1>3, <1>4, <2>3
    <3>2. F!W(draft)!FailEdge(s).max \in Nat /\ F!W(draft)!FailEdge(s).max # 0
          /\ rejects'[s] <= F!W(draft)!FailEdge(s).max - 1
      BY <1>3, <2>3, <3>1
    <3> QED
      BY <3>2 DEF Spared
  <2>4. CASE ~ spent /\ s = status /\ e.max = 0
    <3>1. F!Reaches(draft, status, s)
      BY <1>1, <2>4, ReachIs
    <3>2. rejects[s] = 0
      BY <1>1, <1>7, <2>4, <3>1 DEF Spared
    <3>3. rejects'[s] = 1 /\ status' = e.to
      <4> HIDE DEF e
      <4> QED
        BY <1>1, <1>4, <2>4, <3>2
    <3>4. F!LoopsBounded(draft)
      BY <1>1 DEF F!Validates
    <3>5. ~ F!Reaches(draft, draft.edges[f].to, draft.edges[f].from)
      BY <1>2, <2>4, <3>4 DEF F!LoopsBounded
    <3>6. ~ F!Reaches(draft, status', s)
      BY <1>2, <2>4, <3>3, <3>5
    <3> QED
      BY <2>4, <3>3, <3>6 DEF Spared
  <2>5. e.max = 0 \/ e.max > 0
    <3> HIDE DEF e
    <3> QED
      BY <1>3
  <2> QED
    BY <2>1, <2>2, <2>3, <2>4, <2>5
<1>9. rejects' \in [States -> Nat]
  <2> HIDE DEF spent
  <2> QED
    BY <1>1, <1>4
<1>10. status' \in States /\ status' # NoState /\ status' \in F!Entered(draft)
  <2> HIDE DEF e
  <2> QED
    BY <1>3, <1>4, <1>5 DEF FileBounds, LineBounds
<1> HIDE DEF e, spent
<1> QED
  BY <1>4, <1>6, <1>8, <1>9, <1>10 DEF FileInv

LEMMA MovesKeep == FileBounds /\ FileInv /\ F!Moves => FileInv'
<1> SUFFICES ASSUME FileBounds, FileInv, F!Moves PROVE FileInv'
  OBVIOUS
<1>1. FromPool(draft) /\ Written(draft) /\ F!Validates(draft) /\ status \in States /\ status # NoState
  BY DEF FileInv, FromPool, F!Moves, F!Accepted
<1>2. CASE F!Pass
  <2>1. PICK p \in F!Lines(draft) : draft.edges[p].from = status /\ draft.edges[p].on = "pass"
                                    /\ F!W(draft)!PassTo(status) = draft.edges[p].to
    BY <1>1, <1>2, Reviewed2 DEF F!Pass
  <2>2. draft.edges[p].trigger # "reopen"
    BY <1>1, <2>1, PoolTyped, UnsetIs
  <2>3. status' = draft.edges[p].to /\ last' = "edge" /\ UNCHANGED <<draft, copy, rejects>>
    BY <1>2, <2>1 DEF F!Pass, F!MoveTo
  <2> QED
    BY <1>1, <2>1, <2>2, <2>3, Follows
<1>3. CASE F!Fail
  BY <1>1, <1>3, FailKeeps
<1>4. CASE F!Gated
  <2>1. PICK g \in Gates : F!W(draft)!HasGatedEdge(status, g) /\ F!MoveTo(F!W(draft)!GatedTo(status, g), "edge")
    BY <1>4 DEF F!Gated
  <2>2. PICK i \in F!Lines(draft) : draft.edges[i].from = status /\ draft.edges[i].on = Unset
                                    /\ draft.edges[i].trigger = Unset
                                    /\ F!W(draft)!GatedTo(status, g) = draft.edges[i].to
    <3>1. F!W(draft)!HasGatedEdge(status, g) /\ Written(draft)
      BY <1>1, <2>1
    <3> QED
      BY <3>1, GatedLine
  <2>3. status' = draft.edges[i].to /\ last' = "edge" /\ UNCHANGED <<draft, copy, rejects>>
    BY <1>4, <2>1, <2>2 DEF F!Gated, F!MoveTo
  <2>4. draft.edges[i].trigger # "reopen"
    BY <2>2, UnsetIs
  <2> QED
    BY <1>1, <2>2, <2>3, <2>4, Follows
<1>5. CASE F!Checkpoint
  <2>1. PICK i \in F!Lines(draft) : draft.edges[i].from = status /\ draft.edges[i].trigger = "checkpoint"
                                    /\ F!W(draft)!CheckpointTo(status) = draft.edges[i].to
    BY <1>1, <1>5, CheckpointLine DEF F!Checkpoint
  <2>2. status' = draft.edges[i].to /\ last' = "edge" /\ UNCHANGED <<draft, copy, rejects>>
    BY <1>5, <2>1 DEF F!Checkpoint, F!MoveTo
  <2> QED
    BY <1>1, <2>1, <2>2, Follows
<1>6. CASE F!SetStatus
  <2>1. PICK i \in F!W(draft)!TransitionsFrom(status) :
             F!MoveTo(draft.edges[i].to, IF draft.edges[i].trigger = "reopen" THEN "reopen" ELSE "edge")
    BY <1>6 DEF F!SetStatus
  <2>2. i \in F!Lines(draft) /\ draft.edges[i].from = status
    BY <2>1, FromIs
  <2>3. status' = draft.edges[i].to /\ UNCHANGED <<draft, copy, rejects>>
        /\ last' = IF draft.edges[i].trigger = "reopen" THEN "reopen" ELSE "edge"
    BY <1>6, <2>1 DEF F!SetStatus, F!MoveTo
  <2> QED
    BY <1>1, <2>2, <2>3, Follows
<1> QED
  BY <1>2, <1>3, <1>4, <1>5, <1>6 DEF F!Moves

LEMMA FileNext == FileBounds /\ FileInv /\ [F!Next]_F!fileVars => FileInv'
<1> SUFFICES ASSUME FileBounds, FileInv, [F!Next]_F!fileVars PROVE FileInv'
  OBVIOUS
<1>1. ASSUME UNCHANGED F!fileVars PROVE FileInv'
  <2>1. draft' = draft /\ copy' = copy /\ status' = status /\ rejects' = rejects /\ last' = last
    BY <1>1 DEF F!fileVars
  <2> QED
    BY <2>1 DEF FileInv, CopyFits
<1>2. ASSUME F!Write PROVE FileInv'
  <2>1. PICK e \in Pool : draft' = [draft EXCEPT !.edges = Append(@, e)]
    BY <1>2 DEF F!Write
  <2>2. status = NoState /\ UNCHANGED <<copy, status, rejects, last>> /\ Len(draft.edges) < MaxEdges
    BY <1>2 DEF F!Write
  <2>3. draft = [states |-> draft.states, edges |-> draft.edges] /\ draft.states \in Seq(States)
        /\ draft.edges \in Seq(Pool) /\ Pool \subseteq Line
    BY DEF FileInv, FromPool, Written, FileBounds
  <2>4. draft' = [states |-> draft.states, edges |-> Append(draft.edges, e)]
    BY <2>1, <2>3
  <2>5. Append(draft.edges, e) \in Seq(Pool) /\ Append(draft.edges, e) \in Seq(Line) /\ Len(Append(draft.edges, e)) = Len(draft.edges) + 1
        /\ Len(draft.edges) \in Nat
    BY <2>3
  <2>6. FromPool(draft') /\ Len(draft'.edges) = Len(draft.edges) + 1
    BY <2>3, <2>4, <2>5 DEF FromPool, Written
  <2>7. Len(draft'.edges) <= MaxEdges
    <3>1. MaxEdges \in Nat
      BY DEF FileBounds
    <3> QED
      BY <2>2, <2>5, <2>6, <3>1
  <2>8. CopyFits'
    <3>1. CASE copy = F!Blank
      BY <2>2, <3>1 DEF CopyFits
    <3>2. CASE FromPool(copy) /\ Len(copy.edges) < Len(draft.edges)
      <4>1. Len(copy.edges) \in Nat
        BY <3>2 DEF FromPool, Written
      <4>2. FromPool(copy') /\ Len(copy'.edges) < Len(draft'.edges)
        BY <2>2, <2>5, <2>6, <3>2, <4>1
      <4> QED
        BY <4>2 DEF CopyFits
    <3>3. CASE PinnedFrom(copy, draft)
      <4>1. FromPool(copy) /\ Len(copy.edges) = Len(draft.edges)
        <5>1. FromPool(copy)
          BY <3>3 DEF PinnedFrom
        <5>2. DOMAIN copy.edges = DOMAIN draft.edges
          BY <3>3 DEF PinnedFrom
        <5>3. copy.edges \in Seq(Pool) /\ draft.edges \in Seq(Pool)
          BY <2>3, <5>1 DEF FromPool
        <5>4. \A u, v \in Seq(Pool) : DOMAIN u = DOMAIN v => Len(u) = Len(v)
          OBVIOUS
        <5> QED
          BY <5>1, <5>2, <5>3, <5>4
      <4>2. FromPool(copy') /\ Len(copy'.edges) < Len(draft'.edges)
        BY <2>2, <2>5, <2>6, <4>1
      <4> QED
        BY <4>2 DEF CopyFits
    <3> QED
      BY <3>1, <3>2, <3>3 DEF FileInv, CopyFits
  <2>9. rejects \in [States -> Nat] /\ last = "start" /\ \A s \in States : rejects[s] = 0
    BY <2>2 DEF FileInv
  <2> QED
    BY <2>2, <2>6, <2>7, <2>8, <2>9 DEF FileInv
<1>3. ASSUME F!Pin PROVE FileInv'
  <2>1. status = NoState /\ UNCHANGED <<draft, status, rejects, last>> /\ F!Validates(draft)
    BY <1>3 DEF F!Pin, F!Accepted
  <2>2. PICK i \in F!Lines(draft), j \in F!Lines(draft) :
           \/ copy' = [draft EXCEPT !.edges[i] = draft.edges[j], !.edges[j] = draft.edges[i]]
           \/ \E e \in Pool : copy' = [draft EXCEPT !.edges[i] = e]
    BY <1>3 DEF F!Pin
  <2>3. draft = [states |-> draft.states, edges |-> draft.edges] /\ draft.states \in Seq(States)
        /\ draft.edges \in Seq(Pool) /\ Pool \subseteq Line
    BY DEF FileInv, FromPool, Written, FileBounds
  <2>4. FromPool(draft) /\ draft.edges[i] \in Pool /\ draft.edges[j] \in Pool
    BY PoolTyped DEF FileInv
  <2>5. PICK b : copy' = [states |-> draft.states, edges |-> b] /\
                 \/ b = [draft.edges EXCEPT ![i] = draft.edges[j], ![j] = draft.edges[i]]
                 \/ \E e \in Pool : b = [draft.edges EXCEPT ![i] = e]
    BY <2>2, <2>3
  <2>6. b \in Seq(Pool) /\ b \in Seq(Line)
    BY <2>3, <2>4, <2>5
  <2>7. PinnedFrom(copy', draft)
    <3>1. copy'.states = draft.states /\ copy'.edges = b /\ copy' = [states |-> copy'.states, edges |-> copy'.edges]
      BY <2>5
    <3>2. FromPool(copy')
      BY <2>3, <2>6, <3>1 DEF FromPool, Written
    <3> QED
      BY <2>1, <2>5, <3>1, <3>2 DEF PinnedFrom
  <2>8. CopyFits'
    BY <2>1, <2>7 DEF CopyFits
  <2> QED
    BY <2>1, <2>8 DEF FileInv
<1>4. ASSUME F!Start PROVE FileInv'
  <2>1. status = NoState /\ F!Accepted(draft) /\ status' = F!InitialState(draft)
        /\ UNCHANGED <<draft, copy, rejects, last>>
    BY <1>4 DEF F!Start
  <2>2. Written(draft) /\ F!Validates(draft) /\ last = "start" /\ \A s \in States : rejects[s] = 0
    BY <2>1 DEF FileInv, FromPool, F!Accepted
  <2>3. status' \in States /\ status' # NoState
    BY <2>1, <2>2, StartsInState DEF FileBounds, LineBounds
  <2>4. \A s \in States : Spared(draft, status', rejects, s)
    BY <2>2, FreshSpared
  <2>5. CopyFits'
    BY <2>1 DEF FileInv, CopyFits
  <2> QED
    BY <2>1, <2>2, <2>3, <2>4, <2>5 DEF FileInv
<1> QED
  BY <1>1, <1>2, <1>3, <1>4, MovesKeep DEF F!Next

-----------------------------------------------------------------------------
(* What the invariant says of a file.                                      *)

LEMMA SameLine == \A d : F!W(d)!Transition = Line
  BY Zenon DEF Line, Unset, F!W!Transition

LEMMA FormedIs ==
    ASSUME NEW d,
           LineBounds,
           d.edges \in Seq(F!W(d)!Transition),
           d.states # <<>>, d.states[1] \in States,
           \A i \in F!Lines(d) : /\ d.edges[i].max > 0 <=> d.edges[i].exhausted # NoState
                                 /\ d.edges[i].max > 0 => d.edges[i].on = "fail",
           \A i \in F!Lines(d) : d.edges[i].on # Unset =>
              \E p, f \in F!Lines(d) : /\ d.edges[p].from = d.edges[i].from /\ d.edges[p].on = "pass"
                                       /\ d.edges[f].from = d.edges[i].from /\ d.edges[f].on = "fail"
    PROVE  F!W(d)!WellFormed
<1>1. [s \in States |-> ""] \in [States -> F!W(d)!Actors]
  BY Zenon DEF F!W!Actors
<1>2. (IF d.states = <<>> THEN NoState ELSE d.states[1]) \in States
  OBVIOUS
<1>3. {} \subseteq {s \in States : [t \in States |-> ""][s] = "satellites"}
  BY Zenon
<1> QED
  BY <1>1, <1>2, <1>3, Zenon DEF Unset, LineBounds, F!W!WellFormed, F!W!Edge, F!W!Edges, F!Lines

LEMMA AcceptedFormed ==
    ASSUME LineBounds, NEW d, Written(d), F!Accepted(d)
    PROVE  F!W(d)!WellFormed /\ F!W(d)!TransitionsFrom(F!InitialState(d)) # {}
<1>1. F!Validates(d) /\ F!ValidateLifecycle(d)
  BY DEF F!Accepted
<1>2. d.states # <<>> /\ F!Paired(d)
      /\ \A i \in F!Lines(d) :
           /\ d.edges[i].max > 0 => d.edges[i].on = "fail" /\ d.edges[i].exhausted # NoState
           /\ d.edges[i].exhausted # NoState => d.edges[i].max > 0
  BY <1>1 DEF F!Validates
<1>3. d.states[1] \in States
  BY <1>2 DEF Written
<1>4. d.edges \in Seq(Line)
  BY DEF Written
<1>5. ASSUME NEW i \in F!Lines(d), d.edges[i].on # Unset
      PROVE  \E p, f \in F!Lines(d) : /\ d.edges[p].from = d.edges[i].from /\ d.edges[p].on = "pass"
                                      /\ d.edges[f].from = d.edges[i].from /\ d.edges[f].on = "fail"
  <2>1. d.edges[i].on \in {"pass", "fail"}
    BY <1>5, LinesTyped DEF Line
  <2>2. \A t : (\E p \in F!Lines(d) : d.edges[p].from = t /\ d.edges[p].on = "pass")
               <=> (\E p \in F!Lines(d) : d.edges[p].from = t /\ d.edges[p].on = "fail")
    BY <1>2 DEF F!Paired
  <2> QED
    BY <2>1, <2>2
<1>6. F!W(d)!WellFormed
  BY <1>2, <1>3, <1>4, <1>5, SameLine, FormedIs
<1>7. ~ F!W(d)!IsTerminal(F!InitialState(d))
  BY <1>1 DEF F!ValidateLifecycle
<1> QED
  BY <1>6, <1>7 DEF F!W!IsTerminal

\* A story that is not at a terminal state has an edge a command enacts.
LEMMA StuckIs ==
    ASSUME LineBounds, NEW d, Written(d), NEW s
    PROVE  \/ F!W(d)!IsV2(s)
           \/ \E g \in Gates : F!W(d)!HasGatedEdge(s, g)
           \/ \E t \in States : F!W(d)!UngatedAdvance(s, t)
           \/ \A i \in F!W(d)!TransitionsFrom(s) : d.edges[i].trigger # Unset /\ d.edges[i].gate # NoGate
<1> SUFFICES ASSUME ~ F!W(d)!IsV2(s), ~ \E g \in Gates : F!W(d)!HasGatedEdge(s, g),
                    ~ \E t \in States : F!W(d)!UngatedAdvance(s, t),
                    NEW i \in F!W(d)!TransitionsFrom(s)
             PROVE  d.edges[i].trigger # Unset /\ d.edges[i].gate # NoGate
  OBVIOUS
<1>1. i \in F!Lines(d) /\ d.edges[i].from = s /\ d.edges[i].on \notin {"pass", "fail"}
  BY FromIs
<1>2. d.edges[i].on = Unset /\ d.edges[i].to \in States /\ d.edges[i].gate \in Gates \cup {NoGate}
  BY <1>1, LinesTyped DEF Line
<1>3. d.edges[i].gate # NoGate
  BY <1>2, Zenon DEF F!W!UngatedAdvance, F!W!Edge, Unset
<1>4. d.edges[i].gate \in Gates
  BY <1>2, <1>3
<1>5. d.edges[i].trigger # Unset
  <2> SUFFICES ASSUME d.edges[i].trigger = Unset PROVE FALSE
    OBVIOUS
  <2>1. i \in F!W(d)!GatedEdges(s, d.edges[i].gate)
    BY <1>2, <1>3, Zenon DEF F!W!GatedEdges, F!W!Edge, Unset
  <2> QED
    BY <1>4, <2>1 DEF F!W!HasGatedEdge
<1> QED
  BY <1>3, <1>5

-----------------------------------------------------------------------------
(* A copy that passes for the file it was pinned from.                     *)

\* The lines of c are those of d in the order p, where p only swaps lines.
Reorders(p, c, d) ==
    /\ p \in [F!Lines(d) -> F!Lines(d)]
    /\ \A k \in F!Lines(d) : p[p[k]] = k /\ c.edges[k] = d.edges[p[k]]

LEMMA ReplacedIsSame ==
    ASSUME NEW n \in Nat, NEW s, NEW t, DOMAIN s = 1..n, DOMAIN t = 1..n, NEW i \in 1..n, NEW e,
           t[i] = e, \A k \in 1..n : k # i => t[k] = s[k], F!SameBag(t, s)
    PROVE  t[i] = s[i]
<1>1. DOMAIN t = 1..n /\ t[i] = e /\ \A k \in 1..n : k # i => t[k] = s[k]
  OBVIOUS
<1> SUFFICES ASSUME s[i] # e PROVE FALSE
  BY <1>1
<1> DEFINE had == {k \in DOMAIN s : s[k] = e}
           has == {k \in DOMAIN t : t[k] = e}
<1>2. e \in {t[k] : k \in DOMAIN t}
  BY <1>1
<1>3. F!Cardinality(has) = F!Cardinality(had)
  BY <1>2 DEF F!SameBag
<1>4. has = had \cup {i} /\ i \notin had /\ had \subseteq 1..n
  BY <1>1
<1>5. IsFiniteSet(had)
  <2>1. IsFiniteSet(1..n)
    BY FS_Interval
  <2> HIDE DEF had
  <2> QED
    BY <1>4, <2>1, FS_Subset
<1> HIDE DEF had, has
<1>6. Cardinality(has) = Cardinality(had) + 1 /\ Cardinality(had) \in Nat
  BY <1>4, <1>5, FS_AddElement, FS_CardinalityType
<1>7. F!Cardinality(has) = Cardinality(has) /\ F!Cardinality(had) = Cardinality(had)
  BY DEF F!Cardinality, Cardinality
<1>8. Cardinality(has) = Cardinality(had)
  BY <1>3, <1>7
<1> QED
  BY <1>6, <1>8

LEMMA PinnedReorders ==
    ASSUME NEW c, NEW d, Written(d), PinnedFrom(c, d), F!Equivalent(c, d)
    PROVE  /\ Written(c) /\ F!Validates(d) /\ F!Lines(c) = F!Lines(d)
           /\ \E p : Reorders(p, c, d)
<1>1. Written(c) /\ F!Validates(d)
  BY DEF PinnedFrom, FromPool
<1>2. F!SameBag(c.edges, d.edges)
  BY DEF F!Equivalent
<1>3. Len(d.edges) \in Nat /\ F!Lines(d) = 1..Len(d.edges) /\ DOMAIN d.edges = 1..Len(d.edges)
  BY LinesTyped DEF F!Lines
<1>4. CASE \E i, j \in F!Lines(d) : c.edges = [d.edges EXCEPT ![i] = d.edges[j], ![j] = d.edges[i]]
  <2>1. PICK i \in F!Lines(d), j \in F!Lines(d) : c.edges = [d.edges EXCEPT ![i] = d.edges[j], ![j] = d.edges[i]]
    BY <1>4
  <2> DEFINE p == [k \in F!Lines(d) |-> IF k = i THEN j ELSE IF k = j THEN i ELSE k]
  <2>2. p \in [F!Lines(d) -> F!Lines(d)] /\ \A k \in F!Lines(d) : p[p[k]] = k
    OBVIOUS
  <2>3. \A k \in F!Lines(d) : c.edges[k] = d.edges[p[k]]
    BY <1>3, <2>1
  <2>4. DOMAIN c.edges = DOMAIN d.edges
    BY <2>1
  <2>5. Reorders(p, c, d)
    BY <2>2, <2>3 DEF Reorders
  <2> QED
    BY <1>1, <2>4, <2>5 DEF F!Lines
<1>5. CASE \E i \in F!Lines(d) : \E e \in Pool : c.edges = [d.edges EXCEPT ![i] = e]
  <2>1. PICK i \in F!Lines(d), e \in Pool : c.edges = [d.edges EXCEPT ![i] = e]
    BY <1>5
  <2>2. \A k \in F!Lines(d) : c.edges[k] = d.edges[k]
    <3> DEFINE n == Len(d.edges)
               s == d.edges
               t == c.edges
    <3>1. n \in Nat /\ DOMAIN s = 1..n /\ DOMAIN t = 1..n /\ i \in 1..n /\ t[i] = e
          /\ (\A k \in 1..n : k # i => t[k] = s[k]) /\ F!SameBag(t, s)
      BY <1>2, <1>3, <2>1
    <3>2. t[i] = s[i]
      <4> HIDE DEF n, s, t
      <4> QED
        BY <3>1, ReplacedIsSame
    <3> QED
      BY <1>3, <3>1, <3>2
  <2> DEFINE p == [k \in F!Lines(d) |-> k]
  <2>3. Reorders(p, c, d)
    BY <2>2 DEF Reorders
  <2>4. DOMAIN c.edges = DOMAIN d.edges
    BY <2>1
  <2> QED
    BY <1>1, <2>3, <2>4 DEF F!Lines
<1> QED
  BY <1>4, <1>5 DEF PinnedFrom

\* Where order does not matter, two lines of one outcome or one gate are one.
LEMMA OrderIs ==
    ASSUME NEW d, ~ F!OrderMatters(d), NEW i \in F!Lines(d), NEW j \in F!Lines(d),
           d.edges[i].from = d.edges[j].from
    PROVE  /\ d.edges[i].on # Unset /\ d.edges[i].on = d.edges[j].on => i = j
           /\ d.edges[i].on # Unset /\ d.edges[j].on # Unset /\ d.edges[i].gate # NoGate /\ d.edges[j].gate # NoGate =>
                 d.edges[i].gate = d.edges[j].gate
           /\ d.edges[i].on = Unset /\ d.edges[j].on = Unset /\ d.edges[i].gate = d.edges[j].gate /\ d.edges[i].gate # NoGate =>
                 i = j
  BY Zenon DEF Unset, F!OrderMatters

LEMMA GovernsAlike ==
    ASSUME LineBounds, NEW c, NEW d, Written(c), Written(d), F!Validates(d), F!Lines(c) = F!Lines(d),
           NEW p, Reorders(p, c, d), ~ F!OrderMatters(d), NEW s
    PROVE  /\ F!W(c)!IsV2(s) <=> F!W(d)!IsV2(s)
           /\ F!W(d)!IsV2(s) =>
                 /\ F!W(c)!PassTo(s) = F!W(d)!PassTo(s)
                 /\ F!W(c)!FailEdge(s) = F!W(d)!FailEdge(s)
                 /\ F!W(c)!ReviewerSkill(s) = F!W(d)!ReviewerSkill(s)
           /\ F!W(c)!HasCheckpoint(s) <=> F!W(d)!HasCheckpoint(s)
           /\ \A g \in Gates : F!W(d)!HasGatedEdge(s, g) =>
                 F!W(c)!HasGatedEdge(s, g) /\ F!W(c)!GatedTo(s, g) = F!W(d)!GatedTo(s, g)
           /\ F!W(c)!IsTerminal(s) <=> F!W(d)!IsTerminal(s)
<1>1. /\ \A k \in F!Lines(d) : p[k] \in F!Lines(d) /\ p[p[k]] = k /\ c.edges[k] = d.edges[p[k]]
      /\ \A k \in F!Lines(d) : c.edges[p[k]] = d.edges[k]
  BY DEF Reorders
<1>2. F!W(c)!IsV2(s) <=> F!W(d)!IsV2(s)
  BY <1>1, FromIs
<1>3. ASSUME F!W(d)!IsV2(s), NEW o \in {"pass", "fail"}
      PROVE  /\ F!W(c)!LastOf(F!W(c)!EdgesOn(s, o)) \in F!W(c)!EdgesOn(s, o)
             /\ F!W(d)!LastOf(F!W(d)!EdgesOn(s, o)) \in F!W(d)!EdgesOn(s, o)
             /\ F!W(c)!Edge(F!W(c)!LastOf(F!W(c)!EdgesOn(s, o))) = F!W(d)!Edge(F!W(d)!LastOf(F!W(d)!EdgesOn(s, o)))
  <2>1. PICK k \in F!Lines(d) : d.edges[k].from = s /\ d.edges[k].on = o
    BY <1>3, Reviewed2
  <2>2. k \in F!W(d)!EdgesOn(s, o) /\ F!W(d)!EdgesOn(s, o) \in SUBSET F!Lines(d)
    BY <2>1, EdgesOnIs
  <2>3. p[k] \in F!W(c)!EdgesOn(s, o) /\ F!W(c)!EdgesOn(s, o) \in SUBSET F!Lines(c)
    BY <1>1, <2>1, EdgesOnIs
  <2>4. PICK l : l = F!W(d)!LastOf(F!W(d)!EdgesOn(s, o)) /\ l \in F!W(d)!EdgesOn(s, o)
    BY <2>2, PicksLast
  <2>5. PICK m : m = F!W(c)!LastOf(F!W(c)!EdgesOn(s, o)) /\ m \in F!W(c)!EdgesOn(s, o)
    BY <2>3, PicksLast
  <2>6. l \in F!Lines(d) /\ d.edges[l].from = s /\ d.edges[l].on = o
    BY <2>4, EdgesOnIs
  <2>7. m \in F!Lines(d) /\ c.edges[m].from = s /\ c.edges[m].on = o
    BY <2>5, EdgesOnIs
  <2>8. p[m] \in F!Lines(d) /\ c.edges[m] = d.edges[p[m]]
    BY <1>1, <2>7
  <2>9. o # Unset
    BY UnsetIs
  <2>10. p[m] = l
    BY <2>6, <2>7, <2>8, <2>9, OrderIs
  <2>11. F!W(c)!Edge(m) = c.edges[m] /\ F!W(d)!Edge(l) = d.edges[l]
    BY FromIs
  <2> QED
    BY <2>4, <2>5, <2>8, <2>10, <2>11
<1>4. ASSUME F!W(d)!IsV2(s)
      PROVE  F!W(c)!PassTo(s) = F!W(d)!PassTo(s) /\ F!W(c)!FailEdge(s) = F!W(d)!FailEdge(s)
  BY <1>3, <1>4 DEF F!W!PassTo, F!W!FailEdge
<1>5. \A f \in {c, d} : F!W(f)!NamingEdges(s) =
          {i \in F!Lines(d) : f.edges[i].from = s /\ f.edges[i].on \in {"pass", "fail"} /\ f.edges[i].gate # NoGate}
  <2>1. \A f : F!W(f)!NamingEdges(s) =
          {i \in F!Lines(f) : f.edges[i].from = s /\ f.edges[i].on \in {"pass", "fail"} /\ f.edges[i].gate # NoGate}
    BY DEF F!W!NamingEdges, F!W!EdgesOn, F!W!TransitionsFrom, F!W!Edge, F!W!Edges, F!Lines
  <2> QED
    BY <2>1
<1>6. F!W(c)!ReviewerSkill(s) = F!W(d)!ReviewerSkill(s)
  <2>1. CASE F!W(d)!NamingEdges(s) = {}
    <3>1. F!W(c)!NamingEdges(s) = {}
      BY <1>1, <1>5, <2>1
    <3> QED
      BY <2>1, <3>1 DEF F!W!ReviewerSkill
  <2>2. CASE F!W(d)!NamingEdges(s) # {}
    <3>1. F!W(c)!NamingEdges(s) # {}
      BY <1>1, <1>5, <2>2
    <3>2. F!W(c)!NamingEdges(s) \in SUBSET F!Lines(c) /\ F!W(d)!NamingEdges(s) \in SUBSET F!Lines(d)
      BY <1>5
    <3>3. PICK l : l = F!W(d)!FirstOf(F!W(d)!NamingEdges(s)) /\ l \in F!W(d)!NamingEdges(s)
      BY <2>2, <3>2, PicksFirst
    <3>4. PICK m : m = F!W(c)!FirstOf(F!W(c)!NamingEdges(s)) /\ m \in F!W(c)!NamingEdges(s)
      BY <3>1, <3>2, PicksFirst
    <3>5. l \in F!Lines(d) /\ d.edges[l].from = s /\ d.edges[l].on \in {"pass", "fail"} /\ d.edges[l].gate # NoGate
      BY <1>5, <3>3
    <3>6. m \in F!Lines(d) /\ c.edges[m].from = s /\ c.edges[m].on \in {"pass", "fail"} /\ c.edges[m].gate # NoGate
      BY <1>5, <3>4
    <3>7. p[m] \in F!Lines(d) /\ c.edges[m] = d.edges[p[m]]
      BY <1>1, <3>6
    <3>8. c.edges[m].gate = d.edges[l].gate
      BY <3>5, <3>6, <3>7, OrderIs, UnsetIs
    <3>9. F!W(c)!ReviewerSkill(s) = c.edges[m].gate /\ F!W(d)!ReviewerSkill(s) = d.edges[l].gate
      BY <2>2, <3>1, <3>3, <3>4 DEF F!W!ReviewerSkill, F!W!Edge
    <3> QED
      BY <3>8, <3>9
  <2> QED
    BY <2>1, <2>2
<1>7. \A f \in {c, d} : F!W(f)!CheckpointEdges(s) =
          {i \in F!Lines(d) : f.edges[i].from = s /\ f.edges[i].trigger = "checkpoint" /\ f.edges[i].gate = NoGate}
  <2>1. \A f : F!W(f)!CheckpointEdges(s) =
          {i \in F!Lines(f) : f.edges[i].from = s /\ f.edges[i].trigger = "checkpoint" /\ f.edges[i].gate = NoGate}
    BY DEF F!W!CheckpointEdges, F!W!TransitionsFrom, F!W!Edge, F!W!Edges, F!Lines
  <2> QED
    BY <2>1
<1>8. F!W(c)!HasCheckpoint(s) <=> F!W(d)!HasCheckpoint(s)
  <2>1. \A f \in {c, d} : F!W(f)!HasCheckpoint(s) <=>
            ~ F!W(f)!IsV2(s) /\ \E x : F!W(f)!CheckpointEdges(s) = {x}
    <3> SUFFICES ASSUME NEW f \in {c, d}
                 PROVE  Cardinality(F!W(f)!CheckpointEdges(s)) = 1 <=> \E x : F!W(f)!CheckpointEdges(s) = {x}
      BY DEF F!W!HasCheckpoint, F!W!Cardinality, Cardinality
    <3>1. IsFiniteSet(F!Lines(d))
      <4>1. Len(d.edges) \in Nat /\ F!Lines(d) = 1..Len(d.edges)
        BY LinesTyped
      <4>2. \A n \in Nat : IsFiniteSet(1..n)
        BY FS_Interval
      <4> QED
        BY <4>1, <4>2
    <3>2. F!W(f)!CheckpointEdges(s) \in SUBSET F!Lines(d)
      BY <1>7
    <3> QED
      BY <3>1, <3>2, FS_Subset, FS_Singleton
  <2>2. ASSUME NEW x, F!W(d)!CheckpointEdges(s) = {x} PROVE \E y : F!W(c)!CheckpointEdges(s) = {y}
    <3>1. x \in F!Lines(d)
      BY <1>7, <2>2
    <3>2. F!W(c)!CheckpointEdges(s) = {p[x]}
      BY <1>1, <1>7, <2>2, <3>1
    <3> QED
      BY <3>2
  <2>3. ASSUME NEW x, F!W(c)!CheckpointEdges(s) = {x} PROVE \E y : F!W(d)!CheckpointEdges(s) = {y}
    <3>1. x \in F!Lines(d)
      BY <1>7, <2>3
    <3>2. F!W(d)!CheckpointEdges(s) = {p[x]}
      BY <1>1, <1>7, <2>3, <3>1
    <3> QED
      BY <3>2
  <2> QED
    BY <1>2, <2>1, <2>2, <2>3
<1>9. ASSUME NEW g \in Gates, F!W(d)!HasGatedEdge(s, g)
      PROVE  F!W(c)!HasGatedEdge(s, g) /\ F!W(c)!GatedTo(s, g) = F!W(d)!GatedTo(s, g)
  <2>0. g # NoGate
    BY DEF LineBounds
  <2>1. \A f : F!W(f)!GatedEdges(s, g) =
           {i \in F!Lines(f) : f.edges[i].from = s /\ f.edges[i].on = Unset /\ f.edges[i].trigger = Unset /\ f.edges[i].gate = g}
    BY <2>0, Zenon DEF Unset, F!W!GatedEdges, F!W!TransitionsFrom, F!W!Edge, F!W!Edges, F!Lines
  <2>2. F!W(d)!GatedEdges(s, g) # {}
    BY <1>9 DEF F!W!HasGatedEdge
  <2>3. F!W(c)!GatedEdges(s, g) # {}
    BY <1>1, <2>1, <2>2
  <2>4. F!W(c)!GatedEdges(s, g) \in SUBSET F!Lines(c) /\ F!W(d)!GatedEdges(s, g) \in SUBSET F!Lines(d)
    BY <2>1
  <2>5. PICK l : l = F!W(d)!FirstOf(F!W(d)!GatedEdges(s, g)) /\ l \in F!W(d)!GatedEdges(s, g)
    BY <2>2, <2>4, PicksFirst
  <2>6. PICK m : m = F!W(c)!FirstOf(F!W(c)!GatedEdges(s, g)) /\ m \in F!W(c)!GatedEdges(s, g)
    BY <2>3, <2>4, PicksFirst
  <2>7. l \in F!Lines(d) /\ d.edges[l].from = s /\ d.edges[l].on = Unset /\ d.edges[l].gate = g
    BY <2>1, <2>5
  <2>8. m \in F!Lines(d) /\ c.edges[m].from = s /\ c.edges[m].on = Unset /\ c.edges[m].gate = g
    BY <2>1, <2>6
  <2>9. p[m] \in F!Lines(d) /\ c.edges[m] = d.edges[p[m]]
    BY <1>1, <2>8
  <2>10. p[m] = l
    BY <2>0, <2>7, <2>8, <2>9, OrderIs
  <2>11. F!W(c)!GatedTo(s, g) = c.edges[m].to /\ F!W(d)!GatedTo(s, g) = d.edges[l].to
    BY <2>5, <2>6 DEF F!W!GatedTo, F!W!Edge
  <2>12. F!W(c)!HasGatedEdge(s, g)
    BY <2>3 DEF F!W!HasGatedEdge
  <2> QED
    BY <2>9, <2>10, <2>11, <2>12
<1>10. F!W(c)!IsTerminal(s) <=> F!W(d)!IsTerminal(s)
  <2>1. \A f : F!W(f)!IsTerminal(s) <=> \A i \in F!Lines(f) : f.edges[i].from = s => f.edges[i].trigger = "reopen"
    BY DEF F!W!IsTerminal, F!W!TransitionsFrom, F!W!Edge, F!W!Edges, F!Lines
  <2> QED
    BY <1>1, <2>1
<1> QED
  BY <1>2, <1>4, <1>6, <1>8, <1>9, <1>10

-----------------------------------------------------------------------------
LEMMA AlikeHolds == FileBounds /\ FileInv => F!EquivalentGovernsAlike
<1> SUFFICES ASSUME FileBounds, FileInv, copy # F!Blank, F!Equivalent(copy, draft), ~ F!OrderMatters(draft)
             PROVE  \A s \in States :
                /\ F!W(copy)!IsV2(s) <=> F!W(draft)!IsV2(s)
                /\ F!W(draft)!IsV2(s) =>
                      /\ F!W(copy)!PassTo(s) = F!W(draft)!PassTo(s)
                      /\ F!W(copy)!FailEdge(s) = F!W(draft)!FailEdge(s)
                      /\ F!W(copy)!ReviewerSkill(s) = F!W(draft)!ReviewerSkill(s)
                /\ F!W(copy)!HasCheckpoint(s) <=> F!W(draft)!HasCheckpoint(s)
                /\ \A g \in Gates : F!W(draft)!HasGatedEdge(s, g) =>
                      F!W(copy)!HasGatedEdge(s, g) /\ F!W(copy)!GatedTo(s, g) = F!W(draft)!GatedTo(s, g)
                /\ F!W(copy)!IsTerminal(s) <=> F!W(draft)!IsTerminal(s)
  BY DEF F!EquivalentGovernsAlike
<1>1. Written(draft) /\ LineBounds
  BY DEF FileInv, FromPool, FileBounds
<1>2. Len(copy.edges) = Len(draft.edges)
  BY DEF F!Equivalent, F!SameBag
<1>3. Len(draft.edges) \in Nat
  BY <1>1, LinesTyped
<1>4. PinnedFrom(copy, draft)
  <2>1. ~ (Len(copy.edges) < Len(draft.edges))
    BY <1>2, <1>3
  <2> QED
    BY <2>1 DEF FileInv, CopyFits
<1>5. /\ Written(copy) /\ F!Validates(draft) /\ F!Lines(copy) = F!Lines(draft)
      /\ \E p : Reorders(p, copy, draft)
  BY <1>1, <1>4, PinnedReorders
<1> QED
  BY <1>1, <1>5, GovernsAlike

LEMMA FileTypes == FileBounds /\ FileInv => F!TypeOK
<1> SUFFICES ASSUME FileBounds, FileInv PROVE F!TypeOK
  OBVIOUS
<1>1. Len(draft.edges) <= MaxEdges /\ \A i \in F!Lines(draft) : draft.edges[i] \in Pool
  BY PoolTyped DEF FileInv
<1>2. \A i \in F!Lines(copy) : copy.edges[i] \in Pool
  <2>1. CASE copy = F!Blank
    BY <2>1 DEF F!Blank, F!Lines
  <2>2. CASE FromPool(copy)
    BY <2>2, PoolTyped
  <2> QED
    BY <2>1, <2>2 DEF FileInv, CopyFits, PinnedFrom
<1> QED
  BY <1>1, <1>2 DEF FileInv, F!TypeOK

LEMMA FileHolds == FileBounds /\ FileInv => FilesGovern
<1> SUFFICES ASSUME FileBounds, FileInv PROVE FilesGovern
  OBVIOUS
<1>1. Written(draft) /\ LineBounds
  BY DEF FileInv, FromPool, FileBounds
<1>2. F!AcceptedGoverns
  BY <1>1, AcceptedFormed DEF F!AcceptedGoverns
<1>3. F!EquivalentGovernsAlike
  BY AlikeHolds
<1>4. F!RejectsBounded
  <2> SUFFICES ASSUME NEW s \in States, status # NoState, F!W(draft)!IsV2(s)
               PROVE  rejects[s] <= IF F!W(draft)!MaxIterations(s) = 0 THEN 1 ELSE F!W(draft)!MaxIterations(s) - 1
    BY DEF F!RejectsBounded
  <2>1. F!W(draft)!MaxIterations(s) = F!W(draft)!FailEdge(s).max
    BY DEF F!W!MaxIterations
  <2>2. Spared(draft, status, rejects, s)
    BY DEF FileInv
  <2> QED
    BY <2>1, <2>2 DEF Spared
<1>5. F!EntryNotReentered
  <2> SUFFICES ASSUME last = "edge", status = F!InitialState(draft)
               PROVE  F!Declared(draft) \subseteq F!Entered(draft)
    BY DEF F!EntryNotReentered
  <2>1. status # NoState /\ status \in F!Entered(draft)
    BY DEF FileInv
  <2>2. F!Validates(draft)
    BY <2>1 DEF FileInv, F!Accepted
  <2> QED
    BY <1>1, <2>1, <2>2, StartsInState
<1>6. F!NeverStuck
  BY <1>1, StuckIs, Zenon DEF F!NeverStuck, Unset
<1> QED
  BY <1>2, <1>3, <1>4, <1>5, <1>6 DEF FilesGovern

\* An accepted workflow file is what the commands take for granted, a copy that passes for it
\* moves a story alike, and a story under it rejects within its bounds, does not come back to
\* its start and does not get stuck, for any lines an author may write.
THEOREM FilesAreGoverned == FileBounds => (F!Spec => [](F!TypeOK /\ FilesGovern))
<1> SUFFICES ASSUME FileBounds PROVE F!Spec => [](F!TypeOK /\ FilesGovern)
  OBVIOUS
<1>1. F!Init => FileInv
  BY FileInit
<1>2. FileInv /\ [F!Next]_F!fileVars => FileInv'
  BY FileNext
<1>3. FileInv => F!TypeOK /\ FilesGovern
  BY FileTypes, FileHolds
<1> QED
  BY <1>1, <1>2, <1>3, PTL DEF F!Spec

-----------------------------------------------------------------------------
(* Which workflow governs.                                                 *)

\* The place of a tier in the order of precedence.
TierRank(i) == CASE TierOf[i] = "local" -> 0 [] TierOf[i] = "skill" -> 1 [] TierOf[i] = "embed" -> 2

\* What the slots may hold.
Tree(in) == in \in [1..Slots -> Files \cup {NoFile}]

\* A story after n edits at most.
StoryAfter(n) ==
    [status : States, category : Categories, selector : G!Names \cup {NoName},
     block : {f.wf : f \in Files} \cup {NoBlock}, text : 0..n]

\* The files are workflow files, and the slots of a tier lie before those of a lower one.
GovernanceBounds ==
    /\ LineBounds
    /\ Slots \in Nat /\ MaxEdits \in Nat
    /\ NoFile \notin Files
    /\ \A f \in Files : Written(f.wf)
    /\ TierOf \in [1..Slots -> {"local", "skill", "embed"}]
    /\ \A i, j \in 1..Slots : i <= j => TierRank(i) <= TierRank(j)

\* The name of every category.
Wildcard == "*"

\* Governance and WorkflowFile read a file alike.
LEMMA SameRules ==
    ASSUME NEW d
    PROVE  /\ G!Validates(d) <=> F!Validates(d)
           /\ G!Accepted(d) <=> F!Accepted(d)
           /\ G!Blank = F!Blank
<1>1. /\ G!Declared(d) = F!Declared(d) /\ G!Lines(d) = F!Lines(d) /\ G!Blank = F!Blank
      /\ \A S : G!Cardinality(S) = F!Cardinality(S)
      /\ \A s : G!W(d)!IsTerminal(s) <=> F!W(d)!IsTerminal(s)
  BY Zenon DEF G!Declared, F!Declared, G!Lines, F!Lines, G!Blank, F!Blank, G!Cardinality, F!Cardinality,
     G!W!IsTerminal, F!W!IsTerminal, G!W!TransitionsFrom, F!W!TransitionsFrom, G!W!Edges, F!W!Edges,
     G!W!Edge, F!W!Edge
<1>2. \A S : G!Beyond(d, S) = F!Beyond(d, S)
  BY <1>1, Zenon DEF G!Beyond, F!Beyond
<1>3. \A x, y : G!Reaches(d, x, y) <=> F!Reaches(d, x, y)
  BY <1>2, Zenon DEF G!Reaches, F!Reaches
<1>4. G!LoopsBounded(d) <=> F!LoopsBounded(d)
  BY <1>1, <1>3, Zenon DEF G!LoopsBounded, F!LoopsBounded
<1>5. G!Paired(d) <=> F!Paired(d)
  BY <1>1, Zenon DEF G!Paired, F!Paired
<1>6. G!Validates(d) <=> F!Validates(d)
  BY <1>1, <1>4, <1>5, Zenon DEF G!Validates, F!Validates
<1>7. G!TerminalStates(d) = F!TerminalStates(d)
  BY <1>1, Zenon DEF G!TerminalStates, F!TerminalStates
<1>8. G!Entered(d) = F!Entered(d)
  BY <1>1, Zenon DEF G!Entered, F!Entered
<1>9. G!InitialState(d) = F!InitialState(d)
  BY <1>8 DEF G!InitialState, F!InitialState
<1>10. G!ValidateLifecycle(d) <=> F!ValidateLifecycle(d)
  BY <1>1, <1>7, <1>9, Zenon DEF G!ValidateLifecycle, F!ValidateLifecycle
<1> QED
  BY <1>1, <1>6, <1>10, Zenon DEF G!Accepted, F!Accepted

LEMMA SameFrom ==
    ASSUME NEW d, NEW s
    PROVE  G!W(d)!TransitionsFrom(s) = {i \in F!Lines(d) : d.edges[i].from = s}
  BY DEF G!W!TransitionsFrom, G!W!Edges, G!W!Edge, F!Lines

LEMMA SameQueries ==
    ASSUME NEW d, NEW s, NEW g
    PROVE  /\ G!W(d)!TransitionsFrom(s) = F!W(d)!TransitionsFrom(s)
           /\ G!W(d)!IsV2(s) <=> F!W(d)!IsV2(s)
           /\ G!W(d)!PassTo(s) = F!W(d)!PassTo(s)
           /\ G!W(d)!FailEdge(s) = F!W(d)!FailEdge(s)
           /\ G!W(d)!HasGatedEdge(s, g) <=> F!W(d)!HasGatedEdge(s, g)
           /\ G!W(d)!GatedTo(s, g) = F!W(d)!GatedTo(s, g)
           /\ G!W(d)!HasCheckpoint(s) <=> F!W(d)!HasCheckpoint(s)
           /\ G!W(d)!CheckpointTo(s) = F!W(d)!CheckpointTo(s)
<1>1. G!W(d)!TransitionsFrom(s) = F!W(d)!TransitionsFrom(s)
  BY Zenon DEF G!W!TransitionsFrom, G!W!Edges, G!W!Edge, F!W!TransitionsFrom, F!W!Edges, F!W!Edge
<1>2. \A o : G!W(d)!EdgesOn(s, o) = F!W(d)!EdgesOn(s, o)
  BY <1>1, Zenon DEF G!W!EdgesOn, F!W!EdgesOn, G!W!Edge, F!W!Edge
<1>3. G!W(d)!IsV2(s) <=> F!W(d)!IsV2(s)
  BY <1>2 DEF G!W!IsV2, F!W!IsV2
<1>4. \A S : G!W(d)!LastOf(S) = F!W(d)!LastOf(S) /\ G!W(d)!FirstOf(S) = F!W(d)!FirstOf(S)
  BY Zenon DEF G!W!LastOf, F!W!LastOf, G!W!FirstOf, F!W!FirstOf
<1>5. \A i : G!W(d)!Edge(i) = F!W(d)!Edge(i)
  BY Zenon DEF G!W!Edge, F!W!Edge
<1>6. G!W(d)!PassTo(s) = F!W(d)!PassTo(s)
  BY <1>2, <1>4, <1>5, Zenon DEF G!W!PassTo, F!W!PassTo
<1>7. G!W(d)!FailEdge(s) = F!W(d)!FailEdge(s)
  BY <1>2, <1>4, <1>5, Zenon DEF G!W!FailEdge, F!W!FailEdge
<1>8. G!W(d)!GatedEdges(s, g) = F!W(d)!GatedEdges(s, g)
  BY <1>1, Zenon DEF G!W!GatedEdges, F!W!GatedEdges, G!W!Edge, F!W!Edge
<1>9. /\ G!W(d)!HasGatedEdge(s, g) <=> F!W(d)!HasGatedEdge(s, g)
      /\ G!W(d)!GatedTo(s, g) = F!W(d)!GatedTo(s, g)
  BY <1>4, <1>5, <1>8, Zenon DEF G!W!HasGatedEdge, F!W!HasGatedEdge, G!W!GatedTo, F!W!GatedTo
<1>10. G!W(d)!CheckpointEdges(s) = F!W(d)!CheckpointEdges(s)
  BY <1>1, Zenon DEF G!W!CheckpointEdges, F!W!CheckpointEdges, G!W!Edge, F!W!Edge
<1>11. /\ G!W(d)!HasCheckpoint(s) <=> F!W(d)!HasCheckpoint(s)
       /\ G!W(d)!CheckpointTo(s) = F!W(d)!CheckpointTo(s)
  BY <1>3, <1>5, <1>10, Zenon
  DEF G!W!HasCheckpoint, F!W!HasCheckpoint, G!W!CheckpointTo, F!W!CheckpointTo,
      G!W!Cardinality, F!W!Cardinality
<1> QED
  BY <1>1, <1>3, <1>6, <1>7, <1>9, <1>11

LEMMA FirstSource ==
    ASSUME GovernanceBounds, NEW S \in SUBSET (1..Slots), S # {}
    PROVE  G!First(S) \in S /\ \A j \in S : G!First(S) <= j
<1>1. S \in SUBSET Nat
  <2>1. \A n \in Nat : 1..n \subseteq Nat
    OBVIOUS
  <2> QED
    BY <2>1 DEF GovernanceBounds
<1>2. \E i \in S : \A j \in S : i <= j
  BY <1>1, LeastExists
<1> QED
  BY <1>2 DEF G!First

LEMMA CoversIs ==
    ASSUME NEW f, NEW cat
    PROVE  G!Covers(f, cat) <=> cat \in f.applies \/ Wildcard \in f.applies
  BY DEF G!Covers, Wildcard

LEMMA SourcesAre ==
    ASSUME GovernanceBounds, NEW in, Tree(in)
    PROVE  /\ G!Sources(in) \subseteq 1..Slots
           /\ \A i \in G!Sources(in) : in[i] \in Files /\ Written(in[i].wf) /\ F!Validates(in[i].wf)
<1>1. G!Sources(in) \subseteq 1..Slots
  BY DEF G!Sources
<1>2. ASSUME NEW i \in G!Sources(in) PROVE in[i] \in Files /\ F!Validates(in[i].wf)
  <2>1. in[i] # NoFile /\ G!Validates(in[i].wf) /\ i \in 1..Slots
    BY DEF G!Sources, G!Parses
  <2>2. in[i] \in Files
    BY <2>1 DEF Tree
  <2> QED
    BY <2>1, <2>2, SameRules
<1> QED
  BY <1>1, <1>2 DEF GovernanceBounds

\* The default is the best of the palette, and the palette has it where it is not empty.
LEMMA DefaultIs ==
    ASSUME GovernanceBounds, NEW in, Tree(in), NEW cat
    PROVE  /\ G!Covered(in, cat) <=> G!Palette(in, cat) # {}
           /\ G!Palette(in, cat) # {} =>
                 /\ G!Default(in, cat) \in G!Palette(in, cat)
                 /\ \A j \in G!Palette(in, cat) :
                       \/ G!Rank(in, G!Default(in, cat), cat) < G!Rank(in, j, cat)
                       \/ /\ G!Rank(in, G!Default(in, cat), cat) = G!Rank(in, j, cat)
                          /\ G!Default(in, cat) <= j
<1> DEFINE sp == G!Specific(in, cat)
           wild == G!Wild(in)
           pal == G!Palette(in, cat)
<1>1. /\ sp = {i \in G!Sources(in) : cat \in in[i].applies}
      /\ wild = {i \in G!Sources(in) : Wildcard \in in[i].applies}
      /\ \A i : i \in pal <=> i \in sp \/ i \in wild
  BY CoversIs DEF G!Specific, G!Wild, G!Palette, Wildcard
<1>2. sp \in SUBSET (1..Slots) /\ wild \in SUBSET (1..Slots) /\ G!Sources(in) \subseteq 1..Slots
  BY <1>1, SourcesAre
<1>3. G!Covered(in, cat) <=> pal # {}
  BY <1>1 DEF G!Covered
<1>4. /\ \A i \in 1..Slots : G!Rank(in, i, cat) = TierRank(i) + (IF cat \in in[i].applies THEN 0 ELSE 10)
      /\ \A i \in 1..Slots : TierRank(i) \in 0..2
  BY DEF G!Rank, TierRank, GovernanceBounds
<1>5. \A i, j \in 1..Slots : i <= j => TierRank(i) <= TierRank(j)
  BY DEF GovernanceBounds
<1>6. \A i \in 1..Slots : i \in Nat
  BY DEF GovernanceBounds
<1> SUFFICES ASSUME pal # {}
             PROVE  /\ G!Default(in, cat) \in pal
                    /\ \A j \in pal :
                         \/ G!Rank(in, G!Default(in, cat), cat) < G!Rank(in, j, cat)
                         \/ /\ G!Rank(in, G!Default(in, cat), cat) = G!Rank(in, j, cat)
                            /\ G!Default(in, cat) <= j
  BY <1>3
<1>7. CASE sp # {}
  <2>1. PICK d : d = G!Default(in, cat) /\ d \in sp /\ \A j \in sp : d <= j
    <3>1. G!Default(in, cat) = G!First(sp)
      BY <1>7 DEF G!Default
    <3> HIDE DEF sp
    <3> QED
      BY <1>2, <1>7, <3>1, FirstSource
  <2>2. cat \in in[d].applies /\ d \in 1..Slots /\ d \in pal
    BY <1>1, <1>2, <2>1
  <2>3. ASSUME NEW j \in pal
        PROVE  G!Rank(in, d, cat) < G!Rank(in, j, cat) \/ (G!Rank(in, d, cat) = G!Rank(in, j, cat) /\ d <= j)
    <3>1. j \in 1..Slots
      BY <1>1, <1>2, <2>3
    <3>2. CASE cat \in in[j].applies
      <4>1. j \in sp
        <5>1. j \in G!Sources(in)
          BY <1>1, <2>3
        <5> QED
          BY <1>1, <3>2, <5>1
      <4>2. d <= j /\ TierRank(d) <= TierRank(j)
        BY <1>5, <2>1, <2>2, <3>1, <4>1
      <4>3. G!Rank(in, d, cat) = TierRank(d) /\ G!Rank(in, j, cat) = TierRank(j)
            /\ TierRank(d) \in 0..2 /\ TierRank(j) \in 0..2
        BY <1>4, <2>2, <3>1, <3>2
      <4> QED
        BY <4>2, <4>3
    <3>3. CASE cat \notin in[j].applies
      <4>1. G!Rank(in, d, cat) = TierRank(d) /\ G!Rank(in, j, cat) = TierRank(j) + 10
            /\ TierRank(d) \in 0..2 /\ TierRank(j) \in 0..2
        BY <1>4, <2>2, <3>1, <3>3
      <4> QED
        BY <4>1
    <3> QED
      BY <3>2, <3>3
  <2> QED
    BY <2>1, <2>2, <2>3
<1>8. CASE sp = {}
  <2>1. PICK d : d = G!Default(in, cat) /\ d \in wild /\ \A j \in wild : d <= j
    <3>1. G!Default(in, cat) = G!First(wild) /\ wild # {}
      BY <1>1, <1>8 DEF G!Default
    <3> HIDE DEF wild
    <3> QED
      BY <1>2, <3>1, FirstSource
  <2>2. d \in 1..Slots /\ d \in pal
    BY <1>1, <1>2, <2>1
  <2>3. \A j \in pal : j \in wild /\ j \in 1..Slots /\ cat \notin in[j].applies
    BY <1>1, <1>2, <1>8
  <2>4. ASSUME NEW j \in pal
        PROVE  G!Rank(in, d, cat) < G!Rank(in, j, cat) \/ (G!Rank(in, d, cat) = G!Rank(in, j, cat) /\ d <= j)
    <3>1. d <= j /\ TierRank(d) <= TierRank(j)
      BY <1>5, <2>1, <2>2, <2>3, <2>4
    <3>2. G!Rank(in, d, cat) = TierRank(d) + 10 /\ G!Rank(in, j, cat) = TierRank(j) + 10
          /\ TierRank(d) \in 0..2 /\ TierRank(j) \in 0..2
      BY <1>4, <2>2, <2>3, <2>4
    <3> QED
      BY <3>1, <3>2
  <2> QED
    BY <2>1, <2>2, <2>4
<1> QED
  BY <1>7, <1>8

LEMMA TopIsDefault ==
    ASSUME GovernanceBounds, NEW in, Tree(in), NEW cat, G!Palette(in, cat) # {}
    PROVE  G!Top(in, cat) = G!Default(in, cat)
<1> DEFINE pal == G!Palette(in, cat)
           R(i) == G!Rank(in, i, cat)
           Best(i) == \A j \in pal : R(i) < R(j) \/ (R(i) = R(j) /\ i <= j)
           d == G!Default(in, cat)
<1>1. d \in pal /\ Best(d)
  BY DefaultIs
<1>2. \A i \in pal : i \in Nat /\ R(i) \in Nat
  <2>1. \A i \in 1..Slots : i \in Nat /\ R(i) \in Nat
    BY DEF G!Rank, GovernanceBounds
  <2>2. pal \subseteq 1..Slots
    BY SourcesAre DEF G!Palette
  <2> QED
    BY <2>1, <2>2
<1>3. ASSUME NEW i \in pal, Best(i) PROVE i = d
  <2> HIDE DEF pal, R, d
  <2>1. R(i) < R(d) \/ (R(i) = R(d) /\ i <= d)
    BY <1>1, <1>3
  <2>2. R(d) < R(i) \/ (R(d) = R(i) /\ d <= i)
    BY <1>1, <1>3
  <2> QED
    BY <1>1, <1>2, <2>1, <2>2
<1>4. G!Top(in, cat) = CHOOSE i \in pal : Best(i)
  BY DEF G!Top
<1> HIDE DEF pal, Best, d
<1> QED
  BY <1>1, <1>3, <1>4 DEF d

\* A selector that resolves names a source.
LEMMA SelectedIs ==
    ASSUME GovernanceBounds, NEW in, Tree(in), NEW s, G!Selected(in, s)
    PROVE  /\ G!First(G!Named(in, s.selector)) \in G!Sources(in)
           /\ in[G!First(G!Named(in, s.selector))].name = s.selector
<1> DEFINE n == G!Named(in, s.selector)
<1>1. n # {} /\ n = {i \in G!Sources(in) : in[i].name = s.selector}
  BY DEF G!Selected, G!Named
<1>2. n \in SUBSET (1..Slots)
  BY <1>1, SourcesAre
<1> HIDE DEF n
<1>3. G!First(n) \in n
  BY <1>1, <1>2, FirstSource
<1> QED
  BY <1>1, <1>3 DEF n

LEMMA DefaultSource ==
    ASSUME GovernanceBounds, NEW in, Tree(in), NEW cat, G!Covered(in, cat)
    PROVE  G!Default(in, cat) \in G!Sources(in) /\ G!Top(in, cat) = G!Default(in, cat)
BY DefaultIs, TopIsDefault DEF G!Palette

\* What the queries read is what has authority, where a selector resolves.
LEMMA AuthorityIs ==
    ASSUME GovernanceBounds, NEW in, Tree(in), NEW s, s.selector # NoName => G!Selected(in, s)
    PROVE  G!Authority(in, s) = G!Governing(in, s)
<1>1. G!Covered(in, s.category) <=> G!Palette(in, s.category) # {}
  BY DefaultIs
<1>2. G!Covered(in, s.category) => G!Top(in, s.category) = G!Default(in, s.category)
  BY DefaultSource
<1> QED
  BY <1>1, <1>2 DEF G!Authority, G!Governing

\* It is a file that validates, or there is none.
LEMMA GoverningIs ==
    ASSUME GovernanceBounds, NEW in, Tree(in), NEW n, NEW s \in StoryAfter(n)
    PROVE  \/ G!Governing(in, s) = F!Blank
           \/ Written(G!Governing(in, s)) /\ F!Validates(G!Governing(in, s))
<1>1. CASE s.selector # NoName /\ G!Selected(in, s)
  <2>1. G!Governing(in, s) = in[G!First(G!Named(in, s.selector))].wf
    BY <1>1 DEF G!Governing
  <2> QED
    BY <1>1, <2>1, SelectedIs, SourcesAre
<1>2. CASE ~ (s.selector # NoName /\ G!Selected(in, s)) /\ G!Covered(in, s.category)
  <2>1. G!Governing(in, s) = in[G!Default(in, s.category)].wf
    BY <1>2 DEF G!Governing
  <2> QED
    BY <1>2, <2>1, DefaultSource, SourcesAre
<1>3. CASE ~ (s.selector # NoName /\ G!Selected(in, s)) /\ ~ G!Covered(in, s.category)
  <2>1. CASE s.block # NoBlock /\ G!Validates(s.block)
    <3>1. G!Governing(in, s) = s.block
      BY <1>3, <2>1 DEF G!Governing
    <3>2. s.block \in {f.wf : f \in Files}
      BY <2>1 DEF StoryAfter
    <3> QED
      BY <2>1, <3>1, <3>2, SameRules DEF GovernanceBounds
  <2>2. CASE ~ (s.block # NoBlock /\ G!Validates(s.block))
    BY <1>3, <2>2, SameRules DEF G!Governing
  <2> QED
    BY <2>1, <2>2
<1> QED
  BY <1>1, <1>2, <1>3

LEMMA BlankIs ==
    ASSUME NEW s, NEW g
    PROVE  /\ F!W(F!Blank)!TransitionsFrom(s) = {} /\ ~ F!W(F!Blank)!IsV2(s)
           /\ ~ F!W(F!Blank)!HasGatedEdge(s, g) /\ ~ F!W(F!Blank)!HasCheckpoint(s)
<1>1. F!W(F!Blank)!TransitionsFrom(s) = {} /\ F!Lines(F!Blank) = {}
  BY DEF F!W!TransitionsFrom, F!W!Edges, F!W!Edge, F!Blank, F!Lines
<1>2. ~ F!W(F!Blank)!IsV2(s)
  BY <1>1, FromIs
<1>3. ~ F!W(F!Blank)!HasGatedEdge(s, g)
  BY <1>1, Zenon DEF F!W!HasGatedEdge, F!W!GatedEdges
<1>4. ~ F!W(F!Blank)!HasCheckpoint(s)
  <2>1. F!W(F!Blank)!CheckpointEdges(s) = {}
    BY <1>1 DEF F!W!CheckpointEdges
  <2>2. Cardinality({}) # 1
    BY FS_EmptySet
  <2> QED
    BY <2>1, <2>2 DEF F!W!HasCheckpoint, F!W!Cardinality, Cardinality
<1> QED
  BY <1>1, <1>2, <1>3, <1>4

\* The edges a command may take.
LEMMA AllowedIs ==
    ASSUME NEW w, NEW s, NEW k, NEW a, NEW i \in F!Lines(w), w.edges[i].from = s
    PROVE  /\ k = "gate" => (i \in G!Allowed(w, s, k, a) <=> w.edges[i].on # Unset \/ w.edges[i].gate = a)
           /\ k # "gate" => (i \in G!Allowed(w, s, k, a) <=> w.edges[i].gate = NoGate /\ w.edges[i].on = Unset)
<1>1. i \in G!W(w)!TransitionsFrom(s)
  BY SameFrom
<1> QED
  BY <1>1, Zenon DEF G!Allowed, Unset

\* Whatever a gate does to a story follows a line that a gate may take.
LEMMA GateMove ==
    ASSUME GovernanceBounds, NEW w, w = F!Blank \/ (Written(w) /\ F!Validates(w)), NEW s, NEW g \in Gates,
           NEW t \in G!AcceptTo(w, s, g) \cup G!RejectTo(w, s, g)
    PROVE  t \in States /\ \E i \in G!Allowed(w, s, "gate", g) : t \in {w.edges[i].to, w.edges[i].exhausted}
<1>1. CASE F!W(w)!IsV2(s)
  <2>1. Written(w) /\ F!Validates(w)
    BY <1>1, BlankIs
  <2>2. PICK p \in F!Lines(w) : w.edges[p].from = s /\ w.edges[p].on = "pass" /\ F!W(w)!PassTo(s) = w.edges[p].to
    BY <1>1, <2>1, Reviewed2
  <2>3. PICK f \in F!Lines(w) : w.edges[f].from = s /\ w.edges[f].on = "fail" /\ F!W(w)!FailEdge(s) = w.edges[f]
    BY <1>1, <2>1, Reviewed2
  <2>4. t \in {w.edges[p].to} \/ t \in {w.edges[f].to, w.edges[f].exhausted} \ {NoState}
    BY <1>1, <2>2, <2>3, SameQueries DEF G!AcceptTo, G!RejectTo
  <2>5. p \in G!Allowed(w, s, "gate", g) /\ f \in G!Allowed(w, s, "gate", g)
    BY <2>2, <2>3, AllowedIs, UnsetIs
  <2>6. w.edges[p] \in Line /\ w.edges[f] \in Line
    BY <2>1, LinesTyped
  <2> QED
    BY <2>4, <2>5, <2>6 DEF Line
<1>2. CASE ~ F!W(w)!IsV2(s)
  <2>1. F!W(w)!HasGatedEdge(s, g) /\ t = F!W(w)!GatedTo(s, g)
    BY <1>2, SameQueries DEF G!AcceptTo, G!RejectTo
  <2>2. Written(w)
    BY <2>1, BlankIs
  <2>3. PICK i \in F!Lines(w) : w.edges[i].from = s /\ w.edges[i].gate = g /\ F!W(w)!GatedTo(s, g) = w.edges[i].to
    BY <2>1, <2>2, GatedLine
  <2>4. i \in G!Allowed(w, s, "gate", g)
    BY <2>3, AllowedIs
  <2>5. w.edges[i] \in Line
    BY <2>2, LinesTyped
  <2> QED
    BY <2>1, <2>3, <2>4, <2>5 DEF Line
<1> QED
  BY <1>1, <1>2

LEMMA CheckpointMove ==
    ASSUME GovernanceBounds, NEW w, w = F!Blank \/ Written(w), NEW s, F!W(w)!HasCheckpoint(s), NEW k, NEW a,
           k # "gate"
    PROVE  /\ F!W(w)!CheckpointTo(s) \in States
           /\ \E i \in G!Allowed(w, s, k, a) : F!W(w)!CheckpointTo(s) \in {w.edges[i].to, w.edges[i].exhausted}
<1>1. Written(w)
  BY BlankIs
<1>2. PICK i \in F!Lines(w) : w.edges[i].from = s /\ w.edges[i].gate = NoGate
                              /\ F!W(w)!CheckpointTo(s) = w.edges[i].to
  BY <1>1, CheckpointLine
<1>3. ~ F!W(w)!IsV2(s)
  BY DEF F!W!HasCheckpoint
<1>4. w.edges[i] \in Line
  BY <1>1, LinesTyped
<1>5. w.edges[i].on = Unset
  BY <1>2, <1>3, <1>4, FromIs DEF Line
<1>6. i \in G!Allowed(w, s, k, a)
  BY <1>2, <1>5, AllowedIs
<1> QED
  BY <1>2, <1>4, <1>6 DEF Line

LEMMA AdvanceMove ==
    ASSUME GovernanceBounds, NEW w, w = F!Blank \/ Written(w), NEW s, NEW t, G!W(w)!UngatedAdvance(s, t), NEW k, NEW a,
           k # "gate"
    PROVE  t \in States /\ \E i \in G!Allowed(w, s, k, a) : t \in {w.edges[i].to, w.edges[i].exhausted}
<1>1. PICK i \in G!W(w)!TransitionsFrom(s) : w.edges[i].to = t /\ w.edges[i].gate = NoGate /\ w.edges[i].on = Unset
  BY Zenon DEF G!W!UngatedAdvance, G!W!Edge, Unset
<1>2. F!W(w)!TransitionsFrom(s) # {} /\ i \in F!Lines(w) /\ w.edges[i].from = s
  <2>1. i \in F!Lines(w) /\ w.edges[i].from = s
    BY <1>1, SameFrom
  <2> QED
    BY <2>1, FromIs
<1>3. Written(w)
  BY <1>2, BlankIs
<1>4. w.edges[i] \in Line
  BY <1>2, <1>3, LinesTyped
<1>5. i \in G!Allowed(w, s, k, a)
  BY <1>1, <1>2, AllowedIs
<1> QED
  BY <1>1, <1>4, <1>5 DEF Line

-----------------------------------------------------------------------------
(* What check, list and --explain tell.                                    *)

LEMMA ListHolds ==
    ASSUME GovernanceBounds, Tree(file)
    PROVE  G!ListAgrees
  BY TopIsDefault DEF G!ListAgrees

\* A file that validates is not the empty one.
LEMMA ValidNotBlank == \A d : F!Validates(d) => d # F!Blank
  BY DEF F!Validates, F!Blank

LEMMA CleanGoverns ==
    ASSUME GovernanceBounds, Tree(file), NEW n, story \in StoryAfter(n), G!Clean(file, story)
    PROVE  G!Governing(file, [story EXCEPT !.selector = NoName]) # G!Blank
<1> DEFINE s == [story EXCEPT !.selector = NoName]
<1>1. s.selector = NoName /\ s.category = story.category /\ s.block = story.block
  BY DEF StoryAfter
<1> HIDE DEF s
<1>2. CASE G!Covered(file, story.category)
  <2>1. G!Governing(file, s) = file[G!Default(file, story.category)].wf
    BY <1>1, <1>2 DEF G!Governing
  <2>2. F!Validates(G!Governing(file, s))
    BY <1>2, <2>1, DefaultSource, SourcesAre
  <2> QED
    BY <2>2, ValidNotBlank, SameRules DEF s
<1>3. CASE ~ G!Covered(file, story.category)
  <2>1. ~ \E i \in G!Sound(file) : G!Covers(file[i], story.category)
    <3> SUFFICES ASSUME NEW i \in G!Sound(file), G!Covers(file[i], story.category) PROVE FALSE
      OBVIOUS
    <3>1. i \in 1..Slots /\ file[i] # NoFile /\ G!Validates(file[i].wf)
      BY DEF G!Sound, G!Checked, G!Accepted
    <3>2. i \in G!Palette(file, story.category)
      BY <3>1 DEF G!Palette, G!Sources, G!Parses
    <3> QED
      BY <1>3, <3>2, DefaultIs
  <2>2. story.block # NoBlock /\ G!Validates(story.block)
    BY <2>1 DEF G!Clean
  <2>3. G!Governing(file, s) = story.block
    BY <1>1, <1>3, <2>2 DEF G!Governing
  <2> QED
    BY <2>2, <2>3, ValidNotBlank, SameRules DEF s
<1> QED
  BY <1>2, <1>3

LEMMA CleanHasDefault ==
    ASSUME GovernanceBounds, Tree(file), NEW cat \in G!NamedCategories(file), ~ G!SameName(file),
           G!Cardinality(G!Tops(file, cat)) <= 1
    PROVE  G!Tops(file, cat) = {file[G!Default(file, cat)].name}
<1> DEFINE over == {i \in G!Checked(file) \cap G!Sources(file) : G!Covers(file[i], cat)}
           best == {j \in over : \A k \in over : G!Rank(file, j, cat) <= G!Rank(file, k, cat)}
           d == G!Default(file, cat)
<1>1. G!Tops(file, cat) = {file[i].name : i \in best}
  BY DEF G!Tops
<1>2. \A i \in 1..Slots : file[i] # NoFile => i \in G!Checked(file)
  <2> SUFFICES ASSUME NEW i \in 1..Slots, file[i] # NoFile, TierOf[i] = "embed",
                      NEW j \in 1..Slots, file[j] # NoFile, TierOf[j] = "local", file[j].name = file[i].name
               PROVE  FALSE
    BY DEF G!Checked
  <2>1. i # j
    OBVIOUS
  <2> QED
    BY <2>1 DEF G!SameName
<1>3. over = G!Palette(file, cat)
  <2>1. \A i \in G!Sources(file) : i \in G!Checked(file)
    BY <1>2 DEF G!Sources, G!Parses
  <2> QED
    BY <2>1 DEF G!Palette
<1>4. over # {}
  <2>1. PICK i \in G!Checked(file) \cap G!Sources(file) : cat \in file[i].applies
    BY DEF G!NamedCategories
  <2> QED
    BY <2>1, CoversIs
<1>5. d \in over /\ \A k \in over : G!Rank(file, d, cat) <= G!Rank(file, k, cat)
  <2>1. over \subseteq 1..Slots
    BY SourcesAre
  <2>2. \A i \in 1..Slots : G!Rank(file, i, cat) \in Nat
    BY DEF G!Rank, GovernanceBounds
  <2>3. /\ d \in over
        /\ \A j \in over : G!Rank(file, d, cat) < G!Rank(file, j, cat) \/ G!Rank(file, d, cat) = G!Rank(file, j, cat)
    <3> HIDE DEF over
    <3> QED
      BY <1>3, <1>4, DefaultIs
  <2> HIDE DEF over, d
  <2> QED
    BY <2>1, <2>2, <2>3
<1>6. file[d].name \in G!Tops(file, cat)
  BY <1>1, <1>5
<1>7. IsFiniteSet(G!Tops(file, cat))
  <2>1. IsFiniteSet(1..Slots)
    BY FS_Interval DEF GovernanceBounds
  <2>2. best \in SUBSET (1..Slots)
    BY SourcesAre
  <2>3. IsFiniteSet(best)
    <3> HIDE DEF best
    <3> QED
      BY <2>1, <2>2, FS_Subset
  <2> DEFINE h == [i \in best |-> file[i].name]
  <2>4. h \in Surjection(best, G!Tops(file, cat))
    <3> HIDE DEF best
    <3> QED
      BY <1>1 DEF Surjection
  <2> HIDE DEF best, h
  <2> QED
    BY <2>3, <2>4, FS_Surjection
<1>8. Cardinality(G!Tops(file, cat)) <= 1
  BY DEF G!Cardinality, Cardinality
<1> DEFINE tops == G!Tops(file, cat)
           x == file[d].name
<1>9. ASSUME NEW y \in tops PROVE y = x
  <2> SUFFICES ASSUME y # x PROVE FALSE
    OBVIOUS
  <2>1. {x, y} \subseteq tops
    BY <1>6, <1>9
  <2> HIDE DEF x, tops
  <2>2. Cardinality({x, y}) = 2
    <3>1. Cardinality({x}) = 1 /\ IsFiniteSet({x})
      BY FS_Singleton
    <3>2. {x, y} = {x} \cup {y} /\ y \notin {x}
      OBVIOUS
    <3>3. Cardinality({x} \cup {y}) = Cardinality({x}) + 1
      BY <3>1, <3>2, FS_AddElement
    <3> QED
      BY <3>1, <3>2, <3>3
  <2>3. Cardinality({x, y}) <= Cardinality(tops) /\ Cardinality(tops) \in Nat
    <3>1. IsFiniteSet(tops)
      BY <1>7 DEF tops
    <3> QED
      BY <2>1, <3>1, FS_Subset, FS_CardinalityType
  <2>4. Cardinality(tops) <= 1
    BY <1>8 DEF tops
  <2> QED
    BY <2>2, <2>3, <2>4
<1> QED
  BY <1>6, <1>9

LEMMA CheckHolds ==
    ASSUME GovernanceBounds, Tree(file), NEW n, story \in StoryAfter(n)
    PROVE  G!CheckSound
<1> SUFFICES ASSUME G!Clean(file, story)
             PROVE  /\ G!Governing(file, [story EXCEPT !.selector = NoName]) # G!Blank
                    /\ ~ G!SameName(file) => \A cat \in G!NamedCategories(file) :
                          G!Tops(file, cat) = {file[G!Default(file, cat)].name}
  BY DEF G!CheckSound
<1>1. \A cat \in G!NamedCategories(file) : G!Cardinality(G!Tops(file, cat)) <= 1
  BY DEF G!Clean
<1> QED
  BY <1>1, CleanGoverns, CleanHasDefault

-----------------------------------------------------------------------------
LEMMA SameReview ==
    ASSUME NEW d, NEW s
    PROVE  /\ G!W(d)!EdgesOn(s, "pass") = F!W(d)!EdgesOn(s, "pass")
           /\ G!W(d)!ReviewerSkill(s) = F!W(d)!ReviewerSkill(s)
<1>1. G!W(d)!TransitionsFrom(s) = F!W(d)!TransitionsFrom(s)
  BY Zenon DEF G!W!TransitionsFrom, G!W!Edges, G!W!Edge, F!W!TransitionsFrom, F!W!Edges, F!W!Edge
<1>2. \A o : G!W(d)!EdgesOn(s, o) = F!W(d)!EdgesOn(s, o)
  BY <1>1, Zenon DEF G!W!EdgesOn, F!W!EdgesOn, G!W!Edge, F!W!Edge
<1>3. G!W(d)!NamingEdges(s) = F!W(d)!NamingEdges(s)
  <2>1. G!W(d)!EdgesOn(s, "pass") = F!W(d)!EdgesOn(s, "pass") /\ G!W(d)!EdgesOn(s, "fail") = F!W(d)!EdgesOn(s, "fail")
    BY <1>2
  <2> QED
    BY <2>1 DEF G!W!NamingEdges, F!W!NamingEdges, G!W!Edge, F!W!Edge
<1>4. \A S : G!W(d)!FirstOf(S) = F!W(d)!FirstOf(S)
  BY Zenon DEF G!W!FirstOf, F!W!FirstOf
<1>5. G!W(d)!ReviewerSkill(s) = F!W(d)!ReviewerSkill(s)
  BY <1>3, <1>4 DEF G!W!ReviewerSkill, F!W!ReviewerSkill, G!W!Edge, F!W!Edge
<1> QED
  BY <1>2, <1>5

\* The gate a review names is on one of its edges.
LEMMA ReviewNames ==
    ASSUME NEW d, Written(d), NEW s, F!W(d)!ReviewerSkill(s) # NoGate
    PROVE  \E m \in F!Lines(d) : /\ d.edges[m].from = s /\ d.edges[m].on \in {"pass", "fail"}
                                 /\ d.edges[m].gate = F!W(d)!ReviewerSkill(s)
<1>1. F!W(d)!NamingEdges(s) =
          {i \in F!Lines(d) : d.edges[i].from = s /\ d.edges[i].on \in {"pass", "fail"} /\ d.edges[i].gate # NoGate}
  BY DEF F!W!NamingEdges, F!W!EdgesOn, F!W!TransitionsFrom, F!W!Edge, F!W!Edges, F!Lines
<1>2. F!W(d)!NamingEdges(s) # {}
  BY DEF F!W!ReviewerSkill
<1>3. F!W(d)!NamingEdges(s) \in SUBSET F!Lines(d)
  BY <1>1
<1>4. F!W(d)!FirstOf(F!W(d)!NamingEdges(s)) \in F!W(d)!NamingEdges(s)
  BY <1>2, <1>3, PicksFirst
<1>5. F!W(d)!ReviewerSkill(s) = d.edges[F!W(d)!FirstOf(F!W(d)!NamingEdges(s))].gate
  BY <1>2 DEF F!W!ReviewerSkill, F!W!Edge
<1> QED
  BY <1>1, <1>4, <1>5

LEMMA ExplainedIs ==
    ASSUME NEW w, NEW s, NEW g
    PROVE  /\ G!Explained(w, s, g) = {i \in F!Lines(w) : w.edges[i].from = s /\ w.edges[i].gate = g}
           /\ \A i \in G!Explained(w, s, g) : (\A j \in G!Explained(w, s, g) : j = i) /\ i <= i =>
                 G!ExplainedTo(w, s, g) = w.edges[i].to
<1>1. G!Explained(w, s, g) = {i \in F!Lines(w) : w.edges[i].from = s /\ w.edges[i].gate = g}
  BY SameFrom DEF G!Explained
<1> DEFINE E == G!Explained(w, s, g)
<1>2. ASSUME NEW i \in E, \A j \in E : j = i, i <= i PROVE G!ExplainedTo(w, s, g) = w.edges[i].to
  <2>1. \A k \in E : (\A j \in E : j <= k) <=> k = i
    BY <1>2
  <2>2. (CHOOSE k \in E : \A j \in E : j <= k) = i
    <3> HIDE DEF E
    <3> QED
      BY <1>2, <2>1
  <2> QED
    BY <2>2 DEF G!ExplainedTo
<1> QED
  BY <1>1, <1>2

\* Where --explain does not mislead, it tells what an accept enacts.
LEMMA ExplainIs ==
    ASSUME LineBounds, NEW w, w = F!Blank \/ (Written(w) /\ F!Validates(w)), NEW s, NEW g \in Gates,
           ~ G!ExplainMisleads(w, s, g)
    PROVE  G!AcceptTo(w, s, g) = IF G!Explained(w, s, g) = {} THEN {} ELSE {G!ExplainedTo(w, s, g)}
<1> DEFINE E == G!Explained(w, s, g)
           skill == F!W(w)!ReviewerSkill(s)
<1>1. E = {i \in F!Lines(w) : w.edges[i].from = s /\ w.edges[i].gate = g}
  BY ExplainedIs
<1>2. g # NoGate
  BY DEF LineBounds
<1>3. /\ \A i, j \in E : i = j
      /\ \A i \in E : /\ w.edges[i].on # "fail"
                      /\ w.edges[i].on = Unset => w.edges[i].trigger = Unset /\ ~ G!W(w)!IsV2(s)
                      /\ G!W(w)!IsV2(s) => G!W(w)!ReviewerSkill(s) = g
      /\ G!W(w)!IsV2(s) => /\ G!W(w)!ReviewerSkill(s) # NoGate
                           /\ \A i, j \in G!W(w)!EdgesOn(s, "pass") : i = j
  BY Zenon DEF G!ExplainMisleads, Unset
<1>4. /\ \A i \in E : /\ w.edges[i].on = Unset => w.edges[i].trigger = Unset /\ ~ F!W(w)!IsV2(s)
                      /\ F!W(w)!IsV2(s) => skill = g
      /\ F!W(w)!IsV2(s) => skill # NoGate /\ \A i, j \in F!W(w)!EdgesOn(s, "pass") : i = j
  <2>1. (G!W(w)!IsV2(s) <=> F!W(w)!IsV2(s)) /\ G!W(w)!ReviewerSkill(s) = F!W(w)!ReviewerSkill(s)
        /\ G!W(w)!EdgesOn(s, "pass") = F!W(w)!EdgesOn(s, "pass")
    BY SameReview, SameQueries
  <2> QED
    BY <1>3, <2>1
<1>5. /\ F!W(w)!IsV2(s) => G!AcceptTo(w, s, g) = IF skill \in {NoGate, g} THEN {F!W(w)!PassTo(s)} ELSE {}
      /\ ~ F!W(w)!IsV2(s) => G!AcceptTo(w, s, g) = IF F!W(w)!HasGatedEdge(s, g) THEN {F!W(w)!GatedTo(s, g)} ELSE {}
  BY SameReview, SameQueries DEF G!AcceptTo, G!W!GateMatches
<1>6. ASSUME NEW i \in E, i <= i PROVE E # {} /\ G!ExplainedTo(w, s, g) = w.edges[i].to
  BY <1>3, <1>6, ExplainedIs
<1>7. \A i \in F!Lines(w) : i <= i
  <2>1. CASE w = F!Blank
    BY <2>1 DEF F!Blank, F!Lines
  <2>2. CASE Written(w)
    <3>1. Len(w.edges) \in Nat /\ F!Lines(w) = 1..Len(w.edges)
      BY <2>2, LinesTyped
    <3>2. \A n \in Nat : \A i \in 1..n : i <= i
      OBVIOUS
    <3> QED
      BY <3>1, <3>2
  <2> QED
    BY <2>1, <2>2
<1> HIDE DEF E
<1>8. CASE F!W(w)!IsV2(s) /\ skill = g
  <2>1. Written(w) /\ F!Validates(w)
    BY <1>8, BlankIs
  <2>2. PICK m \in F!Lines(w) : w.edges[m].from = s /\ w.edges[m].on \in {"pass", "fail"} /\ w.edges[m].gate = g
    BY <1>2, <1>8, <2>1, ReviewNames
  <2>3. m \in E /\ w.edges[m].on = "pass"
    BY <1>1, <1>3, <2>2
  <2>4. PICK p \in F!Lines(w) : w.edges[p].from = s /\ w.edges[p].on = "pass" /\ F!W(w)!PassTo(s) = w.edges[p].to
    BY <1>8, <2>1, Reviewed2
  <2>5. p = m
    <3>1. p \in F!W(w)!EdgesOn(s, "pass") /\ m \in F!W(w)!EdgesOn(s, "pass")
      BY <2>2, <2>3, <2>4, EdgesOnIs
    <3> QED
      BY <1>4, <1>8, <3>1
  <2>6. E # {} /\ G!ExplainedTo(w, s, g) = w.edges[m].to
    BY <1>6, <1>7, <2>3
  <2> QED
    BY <1>5, <1>8, <2>4, <2>5, <2>6 DEF E
<1>9. CASE F!W(w)!IsV2(s) /\ skill # g
  <2>1. E = {}
    BY <1>4, <1>9
  <2>2. skill \notin {NoGate, g}
    BY <1>4, <1>9
  <2> QED
    BY <1>5, <1>9, <2>1, <2>2 DEF E
<1>10. CASE ~ F!W(w)!IsV2(s)
  <2>1. CASE E = {}
    <3>1. ~ F!W(w)!HasGatedEdge(s, g)
      <4> SUFFICES ASSUME F!W(w)!HasGatedEdge(s, g) PROVE FALSE
        OBVIOUS
      <4>1. Written(w)
        BY BlankIs
      <4>2. \E i \in F!Lines(w) : w.edges[i].from = s /\ w.edges[i].gate = g
        BY <4>1, GatedLine
      <4> QED
        BY <1>1, <2>1, <4>2
    <3> QED
      BY <1>5, <1>10, <2>1, <3>1 DEF E
  <2>2. CASE E # {}
    <3>1. PICK i : i \in E
      BY <2>2
    <3>2. i \in F!Lines(w) /\ w.edges[i].from = s /\ w.edges[i].gate = g
      BY <1>1, <3>1
    <3>3. Written(w)
      <4>1. F!Lines(F!Blank) = {}
        BY DEF F!Blank, F!Lines
      <4> QED
        BY <3>2, <4>1
    <3>4. w.edges[i].on = Unset
      <4>1. w.edges[i].on \notin {"pass", "fail"}
        BY <1>10, <3>2, FromIs
      <4> QED
        BY <3>2, <3>3, <4>1, LinesTyped DEF Line
    <3>5. w.edges[i].trigger = Unset
      BY <1>4, <3>1, <3>4
    <3>6. i \in F!W(w)!GatedEdges(s, g)
      <4>1. i \in F!W(w)!TransitionsFrom(s)
        BY <3>2, FromIs
      <4> QED
        BY <1>2, <3>2, <3>4, <3>5, <4>1, Zenon DEF F!W!GatedEdges, F!W!Edge, Unset
    <3>7. F!W(w)!HasGatedEdge(s, g)
      BY <3>6 DEF F!W!HasGatedEdge
    <3>8. PICK j \in F!Lines(w) : w.edges[j].from = s /\ w.edges[j].gate = g /\ F!W(w)!GatedTo(s, g) = w.edges[j].to
      BY <3>3, <3>7, GatedLine
    <3>9. j = i
      BY <1>1, <1>3, <3>1, <3>8
    <3>10. G!ExplainedTo(w, s, g) = w.edges[i].to
      BY <1>6, <1>7, <3>1, <3>2
    <3> QED
      BY <1>5, <1>10, <2>2, <3>7, <3>8, <3>9, <3>10 DEF E
  <2> QED
    BY <2>1, <2>2
<1> QED
  BY <1>8, <1>9, <1>10

LEMMA ReportsHold ==
    ASSUME GovernanceBounds, Tree(file), NEW n, story \in StoryAfter(n)
    PROVE  G!ReportsAgree
<1>1. G!ExplainAgrees
  <2>1. \/ G!Governing(file, story) = F!Blank
        \/ Written(G!Governing(file, story)) /\ F!Validates(G!Governing(file, story))
    BY GoverningIs
  <2>2. LineBounds
    BY DEF GovernanceBounds
  <2> QED
    BY <2>1, <2>2, ExplainIs DEF G!ExplainAgrees
<1> QED
  BY <1>1, ListHolds, CheckHolds DEF G!ReportsAgree

-----------------------------------------------------------------------------
(* The commands.                                                           *)

\* What a command under way knows: what it read of the story, what it found in the files,
\* and why it goes on.
CmdInv(c, n) ==
    /\ c = [kind |-> c.kind, at |-> c.at, arg |-> c.arg, saw |-> c.saw, found |-> c.found]
    /\ c.at \in {"read", "act", "stamp"} /\ c.kind \in G!Kinds
    /\ c.kind = "gate" => c.arg \in Gates
    /\ c.saw \in StoryAfter(n)
    /\ c.at \in {"act", "stamp"} => Tree(c.found)
    /\ c.at = "act" =>
          \/ c.kind = "set-status" /\ G!W(G!Governing(c.found, c.saw))!UngatedAdvance(c.saw.status, c.arg)
          \/ c.kind \in {"gate", "checkpoint"} /\ (c.saw.selector # NoName => G!Selected(c.found, c.saw))
    /\ c.at = "stamp" =>
          /\ c.kind = "embed"
          /\ IF c.saw.selector # NoName THEN G!Selected(c.found, c.saw) ELSE G!Covered(c.found, c.saw.category)

GovInv ==
    /\ Tree(file)
    /\ edits \in 0..MaxEdits /\ story \in StoryAfter(edits)
    /\ cmd = G!Idle \/ CmdInv(cmd, edits)

LEMMA IdleIs == G!Idle.at = "idle" /\ G!Idle.kind = "none"
  BY Zenon DEF G!Idle

LEMMA StoryGrows ==
    ASSUME NEW m \in Nat, NEW n \in Nat, m <= n
    PROVE  /\ StoryAfter(m) \subseteq StoryAfter(n)
           /\ \A c : CmdInv(c, m) => CmdInv(c, n)
<1>1. 0..m \subseteq 0..n
  OBVIOUS
<1>2. StoryAfter(m) \subseteq StoryAfter(n)
  BY <1>1 DEF StoryAfter
<1> QED
  BY <1>2 DEF CmdInv

LEMMA NameIs ==
    ASSUME GovernanceBounds, NEW in, Tree(in), NEW i \in G!Sources(in)
    PROVE  /\ in[i].name \in G!Names /\ in[i].wf \in {f.wf : f \in Files}
           /\ G!FirstOfName(in, in[i].name) \in {f.wf : f \in Files}
           /\ ~ G!SameName(in) => G!FirstOfName(in, in[i].name) = in[i].wf
<1> DEFINE S == {j \in 1..Slots : in[j] # NoFile /\ in[j].name = in[i].name}
<1>1. i \in 1..Slots /\ in[i] \in Files /\ in[i] # NoFile
  BY SourcesAre DEF GovernanceBounds
<1>2. S \in SUBSET (1..Slots) /\ S # {}
  BY <1>1
<1>3. G!First(S) \in S
  <2> HIDE DEF S
  <2> QED
    BY <1>2, FirstSource
<1>4. G!FirstOfName(in, in[i].name) = in[G!First(S)].wf
  BY DEF G!FirstOfName
<1>5. in[G!First(S)] \in Files
  BY <1>3 DEF Tree
<1>6. ~ G!SameName(in) => G!First(S) = i
  BY <1>1, <1>3 DEF G!SameName
<1> QED
  BY <1>1, <1>4, <1>5, <1>6 DEF G!Names

\* Stamping a source writes a block of a file: its own, unless another file has its name.
LEMMA StampIs ==
    ASSUME GovernanceBounds, NEW in, Tree(in), NEW i \in G!Sources(in), NEW n, NEW s \in StoryAfter(n)
    PROVE  /\ G!Stamped(in, i, s) \in {f.wf : f \in Files} \cup {NoBlock}
           /\ G!Stamped(in, i, s) # s.block =>
                 G!Equivalent(G!Stamped(in, i, s), in[i].wf) \/ G!SameName(in)
<1>1. s.block \in {f.wf : f \in Files} \cup {NoBlock}
  BY DEF StoryAfter
<1>2. G!Equivalent(in[i].wf, in[i].wf)
  BY DEF G!Equivalent, G!SameBag
<1>3. G!Stamped(in, i, s) = s.block \/ G!Stamped(in, i, s) = G!FirstOfName(in, in[i].name)
  BY DEF G!Stamped
<1>4. /\ G!FirstOfName(in, in[i].name) \in {f.wf : f \in Files}
      /\ ~ G!SameName(in) => G!FirstOfName(in, in[i].name) = in[i].wf
  BY NameIs
<1>5. G!Stamped(in, i, s) \in {f.wf : f \in Files} \cup {NoBlock}
  BY <1>1, <1>3, <1>4
<1>6. ASSUME G!Stamped(in, i, s) # s.block, ~ G!SameName(in)
      PROVE  G!Equivalent(G!Stamped(in, i, s), in[i].wf)
  <2>1. G!Stamped(in, i, s) = in[i].wf
    BY <1>3, <1>4, <1>6
  <2> QED
    BY <1>2, <2>1
<1> QED
  BY <1>5, <1>6

LEMMA EmbedSourceIs ==
    ASSUME GovernanceBounds, CmdInv(cmd, edits), cmd.at = "stamp"
    PROVE  /\ G!EmbedSource \in G!Sources(cmd.found)
           /\ G!Authority(cmd.found, cmd.saw) = cmd.found[G!EmbedSource].wf
<1>1. Tree(cmd.found)
  BY DEF CmdInv
<1>2. CASE cmd.saw.selector # NoName
  <2>1. G!Selected(cmd.found, cmd.saw)
    BY <1>2 DEF CmdInv
  <2> QED
    BY <1>1, <1>2, <2>1, SelectedIs DEF G!EmbedSource, G!Authority
<1>3. CASE cmd.saw.selector = NoName
  <2>1. G!Covered(cmd.found, cmd.saw.category)
    BY <1>3 DEF CmdInv
  <2>2. G!Palette(cmd.found, cmd.saw.category) # {}
    BY <1>1, <2>1, DefaultIs
  <2> QED
    BY <1>1, <1>3, <2>1, <2>2, DefaultSource DEF G!EmbedSource, G!Authority
<1> QED
  BY <1>2, <1>3

\* What a command read moves the story under the file that has authority.
LEMMA MoveIs ==
    ASSUME GovernanceBounds, CmdInv(cmd, edits), cmd.at = "act", NEW t,
           \/ cmd.kind = "set-status" /\ t = cmd.arg
           \/ /\ cmd.kind = "checkpoint" /\ F!W(G!Governing(cmd.found, cmd.saw))!HasCheckpoint(cmd.saw.status)
              /\ t = F!W(G!Governing(cmd.found, cmd.saw))!CheckpointTo(cmd.saw.status)
           \/ /\ cmd.kind = "gate"
              /\ t \in G!AcceptTo(G!Governing(cmd.found, cmd.saw), cmd.saw.status, cmd.arg)
                       \cup G!RejectTo(G!Governing(cmd.found, cmd.saw), cmd.saw.status, cmd.arg)
    PROVE  /\ t \in States
           /\ \/ \E i \in G!Allowed(G!Authority(cmd.found, cmd.saw), cmd.saw.status, cmd.kind, cmd.arg) :
                     t \in {G!Authority(cmd.found, cmd.saw).edges[i].to, G!Authority(cmd.found, cmd.saw).edges[i].exhausted}
              \/ cmd.kind = "set-status" /\ cmd.saw.selector # NoName /\ ~ G!Selected(cmd.found, cmd.saw)
<1> DEFINE w == G!Governing(cmd.found, cmd.saw)
<1>1. Tree(cmd.found) /\ cmd.saw \in StoryAfter(edits)
  BY DEF CmdInv
<1>2. w = F!Blank \/ (Written(w) /\ F!Validates(w))
  BY <1>1, GoverningIs
<1>3. (cmd.saw.selector # NoName => G!Selected(cmd.found, cmd.saw)) => G!Authority(cmd.found, cmd.saw) = w
  BY <1>1, AuthorityIs
<1> HIDE DEF w
<1>4. CASE cmd.kind = "set-status" /\ t = cmd.arg
  <2>1. G!W(w)!UngatedAdvance(cmd.saw.status, cmd.arg) /\ cmd.kind # "gate"
    BY <1>4 DEF CmdInv, w
  <2>2. t \in States /\ \E i \in G!Allowed(w, cmd.saw.status, cmd.kind, cmd.arg) : t \in {w.edges[i].to, w.edges[i].exhausted}
    BY <1>2, <1>4, <2>1, AdvanceMove
  <2> QED
    BY <1>3, <1>4, <2>2
<1>5. CASE cmd.kind = "checkpoint" /\ F!W(w)!HasCheckpoint(cmd.saw.status) /\ t = F!W(w)!CheckpointTo(cmd.saw.status)
  <2>1. G!Authority(cmd.found, cmd.saw) = w /\ cmd.kind # "gate"
    BY <1>3, <1>5 DEF CmdInv
  <2>2. t \in States /\ \E i \in G!Allowed(w, cmd.saw.status, cmd.kind, cmd.arg) : t \in {w.edges[i].to, w.edges[i].exhausted}
    BY <1>2, <1>5, <2>1, CheckpointMove
  <2> QED
    BY <2>1, <2>2
<1>6. CASE cmd.kind = "gate" /\ t \in G!AcceptTo(w, cmd.saw.status, cmd.arg) \cup G!RejectTo(w, cmd.saw.status, cmd.arg)
  <2>1. G!Authority(cmd.found, cmd.saw) = w /\ cmd.arg \in Gates
    BY <1>3, <1>6 DEF CmdInv
  <2>2. t \in States /\ \E i \in G!Allowed(w, cmd.saw.status, "gate", cmd.arg) : t \in {w.edges[i].to, w.edges[i].exhausted}
    BY <1>2, <1>6, <2>1, GateMove
  <2> QED
    BY <1>6, <2>1, <2>2
<1> QED
  BY <1>4, <1>5, <1>6 DEF w

-----------------------------------------------------------------------------
LEMMA GovInit == GovernanceBounds /\ G!Init => GovInv
<1> SUFFICES ASSUME GovernanceBounds, G!Init PROVE GovInv
  OBVIOUS
<1>1. edits = 0 /\ edits \in 0..MaxEdits
  BY DEF G!Init, GovernanceBounds
<1>2. story \in StoryAfter(edits)
  BY <1>1 DEF G!Init, StoryAfter
<1> QED
  BY <1>1, <1>2 DEF G!Init, GovInv, Tree

\* What a step does to the story, and that it may.
StepIs ==
    /\ story'.status # story.status =>
          LET w == G!Authority(cmd.found, cmd.saw)
          IN  \/ \E i \in G!Allowed(w, cmd.saw.status, cmd.kind, cmd.arg) :
                    story'.status \in {w.edges[i].to, w.edges[i].exhausted}
              \/ cmd.kind = "set-status" /\ cmd.saw.selector # NoName /\ ~ G!Selected(cmd.found, cmd.saw)
    /\ story'.block # story.block /\ cmd.kind # "design" =>
          LET in == IF cmd.at = "read" THEN file ELSE cmd.found
          IN  G!Equivalent(story'.block, G!Authority(in, cmd.saw)) \/ G!SameName(in)
    /\ cmd' # cmd /\ cmd.at # "idle" => story'.text = story.text \/ cmd.saw.text # story.text

LEMMA Quiet == UNCHANGED story => StepIs
  BY DEF StepIs

LEMMA GovMove ==
    ASSUME GovernanceBounds, GovInv, G!SetStatus \/ G!TakeCheckpoint \/ G!TakeGate
    PROVE  GovInv' /\ StepIs
<1>1. cmd.at = "act" /\ CmdInv(cmd, edits)
  BY IdleIs DEF GovInv, G!SetStatus, G!TakeCheckpoint, G!TakeGate
<1>2. PICK t : /\ story' = [story EXCEPT !.status = t]
               /\ \/ cmd.kind = "set-status" /\ t = cmd.arg
                  \/ /\ cmd.kind = "checkpoint" /\ F!W(G!Governing(cmd.found, cmd.saw))!HasCheckpoint(cmd.saw.status)
                     /\ t = F!W(G!Governing(cmd.found, cmd.saw))!CheckpointTo(cmd.saw.status)
                  \/ /\ cmd.kind = "gate"
                     /\ t \in G!AcceptTo(G!Governing(cmd.found, cmd.saw), cmd.saw.status, cmd.arg)
                              \cup G!RejectTo(G!Governing(cmd.found, cmd.saw), cmd.saw.status, cmd.arg)
  <2>1. CASE G!SetStatus
    BY <2>1 DEF G!SetStatus
  <2>2. CASE G!TakeCheckpoint
    <3> DEFINE w == G!Governing(cmd.found, cmd.saw)
    <3>1. /\ cmd.kind = "checkpoint" /\ G!W(w)!HasCheckpoint(cmd.saw.status)
          /\ story' = [story EXCEPT !.status = G!W(w)!CheckpointTo(cmd.saw.status)]
      BY <2>2 DEF G!TakeCheckpoint
    <3>2. /\ F!W(w)!HasCheckpoint(cmd.saw.status)
          /\ G!W(w)!CheckpointTo(cmd.saw.status) = F!W(w)!CheckpointTo(cmd.saw.status)
      BY <3>1, SameQueries
    <3> QED
      BY <3>1, <3>2
  <2>3. CASE G!TakeGate
    BY <2>3 DEF G!TakeGate
  <2> QED
    BY <2>1, <2>2, <2>3
<1>3. /\ t \in States
      /\ \/ \E i \in G!Allowed(G!Authority(cmd.found, cmd.saw), cmd.saw.status, cmd.kind, cmd.arg) :
                t \in {G!Authority(cmd.found, cmd.saw).edges[i].to, G!Authority(cmd.found, cmd.saw).edges[i].exhausted}
         \/ cmd.kind = "set-status" /\ cmd.saw.selector # NoName /\ ~ G!Selected(cmd.found, cmd.saw)
  BY <1>1, <1>2, MoveIs
<1>4. cmd' = G!Idle /\ UNCHANGED <<file, edits>>
  BY DEF G!SetStatus, G!TakeCheckpoint, G!TakeGate
<1>5. story \in StoryAfter(edits)
  BY DEF GovInv
<1>6. story' \in StoryAfter(edits) /\ story'.status = t /\ story'.block = story.block /\ story'.text = story.text
  BY <1>2, <1>3, <1>5 DEF StoryAfter
<1>7. GovInv'
  BY <1>4, <1>6 DEF GovInv
<1>8. StepIs
  BY <1>3, <1>6 DEF StepIs
<1> QED
  BY <1>7, <1>8

LEMMA GovReady ==
    ASSUME GovernanceBounds, GovInv, G!ReadyToMove
    PROVE  GovInv' /\ StepIs
<1>1. cmd.at = "read" /\ CmdInv(cmd, edits) /\ cmd.kind \in {"gate", "checkpoint"}
      /\ (cmd.saw.selector # NoName => G!Selected(file, cmd.saw)) /\ UNCHANGED <<file, edits>>
  BY IdleIs DEF GovInv, G!ReadyToMove
<1>2. Tree(file) /\ story \in StoryAfter(edits) /\ cmd.saw \in StoryAfter(edits) /\ edits \in 0..MaxEdits
  BY <1>1 DEF GovInv, CmdInv
<1>3. cmd = [kind |-> cmd.kind, at |-> cmd.at, arg |-> cmd.arg, saw |-> cmd.saw, found |-> cmd.found]
      /\ cmd.kind \in G!Kinds /\ (cmd.kind = "gate" => cmd.arg \in Gates)
  BY <1>1 DEF CmdInv
<1>4. CASE UNCHANGED story /\ cmd' = [cmd EXCEPT !.at = "act", !.found = file]
  <2>1. cmd' = [kind |-> cmd.kind, at |-> "act", arg |-> cmd.arg, saw |-> cmd.saw, found |-> file]
    BY <1>3, <1>4
  <2>2. CmdInv(cmd', edits)
    BY <1>1, <1>2, <1>3, <2>1 DEF CmdInv
  <2> QED
    BY <1>1, <1>2, <1>4, <2>2, Quiet DEF GovInv
<1>5. CASE /\ G!Drifted(file, cmd.saw)
           /\ story' = [story EXCEPT !.block = G!Stamped(file, G!Default(file, cmd.saw.category), cmd.saw), !.text = cmd.saw.text]
           /\ cmd' = [cmd EXCEPT !.at = "act", !.found = file,
                                 !.saw.block = G!Stamped(file, G!Default(file, cmd.saw.category), cmd.saw)]
  <2> DEFINE i == G!Default(file, cmd.saw.category)
             b == G!Stamped(file, i, cmd.saw)
  <2>1. cmd.saw.selector = NoName /\ G!Covered(file, cmd.saw.category)
        /\ cmd.saw.block # NoBlock /\ G!Validates(cmd.saw.block) /\ ~ G!Equivalent(file[i].wf, cmd.saw.block)
    BY <1>5 DEF G!Drifted
  <2>2. i \in G!Sources(file) /\ G!Authority(file, cmd.saw) = file[i].wf
    <3>1. i \in G!Sources(file) /\ G!Top(file, cmd.saw.category) = i
      BY <1>2, <2>1, DefaultSource
    <3>2. G!Palette(file, cmd.saw.category) # {}
      BY <1>2, <2>1, DefaultIs
    <3> QED
      BY <2>1, <3>1, <3>2 DEF G!Authority
  <2>3. b \in {f.wf : f \in Files} /\ (G!Equivalent(b, file[i].wf) \/ G!SameName(file))
    <3>1. b = G!FirstOfName(file, file[i].name)
      BY <2>1 DEF G!Stamped
    <3>2. \A x : G!Equivalent(x, x)
      BY DEF G!Equivalent, G!SameBag
    <3> QED
      BY <1>2, <2>2, <3>1, <3>2, NameIs
  <2>4. story' = [story EXCEPT !.block = b, !.text = cmd.saw.text]
        /\ cmd' = [cmd EXCEPT !.at = "act", !.found = file, !.saw.block = b]
    BY <1>5
  <2> HIDE DEF b, i
  <2>5. story' \in StoryAfter(edits) /\ story'.status = story.status /\ story'.block = b /\ story'.text = cmd.saw.text
    BY <1>2, <2>3, <2>4 DEF StoryAfter
  <2>6. cmd' = [kind |-> cmd.kind, at |-> "act", arg |-> cmd.arg, saw |-> [cmd.saw EXCEPT !.block = b], found |-> file]
    BY <1>3, <2>4
  <2>7. cmd'.saw \in StoryAfter(edits) /\ cmd'.saw.selector = NoName
    BY <1>2, <2>1, <2>3, <2>6 DEF StoryAfter
  <2>8. CmdInv(cmd', edits)
    BY <1>1, <1>2, <1>3, <2>6, <2>7 DEF CmdInv
  <2>9. GovInv'
    BY <1>1, <1>2, <2>5, <2>8 DEF GovInv
  <2>10. StepIs
    BY <1>1, <2>2, <2>3, <2>5 DEF StepIs
  <2> QED
    BY <2>9, <2>10
<1> QED
  BY <1>4, <1>5 DEF G!ReadyToMove, G!Then

LEMMA GovSet ==
    ASSUME GovernanceBounds, GovInv, G!ReadyToSet \/ G!EmbedSelected
    PROVE  GovInv' /\ StepIs
<1>1. cmd.at = "read" /\ CmdInv(cmd, edits) /\ UNCHANGED <<file, story, edits>>
  BY IdleIs DEF GovInv, G!ReadyToSet, G!EmbedSelected
<1>2. Tree(file) /\ story \in StoryAfter(edits) /\ cmd.saw \in StoryAfter(edits) /\ edits \in 0..MaxEdits
  BY <1>1 DEF GovInv, CmdInv
<1>3. cmd = [kind |-> cmd.kind, at |-> cmd.at, arg |-> cmd.arg, saw |-> cmd.saw, found |-> cmd.found]
      /\ cmd.kind \in G!Kinds /\ (cmd.kind = "gate" => cmd.arg \in Gates)
  BY <1>1 DEF CmdInv
<1>4. CASE G!ReadyToSet
  <2>1. cmd' = [kind |-> cmd.kind, at |-> "act", arg |-> cmd.arg, saw |-> cmd.saw, found |-> file]
    BY <1>3, <1>4 DEF G!ReadyToSet, G!Then
  <2>2. cmd.kind = "set-status" /\ G!W(G!Governing(file, cmd.saw))!UngatedAdvance(cmd.saw.status, cmd.arg)
    BY <1>4 DEF G!ReadyToSet
  <2>3. CmdInv(cmd', edits)
    BY <1>2, <1>3, <2>1, <2>2 DEF CmdInv
  <2> QED
    BY <1>1, <1>2, <2>3, Quiet DEF GovInv
<1>5. CASE G!EmbedSelected
  <2>1. cmd' = [kind |-> cmd.kind, at |-> "stamp", arg |-> cmd.arg, saw |-> cmd.saw, found |-> file]
    BY <1>3, <1>5 DEF G!EmbedSelected, G!Then
  <2>2. cmd.kind = "embed" /\ cmd.saw.selector # NoName /\ G!Selected(file, cmd.saw)
    BY <1>5 DEF G!EmbedSelected
  <2>3. CmdInv(cmd', edits)
    BY <1>2, <1>3, <2>1, <2>2 DEF CmdInv
  <2> QED
    BY <1>1, <1>2, <2>3, Quiet DEF GovInv
<1> QED
  BY <1>4, <1>5

LEMMA GovEmbed ==
    ASSUME GovernanceBounds, GovInv, G!EmbedDefault
    PROVE  GovInv' /\ StepIs
<1>1. cmd.at = "read" /\ CmdInv(cmd, edits) /\ cmd.kind = "embed" /\ UNCHANGED <<file, edits>>
      /\ cmd.saw.selector = NoName /\ G!Covered(file, cmd.saw.category)
      /\ story' = [story EXCEPT !.selector = file[G!Default(file, cmd.saw.category)].name]
      /\ cmd' = [cmd EXCEPT !.at = "stamp", !.found = file]
  BY IdleIs DEF GovInv, G!EmbedDefault
<1>2. Tree(file) /\ story \in StoryAfter(edits) /\ cmd.saw \in StoryAfter(edits) /\ edits \in 0..MaxEdits
  BY <1>1 DEF GovInv, CmdInv
<1>3. cmd = [kind |-> cmd.kind, at |-> cmd.at, arg |-> cmd.arg, saw |-> cmd.saw, found |-> cmd.found]
      /\ cmd.kind \in G!Kinds
  BY <1>1 DEF CmdInv
<1>4. cmd' = [kind |-> cmd.kind, at |-> "stamp", arg |-> cmd.arg, saw |-> cmd.saw, found |-> file]
  BY <1>1, <1>3
<1>5. CmdInv(cmd', edits)
  BY <1>1, <1>2, <1>3, <1>4 DEF CmdInv
<1>6. file[G!Default(file, cmd.saw.category)].name \in G!Names
  BY <1>1, <1>2, DefaultSource, NameIs
<1>7. story' \in StoryAfter(edits) /\ story'.status = story.status /\ story'.block = story.block /\ story'.text = story.text
  BY <1>1, <1>2, <1>6 DEF StoryAfter
<1> QED
  BY <1>1, <1>2, <1>5, <1>7 DEF GovInv, StepIs

LEMMA GovStamp ==
    ASSUME GovernanceBounds, GovInv, G!EmbedStamp
    PROVE  GovInv' /\ StepIs
<1> DEFINE b == G!Stamped(cmd.found, G!EmbedSource, cmd.saw)
<1>1. cmd.at = "stamp" /\ CmdInv(cmd, edits) /\ cmd.kind = "embed" /\ UNCHANGED <<file, edits>> /\ cmd' = G!Idle
      /\ story' = IF b = cmd.saw.block THEN story ELSE [story EXCEPT !.block = b, !.text = cmd.saw.text]
  BY IdleIs DEF GovInv, G!EmbedStamp
<1>2. Tree(file) /\ story \in StoryAfter(edits) /\ cmd.saw \in StoryAfter(edits) /\ edits \in 0..MaxEdits
      /\ Tree(cmd.found)
  BY <1>1 DEF GovInv, CmdInv
<1>3. CASE b = cmd.saw.block
  BY <1>1, <1>2, <1>3, Quiet DEF GovInv
<1>4. CASE b # cmd.saw.block
  <2>1. G!EmbedSource \in G!Sources(cmd.found) /\ G!Authority(cmd.found, cmd.saw) = cmd.found[G!EmbedSource].wf
    BY <1>1, EmbedSourceIs
  <2>2. /\ b \in {f.wf : f \in Files} \cup {NoBlock}
        /\ G!Equivalent(b, G!Authority(cmd.found, cmd.saw)) \/ G!SameName(cmd.found)
    <3>1. PICK i : i = G!EmbedSource /\ i \in G!Sources(cmd.found)
      BY <2>1
    <3>2. /\ G!Stamped(cmd.found, i, cmd.saw) \in {f.wf : f \in Files} \cup {NoBlock}
          /\ G!Stamped(cmd.found, i, cmd.saw) # cmd.saw.block =>
                G!Equivalent(G!Stamped(cmd.found, i, cmd.saw), cmd.found[i].wf) \/ G!SameName(cmd.found)
      BY <1>2, <3>1, StampIs
    <3> QED
      BY <1>4, <2>1, <3>1, <3>2
  <2> HIDE DEF b
  <2>3. story' \in StoryAfter(edits) /\ story'.status = story.status /\ story'.block = b /\ story'.text = cmd.saw.text
    BY <1>1, <1>2, <1>4, <2>2 DEF StoryAfter
  <2> QED
    BY <1>1, <1>2, <2>2, <2>3 DEF GovInv, StepIs
<1> QED
  BY <1>3, <1>4

LEMMA GovDesign ==
    ASSUME GovernanceBounds, GovInv, G!Design
    PROVE  GovInv' /\ StepIs
<1>1. cmd.at = "read" /\ CmdInv(cmd, edits) /\ cmd.kind = "design" /\ UNCHANGED <<file, edits>> /\ cmd' = G!Idle
  BY IdleIs DEF GovInv, G!Design
<1>2. PICK f \in Files : story' = [story EXCEPT !.block = f.wf, !.text = cmd.saw.text]
  BY DEF G!Design
<1>3. Tree(file) /\ story \in StoryAfter(edits) /\ cmd.saw \in StoryAfter(edits) /\ edits \in 0..MaxEdits
  BY <1>1 DEF GovInv, CmdInv
<1>4. story' \in StoryAfter(edits) /\ story'.status = story.status /\ story'.text = cmd.saw.text
  BY <1>2, <1>3 DEF StoryAfter
<1> QED
  BY <1>1, <1>3, <1>4 DEF GovInv, StepIs

LEMMA GovEdit ==
    ASSUME GovernanceBounds, GovInv, G!EditFile \/ G!EditStory
    PROVE  GovInv' /\ StepIs
<1>1. edits < MaxEdits /\ edits' = edits + 1 /\ UNCHANGED cmd
  BY DEF G!EditFile, G!EditStory, G!Edit
<1>2. edits \in Nat /\ edits' \in Nat /\ edits <= edits' /\ edits' \in 0..MaxEdits
  BY <1>1 DEF GovInv, GovernanceBounds
<1>3. StoryAfter(edits) \subseteq StoryAfter(edits') /\ (CmdInv(cmd, edits) => CmdInv(cmd, edits'))
  BY <1>2, StoryGrows
<1>4. cmd' = G!Idle \/ CmdInv(cmd', edits')
  BY <1>1, <1>3 DEF GovInv
<1>5. CASE G!EditFile
  <2>1. PICK i \in 1..Slots, f \in Files \cup {NoFile} : file' = [file EXCEPT ![i] = f]
    BY <1>5 DEF G!EditFile
  <2>2. Tree(file')
    BY <2>1 DEF Tree, GovInv
  <2>3. UNCHANGED story
    BY <1>5 DEF G!EditFile
  <2>4. story' \in StoryAfter(edits')
    BY <1>3, <2>3 DEF GovInv
  <2> QED
    BY <1>2, <1>4, <2>2, <2>3, <2>4, Quiet DEF GovInv
<1>6. CASE G!EditStory
  <2>1. story \in StoryAfter(edits') /\ UNCHANGED file
    BY <1>3, <1>6 DEF GovInv, G!EditStory
  <2>2. story' \in StoryAfter(edits') /\ story'.status = story.status /\ story'.block = story.block
    <3>1. CASE \E n \in G!Names \cup {NoName} : story' = [story EXCEPT !.selector = n]
      BY <2>1, <3>1 DEF StoryAfter
    <3>2. CASE \E c \in Categories : story' = [story EXCEPT !.category = c]
      BY <2>1, <3>2 DEF StoryAfter
    <3>3. CASE story' = [story EXCEPT !.text = @ + 1]
      <4>1. story.text \in 0..edits
        BY DEF GovInv, StoryAfter
      <4>2. story.text + 1 \in 0..edits'
        BY <1>1, <1>2, <4>1
      <4> QED
        BY <2>1, <3>3, <4>2 DEF StoryAfter
    <3> QED
      BY <1>6, <3>1, <3>2, <3>3 DEF G!EditStory
  <2>3. StepIs
    BY <1>1, <2>2 DEF StepIs
  <2> QED
    BY <1>2, <1>4, <2>1, <2>2, <2>3 DEF GovInv
<1> QED
  BY <1>5, <1>6

LEMMA GovRead ==
    ASSUME GovernanceBounds, GovInv, G!Read \/ G!Stop
    PROVE  GovInv' /\ StepIs
<1>1. UNCHANGED <<file, story, edits>>
  BY DEF G!Read, G!Stop
<1>2. CASE G!Stop
  BY <1>1, <1>2, Quiet DEF G!Stop, GovInv
<1>3. CASE G!Read
  <2>1. PICK k, a : /\ k \in G!Kinds /\ (k = "gate" => a \in Gates)
                    /\ cmd' = [G!Idle EXCEPT !.kind = k, !.at = "read", !.arg = a, !.saw = story]
    BY <1>3, Zenon DEF G!Read
  <2>2. PICK x : G!Idle = [kind |-> "none", at |-> "idle", arg |-> x, saw |-> G!NoStory, found |-> G!Nothing]
    BY Zenon DEF G!Idle
  <2>3. cmd' = [kind |-> k, at |-> "read", arg |-> a, saw |-> story, found |-> G!Nothing]
    BY <2>1, <2>2
  <2>4. CmdInv(cmd', edits)
    BY <2>1, <2>3 DEF CmdInv, GovInv
  <2> QED
    BY <1>1, <2>4, Quiet DEF GovInv
<1> QED
  BY <1>2, <1>3

LEMMA GovNext == GovernanceBounds /\ GovInv /\ [G!Next]_G!govVars => GovInv' /\ (UNCHANGED G!govVars \/ StepIs)
<1> SUFFICES ASSUME GovernanceBounds, GovInv, [G!Next]_G!govVars PROVE GovInv' /\ (UNCHANGED G!govVars \/ StepIs)
  OBVIOUS
<1>1. CASE UNCHANGED G!govVars
  BY <1>1 DEF G!govVars, GovInv, CmdInv
<1>2. CASE G!Next
  BY <1>2, GovRead, GovReady, GovSet, GovMove, GovEmbed, GovStamp, GovDesign, GovEdit DEF G!Next
<1> QED
  BY <1>1, <1>2

LEMMA GovSteps ==
    ASSUME GovernanceBounds, GovInv, [G!Next]_G!govVars
    PROVE  /\ [story'.status # story.status =>
                LET w == G!Authority(cmd.found, cmd.saw)
                IN  \/ \E i \in G!Allowed(w, cmd.saw.status, cmd.kind, cmd.arg) :
                          story'.status \in {w.edges[i].to, w.edges[i].exhausted}
                    \/ cmd.kind = "set-status" /\ cmd.saw.selector # NoName /\ ~ G!Selected(cmd.found, cmd.saw)]_G!govVars
           /\ [story'.block # story.block /\ cmd.kind # "design" =>
                LET in == IF cmd.at = "read" THEN file ELSE cmd.found
                IN  G!Equivalent(story'.block, G!Authority(in, cmd.saw)) \/ G!SameName(in)]_G!govVars
           /\ [cmd' # cmd /\ cmd.at # "idle" => story'.text = story.text \/ cmd.saw.text # story.text]_G!govVars
  BY GovNext DEF StepIs

LEMMA GovTypes == GovernanceBounds /\ GovInv => G!TypeOK
<1> SUFFICES ASSUME GovernanceBounds, GovInv PROVE G!TypeOK
  OBVIOUS
<1>1. story \in StoryAfter(MaxEdits)
  <2>1. edits \in Nat /\ MaxEdits \in Nat /\ edits <= MaxEdits /\ story \in StoryAfter(edits)
    BY DEF GovInv, GovernanceBounds
  <2> QED
    BY <2>1, StoryGrows
<1>2. cmd.kind \in G!Kinds \cup {"none"} /\ cmd.at \in {"idle", "read", "act", "stamp"}
  BY IdleIs DEF GovInv, CmdInv
<1> QED
  BY <1>1, <1>2 DEF GovInv, G!TypeOK, StoryAfter, Tree

\* A story moves by the workflow that has authority over it, a stamped block is that
\* workflow, stamping leaves the text alone, and what check, list and --explain report is
\* what a command then does, for any files, tiers and edits.
THEOREM StoriesAreGoverned == GovernanceBounds => (G!Spec => []G!TypeOK /\ GovernedMoves)
<1> SUFFICES ASSUME GovernanceBounds PROVE G!Spec => []G!TypeOK /\ GovernedMoves
  OBVIOUS
<1>1. G!Init => GovInv
  BY GovInit
<1>2. GovInv /\ [G!Next]_G!govVars => GovInv'
  BY GovNext
<1>3. GovInv => G!TypeOK
  BY GovTypes
<1>4. GovInv => (service = "governance" /\ cmd = G!Idle => G!ReportsAgree)
  BY ReportsHold DEF GovInv
<1> QED
  BY <1>1, <1>2, <1>3, <1>4, GovSteps, PTL
  DEF G!Spec, GovernedMoves, G!GovernedMoves, G!MovesGoverned, G!BlockFollows, G!TextKept

-----------------------------------------------------------------------------
(* The run that has them all.                                              *)

\* Every step is a step of one service and leaves the others alone.
LEMMA CloneStep ==
    ASSUME [MCNext]_cloneVars
    PROVE  /\ [Next]_vars /\ [I!Next]_(I!vars) /\ [K!Next]_(K!vars) /\ [F!Next]_(F!fileVars)
           /\ UNCHANGED service
           /\ [service = "governance" /\ G!Next]_(G!govVars)
<1>1. /\ UNCHANGED inboxVars => UNCHANGED I!vars
      /\ UNCHANGED copyVars => UNCHANGED K!vars
      /\ UNCHANGED draftVars => UNCHANGED F!fileVars
      /\ UNCHANGED govVars => UNCHANGED G!govVars
  BY DEF inboxVars, copyVars, draftVars, govVars, I!vars, K!vars, F!fileVars, G!govVars
<1>2. CASE UNCHANGED cloneVars
  BY <1>1, <1>2 DEF cloneVars
<1>3. CASE MCNext
  BY <1>1, <1>3 DEF MCNext, WorkSyncNext, InboxNext, SkillSyncNext, WorkflowNext, GovernanceNext
<1> QED
  BY <1>2, <1>3

CloneBounds ==
    /\ MaxRows \in Nat /\ InboxFaults \in Nat
    /\ SyncBounds /\ FileBounds /\ GovernanceBounds

\* The service is chosen once.
LEMMA CloneParts ==
    /\ MCSpec => Spec /\ I!Spec /\ K!Spec /\ F!Spec
    /\ MCSpec /\ service = "governance" => [](service = "governance") /\ G!Spec
    /\ MCSpec /\ service # "governance" => [](service # "governance") /\ [][FALSE]_(G!govVars)
<1>1. MCInit => Init /\ I!Init /\ K!Init /\ F!Init
  BY DEF MCInit
<1>2. MCInit /\ service = "governance" => G!Init
  BY DEF MCInit
<1>3. [MCNext]_cloneVars =>
          /\ [Next]_vars /\ [I!Next]_(I!vars) /\ [K!Next]_(K!vars) /\ [F!Next]_(F!fileVars)
          /\ UNCHANGED service
          /\ [service = "governance" /\ G!Next]_(G!govVars)
  BY CloneStep
<1>4. MCSpec => MCInit /\ [][MCNext]_cloneVars
  BY PTL DEF MCSpec
<1>5. MCSpec => Spec /\ I!Spec /\ K!Spec /\ F!Spec
  BY <1>1, <1>3, <1>4, PTL DEF Spec, I!Spec, K!Spec, F!Spec
<1>6. MCSpec /\ service = "governance" => [](service = "governance") /\ G!Spec
  <2>1. service = "governance" /\ UNCHANGED service => (service = "governance")'
    OBVIOUS
  <2>2. [service = "governance" /\ G!Next]_(G!govVars) => [G!Next]_(G!govVars)
    OBVIOUS
  <2> QED
    BY <1>2, <1>3, <1>4, <2>1, <2>2, PTL DEF G!Spec
<1>7. MCSpec /\ service # "governance" => [](service # "governance") /\ [][FALSE]_(G!govVars)
  <2>1. service # "governance" /\ UNCHANGED service => (service # "governance")'
    OBVIOUS
  <2>2. service # "governance" /\ [service = "governance" /\ G!Next]_(G!govVars) => [FALSE]_(G!govVars)
    OBVIOUS
  <2> QED
    BY <1>3, <1>4, <2>1, <2>2, PTL
<1> QED
  BY <1>5, <1>6, <1>7

LEMMA QuietGoverned == [](service # "governance") /\ [][FALSE]_(G!govVars) => GovernedMoves
<1>1. [FALSE]_(G!govVars) =>
       /\ [story'.status # story.status =>
             LET w == G!Authority(cmd.found, cmd.saw)
             IN  \/ \E i \in G!Allowed(w, cmd.saw.status, cmd.kind, cmd.arg) :
                       story'.status \in {w.edges[i].to, w.edges[i].exhausted}
                 \/ cmd.kind = "set-status" /\ cmd.saw.selector # NoName /\ ~ G!Selected(cmd.found, cmd.saw)]_G!govVars
       /\ [story'.block # story.block /\ cmd.kind # "design" =>
             LET in == IF cmd.at = "read" THEN file ELSE cmd.found
             IN  G!Equivalent(story'.block, G!Authority(in, cmd.saw)) \/ G!SameName(in)]_G!govVars
       /\ [cmd' # cmd /\ cmd.at # "idle" => story'.text = story.text \/ cmd.saw.text # story.text]_G!govVars
  OBVIOUS
<1>2. service # "governance" => (service = "governance" /\ cmd = G!Idle => G!ReportsAgree)
  OBVIOUS
<1> QED
  BY <1>1, <1>2, PTL DEF GovernedMoves, G!GovernedMoves, G!MovesGoverned, G!BlockFollows, G!TextKept

\* In the run that has them all, the services of a clone are what their types say, no event of
\* the log is skipped or lands twice without a race, the inbox is flushed faithfully, a sync
\* keeps the operator's work, an accepted file governs and a story is moved by the file with
\* authority.  For any values of the constants, within the bounds of the services.
THEOREM CloneIsSound ==
    CloneBounds =>
        (MCSpec => /\ [](Types /\ NothingSkipped /\ OnceUnlessRaced /\ FlushFaithful /\ FilesGovern)
                   /\ SyncFaithful /\ GovernedMoves)
<1> SUFFICES ASSUME CloneBounds
             PROVE  MCSpec => /\ [](Types /\ NothingSkipped /\ OnceUnlessRaced /\ FlushFaithful /\ FilesGovern)
                              /\ SyncFaithful /\ GovernedMoves
  OBVIOUS
<1>1. Spec => []TypeOK /\ []NothingSkipped /\ []OnceUnlessRaced
  BY SyncTyped, NothingIsSkipped, ReplaysRecognised
<1>2. I!Spec => []I!TypeOK /\ []FlushFaithful
  BY FlushesAreTyped, FlushesAreFaithful DEF CloneBounds
<1>3. K!Spec => []K!TypeOK /\ SyncFaithful
  BY CopiesAreTyped, SyncIsFaithful DEF CloneBounds
<1>4. F!Spec => [](F!TypeOK /\ FilesGovern)
  BY FilesAreGoverned DEF CloneBounds
<1>5. G!Spec => []G!TypeOK /\ GovernedMoves
  BY StoriesAreGoverned DEF CloneBounds
<1>6. TypeOK /\ I!TypeOK /\ K!TypeOK /\ F!TypeOK /\ (service = "governance" => G!TypeOK) => Types
  BY DEF Types
<1>7. MCSpec => [](service = "governance" => G!TypeOK) /\ GovernedMoves
  <2>1. service = "governance" \/ service # "governance"
    OBVIOUS
  <2>2. (service # "governance" => (service = "governance" => G!TypeOK)) /\ (G!TypeOK => (service = "governance" => G!TypeOK))
    OBVIOUS
  <2> QED
    BY <1>5, <2>1, <2>2, CloneParts, QuietGoverned, PTL
<1> QED
  BY <1>1, <1>2, <1>3, <1>4, <1>6, <1>7, CloneParts, PTL
=============================================================================
