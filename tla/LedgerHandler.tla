--------------------------- MODULE LedgerHandler ---------------------------
(***************************************************************************)
(* The log handler that keeps a request's log lines as ledger rows         *)
(* (internal/ledger/handler.go).  Handle puts a record in a bounded        *)
(* channel, and throws the oldest away when it is full; one drainer        *)
(* collects a batch and inserts it, a bounded number of times; Close asks  *)
(* the drainer to empty the channel within a budget, and the process ends. *)
(* Records are numbered in the order the channel took them.                *)
(***************************************************************************)
EXTENDS Naturals, Sequences, FiniteSets

CONSTANTS
    Producers,    \* goroutines that log
    Derived,      \* those that log through a handler of WithAttrs or WithGroup
    BufferSize,   \* capacity of the channel
    BatchSize,    \* records of one INSERT
    MaxRetries,   \* times a batch is tried
    MaxRecords,   \* no Handle starts once this many were accepted or are at work
    MaxFaults     \* no insert fails and no budget runs out after this many

ASSUME HandlerAssumption ==
    /\ BufferSize \in Nat \ {0}
    /\ BatchSize \in Nat \ {0}
    /\ MaxRetries \in Nat \ {0}
    /\ MaxRecords \in Nat
    /\ MaxFaults \in Nat

Handlers == {"root", "derived"}
HandlerOf(p) == IF p \in Derived THEN "derived" ELSE "root"

VARIABLES
    queue,        \* the channel
    handling,     \* where each producer is in Handle
    rows,         \* how many ledger rows carry each record the channel took
    closer,       \* the call of Close, which closes the closed channel first
    closedAt,     \* history: how many records were taken when it was called
    drain,        \* the drainer
    batch,        \* its batch
    unsure,       \* history: records of an insert that failed and may have committed
    written,      \* the counter EventsWritten
    insertError,  \* the counter EventsDroppedInsertError
    overflow,     \* the counters EventsDroppedOverflow of the root and of the derived handlers
    expired,      \* history: the drain budget ran out
    faults        \* how many faults there were

inserted == <<rows, unsure, written, insertError>>
vars == <<queue, handling, rows, closer, closedAt, drain, batch, unsure, written,
          insertError, overflow, expired, faults>>

Accepted == Len(rows)
Positive == Nat \ {0}
Closed == closer # "open"
InBatch(r) == \E i \in 1..Len(batch) : batch[i] = r
InQueue(r) == \E i \in 1..Len(queue) : queue[i] = r

\* drain.try is 0 while the drainer collects, drain.last is set on its way out.
TypeOK ==
    /\ queue \in Seq(Positive)
    /\ handling \in [Producers -> {"idle", "select", "full"}]
    /\ rows \in Seq(Nat)
    /\ closer \in {"open", "waiting", "done", "gaveup"}
    /\ closedAt \in Nat
    /\ drain \in [at : {"loop", "drain", "ended", "killed"}, last : BOOLEAN, try : Nat]
    /\ batch \in Seq(Positive)
    /\ unsure \subseteq Positive
    /\ written \in Nat
    /\ insertError \in Nat
    /\ overflow \in [Handlers -> Nat]
    /\ expired \in BOOLEAN
    /\ faults \in Nat

Init ==
    /\ queue = <<>>
    /\ handling = [p \in Producers |-> "idle"]
    /\ rows = <<>>
    /\ closer = "open"
    /\ closedAt = 0
    /\ drain = [at |-> "loop", last |-> FALSE, try |-> 0]
    /\ batch = <<>>
    /\ unsure = {}
    /\ written = 0
    /\ insertError = 0
    /\ overflow = [h \in Handlers |-> 0]
    /\ expired = FALSE
    /\ faults = 0

-----------------------------------------------------------------------------
\* Handle, for a record that carries ids.
Handle(p) ==
    /\ handling[p] = "idle"
    /\ drain.at # "killed"
    /\ Accepted + Cardinality({q \in Producers : handling[q] # "idle"}) < MaxRecords
    /\ handling' = [handling EXCEPT ![p] = "select"]
    /\ UNCHANGED <<queue, rows, closer, closedAt, drain, batch, unsure, written, insertError,
                   overflow, expired, faults>>

\* The select found a free slot; it may choose it though the handler is closed.
Push(p) ==
    /\ handling[p] = "select"
    /\ drain.at # "killed"
    /\ Len(queue) < BufferSize
    /\ rows' = Append(rows, 0)
    /\ queue' = Append(queue, Accepted + 1)
    /\ handling' = [handling EXCEPT ![p] = "idle"]
    /\ UNCHANGED <<closer, closedAt, drain, batch, unsure, written, insertError, overflow,
                   expired, faults>>

\* The select found the handler closed: the record is dropped and not counted.
Refuse(p) ==
    /\ handling[p] = "select"
    /\ Closed
    /\ handling' = [handling EXCEPT ![p] = "idle"]
    /\ UNCHANGED <<queue, rows, closer, closedAt, drain, batch, unsure, written, insertError,
                   overflow, expired, faults>>

\* The default branch of the select.
FindFull(p) ==
    /\ handling[p] = "select"
    /\ ~ Closed
    /\ Len(queue) = BufferSize
    /\ handling' = [handling EXCEPT ![p] = "full"]
    /\ UNCHANGED <<queue, rows, closer, closedAt, drain, batch, unsure, written, insertError,
                   overflow, expired, faults>>

\* Mutant: the newest is thrown away.
DropNewest(p) ==
    /\ handling[p] = "full"
    /\ drain.at # "killed"
    /\ IF queue = <<>>
       THEN UNCHANGED <<queue, overflow>>
       ELSE /\ queue' = SubSeq(queue, 1, Len(queue) - 1)
            /\ overflow' = [overflow EXCEPT ![HandlerOf(p)] = @ + 1]
    /\ handling' = [handling EXCEPT ![p] = "select"]
    /\ UNCHANGED <<rows, closer, closedAt, drain, batch, unsure, written, insertError, expired,
                   faults>>

\* The oldest is thrown away, whether or not the channel is still full, and counted.
DropOldest(p) ==
    /\ handling[p] = "full"
    /\ drain.at # "killed"
    /\ IF queue = <<>>
       THEN UNCHANGED <<queue, overflow>>
       ELSE /\ queue' = Tail(queue)
            /\ overflow' = [overflow EXCEPT ![HandlerOf(p)] = @ + 1]
    /\ handling' = [handling EXCEPT ![p] = "select"]
    /\ UNCHANGED <<rows, closer, closedAt, drain, batch, unsure, written, insertError, expired,
                   faults>>

-----------------------------------------------------------------------------
Collecting == drain.at \in {"loop", "drain"} /\ drain.try = 0 /\ ~ drain.last

Collect ==
    /\ Collecting
    /\ queue # <<>>
    /\ queue' = Tail(queue)
    /\ batch' = Append(batch, Head(queue))
    /\ drain' = [drain EXCEPT !.try = IF Len(batch) + 1 >= BatchSize THEN 1 ELSE 0]
    /\ UNCHANGED <<handling, rows, closer, closedAt, inserted, overflow, expired, faults>>

\* Mutant: a batch of one record waits for a second.
TickOfTwo ==
    /\ Collecting
    /\ drain.at = "loop"
    /\ Len(batch) > 1
    /\ drain' = [drain EXCEPT !.try = 1]
    /\ UNCHANGED <<queue, handling, rows, closer, closedAt, batch, unsure, written,
                   insertError, overflow, expired, faults>>

\* The ticker fires; an empty batch is not inserted.
Tick ==
    /\ Collecting
    /\ drain.at = "loop"
    /\ batch # <<>>
    /\ drain' = [drain EXCEPT !.try = 1]
    /\ UNCHANGED <<queue, handling, rows, closer, closedAt, batch, unsure, written,
                   insertError, overflow, expired, faults>>

SeeClosed ==
    /\ Collecting
    /\ drain.at = "loop"
    /\ Closed
    /\ drain' = [drain EXCEPT !.at = "drain"]
    /\ UNCHANGED <<queue, handling, rows, closer, closedAt, batch, unsure, written,
                   insertError, overflow, expired, faults>>

LastFlush ==
    drain' = IF batch = <<>>
             THEN [drain EXCEPT !.at = "ended", !.last = TRUE]
             ELSE [drain EXCEPT !.try = 1, !.last = TRUE]

\* Mutant: the drainer returns as soon as it sees that the handler is closed.
FindNothing ==
    /\ Collecting
    /\ drain.at = "drain"
    /\ LastFlush
    /\ UNCHANGED <<queue, handling, rows, closer, closedAt, batch, unsure, written,
                   insertError, overflow, expired, faults>>

FindEmpty ==
    /\ Collecting
    /\ drain.at = "drain"
    /\ queue = <<>>
    /\ LastFlush
    /\ UNCHANGED <<queue, handling, rows, closer, closedAt, batch, unsure, written,
                   insertError, overflow, expired, faults>>

\* The budget of five seconds runs out.
Expire ==
    /\ Collecting
    /\ drain.at = "drain"
    /\ faults < MaxFaults
    /\ faults' = faults + 1
    /\ expired' = TRUE
    /\ LastFlush
    /\ UNCHANGED <<queue, handling, rows, closer, closedAt, batch, unsure, written,
                   insertError, overflow>>

-----------------------------------------------------------------------------
\* flushBatch
Inserting == drain.at \in {"loop", "drain"} /\ drain.try > 0

AddRows == rows' = [r \in 1..Len(rows) |-> IF InBatch(r) THEN rows[r] + 1 ELSE rows[r]]

\* Mutant: the batch is not emptied after the insert.
FlushedKept ==
    /\ UNCHANGED batch
    /\ drain' = [drain EXCEPT !.try = 0, !.at = IF drain.last THEN "ended" ELSE drain.at]

Flushed ==
    /\ batch' = <<>>
    /\ drain' = [drain EXCEPT !.try = 0, !.at = IF drain.last THEN "ended" ELSE drain.at]

InsertOk ==
    /\ Inserting
    /\ AddRows
    /\ written' = written + Len(batch)
    /\ Flushed
    /\ UNCHANGED <<queue, handling, closer, closedAt, unsure, insertError, overflow, expired,
                   faults>>

\* Mutant: a batch given up is not counted.
TryUncounted ==
    /\ UNCHANGED insertError
    /\ IF drain.try < MaxRetries
       THEN drain' = [drain EXCEPT !.try = @ + 1] /\ UNCHANGED batch
       ELSE Flushed

\* After the last try the batch is dropped and counted.
TryAgain ==
    IF drain.try < MaxRetries
    THEN drain' = [drain EXCEPT !.try = @ + 1] /\ UNCHANGED <<batch, insertError>>
    ELSE insertError' = insertError + Len(batch) /\ Flushed

\* AppendMany returns an error: nothing was inserted, or a timeout hid the commit.
InsertFails ==
    /\ Inserting
    /\ faults < MaxFaults
    /\ faults' = faults + 1
    /\ \/ UNCHANGED <<rows, unsure>>
       \/ AddRows /\ unsure' = unsure \cup {r \in 1..Len(rows) : InBatch(r)}
    /\ TryAgain
    /\ UNCHANGED <<queue, handling, closer, closedAt, written, overflow, expired>>

-----------------------------------------------------------------------------
Close ==
    /\ closer = "open"
    /\ closer' = "waiting"
    /\ closedAt' = Accepted
    /\ UNCHANGED <<queue, handling, rows, drain, batch, unsure, written, insertError, overflow,
                   expired, faults>>

CloseReturns ==
    /\ closer = "waiting"
    /\ drain.at = "ended"
    /\ closer' = "done"
    /\ UNCHANGED <<queue, handling, rows, closedAt, drain, batch, unsure, written, insertError,
                   overflow, expired, faults>>

\* Close waited long enough; main returns and the process ends where it is.
CloseGivesUp ==
    /\ closer = "waiting"
    /\ drain.at # "ended"
    /\ faults < MaxFaults
    /\ faults' = faults + 1
    /\ closer' = "gaveup"
    /\ drain' = [drain EXCEPT !.at = "killed"]
    /\ UNCHANGED <<queue, handling, rows, closedAt, batch, unsure, written, insertError,
                   overflow, expired>>

ProducerStep(p) == Push(p) \/ Refuse(p) \/ FindFull(p) \/ DropOldest(p)
DrainerStep == Collect \/ SeeClosed \/ FindEmpty \/ Expire \/ InsertOk \/ InsertFails

Next ==
    \/ \E p \in Producers : Handle(p) \/ ProducerStep(p)
    \/ DrainerStep \/ Tick
    \/ Close \/ CloseReturns \/ CloseGivesUp

Spec == Init /\ [][Next]_vars

\* A goroutine that can go on does, and the ticker fires.
Fairness ==
    /\ \A p \in Producers : WF_vars(ProducerStep(p))
    /\ WF_vars(DrainerStep)
    /\ WF_vars(Tick)

FairSpec == Spec /\ Fairness

-----------------------------------------------------------------------------
\* Every record the channel took is in the channel, in the batch or in one of the
\* counters, those of the derived handlers included, whatever races and fails.
Accounted ==
    written + insertError + overflow["root"] + overflow["derived"] + Len(batch) + Len(queue)
        = Accepted

\* The channel holds the newest records it took, in the order it took them: what
\* overflow throws away is always older than what it keeps.
HoldsNewest ==
    \A i \in 1..Len(queue) : queue[i] + Len(queue) = Accepted + i

\* When Close returns without an error and the budget did not run out, no record taken
\* before Close is left behind: each is written or counted.
QuietClose ==
    closer = "done" /\ ~ expired =>
        batch = <<>> /\ \A i \in 1..Len(queue) : queue[i] > closedAt

\* Only an insert that failed after it committed gives a record a second row, though a
\* failed batch is inserted again from its first record.
OnceUnlessUnsure ==
    \A r \in 1..Len(rows) : rows[r] > 1 => r \in unsure

\* Every Handle returns, full channel or not; and the batch, and unless Close came first the
\* channel, come to be empty: no record waits for another one.
Settles ==
    /\ \A p \in Producers : []<>(handling[p] = "idle" \/ drain.at = "killed")
    /\ <>[](drain.at = "killed" \/ (batch = <<>> /\ (Closed \/ queue = <<>>)))
=============================================================================
