---------------------------- MODULE StorySummary ----------------------------
(***************************************************************************)
(* What a write of one story sets off in the background                    *)
(* (internal/verb/summary_hook.go, reviewer_hook.go and story.go): every   *)
(* ledger row of the story starts a goroutine that writes the summary      *)
(* anew, every patch starts the reviewers, and each finding of a reviewer  *)
(* is a ledger row again.                                                  *)
(***************************************************************************)
EXTENDS Naturals, FiniteSets

CONSTANTS
    Texts,          \* what the row of the story may say
    Writers,        \* requests under way at once
    Jobs,           \* goroutines that write the summary at once
    Reviews,        \* goroutines that run the reviewers at once
    MaxWrites,      \* no more requests than this come
    MaxFindings,    \* no more findings than this
    MaxFails        \* no more calls fail than this

VARIABLES
    text,       \* the row of the story
    rows,       \* how many ledger rows the story has
    summary,    \* the summary: the row and the ledger rows it was made from
    writer,     \* the requests
    job,        \* the goroutines that write the summary
    review,     \* the goroutines of the reviewers, and what they still have to append
    made,       \* history: what every summary so far was made from
    crossed,    \* history: a summary was written over one made from more
    unsummed,   \* history: a change whose summary was not started, or failed
    writes, found, fails

summaryVars == <<text, rows, summary, writer, job, review, made, crossed, unsummed, writes, found, fails>>

Seen == [text : Texts, rows : Nat]
NoWrite == [at |-> "idle", kind |-> "", text |-> CHOOSE t \in Texts : TRUE, before |-> CHOOSE t \in Texts : TRUE]
NoJob == [at |-> "idle", text |-> CHOOSE t \in Texts : TRUE, rows |-> 0]
NoReview == [at |-> "idle", left |-> 0]

Init ==
    /\ text \in Texts
    /\ rows = 1
    /\ summary = [text |-> text, rows |-> 1]
    /\ writer = [w \in Writers |-> NoWrite]
    /\ job = [j \in Jobs |-> NoJob]
    /\ review = [v \in Reviews |-> NoReview]
    /\ made = {summary}
    /\ crossed = FALSE
    /\ unsummed = FALSE
    /\ writes = 0 /\ found = 0 /\ fails = 0

Goes(w, at) == writer' = [writer EXCEPT ![w].at = at]
Rests(w) == writer' = [writer EXCEPT ![w] = NoWrite]
Fails == fails < MaxFails /\ fails' = fails + 1
Misses == unsummed' = TRUE

\* dispatchSummaryRegen: a goroutine of its own.
Regenerate == \E j \in Jobs : job[j].at = "idle" /\ job' = [job EXCEPT ![j] = [NoJob EXCEPT !.at = "get"]]

\* dispatchReviewers: a goroutine that runs every reviewer on the row as it was written, and
\* then has findings to append.
Reviewers ==
    \E v \in Reviews : \E n \in 0..(MaxFindings - found) :
        /\ review[v].at = "idle"
        /\ review' = [review EXCEPT ![v] = [at |-> "append", left |-> n]]
        /\ found' = found + n

-----------------------------------------------------------------------------
\* A patch reads the row before it writes it; it may ask for what the row says already.
StartPatch(w) ==
    /\ writer[w].at = "idle" /\ writes < MaxWrites
    /\ writes' = writes + 1
    /\ \E t \in Texts : writer' = [writer EXCEPT ![w] = [at |-> "write", kind |-> "patch", text |-> t, before |-> text]]
    /\ UNCHANGED <<text, rows, summary, job, review, made, crossed, unsummed, found, fails>>

\* A patch that undoes what another wrote since it read the row finds no difference to tell.
Patch(w) ==
    /\ writer[w].at = "write"
    /\ text' = writer[w].text
    /\ unsummed' = (unsummed \/ (writer[w].text = writer[w].before /\ writer[w].text # text))
    /\ Goes(w, IF writer[w].text = writer[w].before THEN "review" ELSE "append")
    /\ UNCHANGED <<rows, summary, job, review, made, crossed, writes, found, fails>>

\* storyAfterUpdate: an append that fails is printed, and the summary is started all the same.
Append(w) ==
    /\ writer[w].at = "append"
    /\ \/ rows' = rows + 1 /\ UNCHANGED fails
       \/ Fails /\ UNCHANGED rows
    /\ Goes(w, "dispatch")
    /\ UNCHANGED <<text, summary, job, review, made, crossed, unsummed, writes, found>>

Dispatch(w) ==
    /\ writer[w].at = "dispatch"
    /\ Regenerate
    /\ IF writer[w].kind = "patch" THEN Goes(w, "review") ELSE Rests(w)
    /\ UNCHANGED <<text, rows, summary, review, made, crossed, unsummed, writes, found, fails>>

RunReviewers(w) ==
    /\ writer[w].at = "review"
    /\ Reviewers
    /\ Rests(w)
    /\ UNCHANGED <<text, rows, summary, job, made, crossed, unsummed, writes, fails>>

\* ledger_append: the row, and the row alone.
LedgerAppend(w) ==
    /\ writer[w].at = "idle" /\ writes < MaxWrites
    /\ writes' = writes + 1
    /\ rows' = rows + 1
    /\ writer' = [writer EXCEPT ![w] = [NoWrite EXCEPT !.at = "dispatch", !.kind = "append"]]
    /\ UNCHANGED <<text, summary, job, review, made, crossed, unsummed, found, fails>>

\* A status_transition is a row and then its projection; if that fails the request fails, and
\* no summary is started for the row.
Transition(w) ==
    /\ writer[w].at = "idle" /\ writes < MaxWrites
    /\ writes' = writes + 1
    /\ rows' = rows + 1
    /\ \E t \in Texts : writer' = [writer EXCEPT ![w] = [NoWrite EXCEPT !.at = "project", !.text = t]]
    /\ UNCHANGED <<text, summary, job, review, made, crossed, unsummed, found, fails>>

Project(w) ==
    /\ writer[w].at = "project"
    /\ \/ /\ text' = writer[w].text
          /\ Goes(w, "dispatch")
          /\ UNCHANGED <<unsummed, fails>>
       \/ Fails /\ Misses /\ Rests(w) /\ UNCHANGED text
    /\ UNCHANGED <<rows, summary, job, review, made, crossed, writes, found>>

\* story_summary_regenerate runs the same in the request.
Ask ==
    /\ writes < MaxWrites
    /\ writes' = writes + 1
    /\ Regenerate
    /\ UNCHANGED <<text, rows, summary, writer, review, made, crossed, unsummed, found, fails>>

\* runReviewersSync appends finding after finding; one whose append failed starts no summary.
Finding(v) ==
    /\ review[v].at = "append"
    /\ IF review[v].left = 0
       THEN review' = [review EXCEPT ![v] = NoReview] /\ UNCHANGED <<rows, fails>>
       ELSE \/ /\ rows' = rows + 1
               /\ review' = [review EXCEPT ![v].at = "dispatch", ![v].left = @ - 1]
               /\ UNCHANGED fails
            \/ Fails /\ review' = [review EXCEPT ![v].left = @ - 1] /\ UNCHANGED rows
    /\ UNCHANGED <<text, summary, writer, job, made, crossed, unsummed, writes, found>>
FindingDispatch(v) ==
    /\ review[v].at = "dispatch"
    /\ Regenerate
    /\ review' = [review EXCEPT ![v].at = "append"]
    /\ UNCHANGED <<text, rows, summary, writer, made, crossed, unsummed, writes, found, fails>>

-----------------------------------------------------------------------------
\* regenerateSummary: the row, the ledger, the model's answer, the write; what fails is logged.
GetStory(j) ==
    /\ job[j].at = "get"
    /\ job' = [job EXCEPT ![j] = [at |-> "list", text |-> text, rows |-> 0]]
    /\ UNCHANGED <<text, rows, summary, writer, review, made, crossed, unsummed, writes, found, fails>>
ListLedger(j) ==
    /\ job[j].at = "list"
    /\ job' = [job EXCEPT ![j].at = "set", ![j].rows = rows]
    /\ UNCHANGED <<text, rows, summary, writer, review, made, crossed, unsummed, writes, found, fails>>
SetSummary(j) ==
    /\ job[j].at = "set"
    /\ LET new == [text |-> job[j].text, rows |-> job[j].rows]
       IN  /\ summary' = new
           /\ made' = made \cup {new}
           /\ crossed' = (new # [text |-> text, rows |-> rows] /\ (crossed \/ summary = [text |-> text, rows |-> rows]))
    /\ job' = [job EXCEPT ![j] = NoJob]
    /\ UNCHANGED <<text, rows, writer, review, unsummed, writes, found, fails>>
JobFails(j) ==
    /\ job[j].at # "idle"
    /\ Fails /\ Misses
    /\ job' = [job EXCEPT ![j] = NoJob]
    /\ UNCHANGED <<text, rows, summary, writer, review, made, crossed, writes, found>>

Next ==
    \/ \E w \in Writers :
          \/ StartPatch(w) \/ Patch(w) \/ Append(w) \/ Dispatch(w) \/ RunReviewers(w)
          \/ LedgerAppend(w) \/ Transition(w) \/ Project(w)
    \/ Ask
    \/ \E v \in Reviews : Finding(v) \/ FindingDispatch(v)
    \/ \E j \in Jobs : GetStory(j) \/ ListLedger(j) \/ SetSummary(j) \/ JobFails(j)

Spec == Init /\ [][Next]_summaryVars

-----------------------------------------------------------------------------
TypeOK ==
    /\ text \in Texts /\ rows \in Nat /\ summary \in Seen /\ made \subseteq Seen
    /\ \A w \in Writers : writer[w].at \in {"idle", "write", "append", "dispatch", "review", "project"}
    /\ \A j \in Jobs : job[j].at \in {"idle", "get", "list", "set"}
    /\ \A v \in Reviews : review[v].at \in {"idle", "append", "dispatch"}
    /\ writes \in 0..MaxWrites /\ found \in 0..MaxFindings /\ fails \in 0..MaxFails

Quiet ==
    /\ \A w \in Writers : writer[w].at = "idle"
    /\ \A j \in Jobs : job[j].at = "idle"
    /\ \A v \in Reviews : review[v].at = "idle"

\* When nothing is under way a summary was made from the row as it is and from every ledger
\* row, whatever goroutines overlapped, unless one failed, a projection failed, or a patch
\* undid what another had written; and it is the summary the story shows, unless a goroutine
\* that had read less came behind it. The story has no more rows than ListByStory reads, 2000.
SummaryTells ==
    Quiet /\ ~ unsummed =>
        /\ [text |-> text, rows |-> rows] \in made
        /\ summary = [text |-> text, rows |-> rows] \/ crossed
=============================================================================
