--------------------------- MODULE RecordsProofs ---------------------------
(***************************************************************************)
(* The theorems about the artifacts of one kind that are uploaded, curated *)
(* and published (Upload), about the projects and their homes (Projects),  *)
(* about the variables (Variables), and about the stories, epics and tasks *)
(* of a project and the summary of one (StoryTree and StorySummary), each  *)
(* for any number of requests.                                             *)
(***************************************************************************)
EXTENDS MCRecords, StoryGateProofs

\* No body of the project is clean and hard-codes a reference, none stands for no body, and the
\* artifacts are in the order of their paths.
BodiesApart ==
    /\ Clean \cap Dirty = {}
    /\ NoBody \notin A!Bodies \cup {Empty}
    /\ Artifacts \subseteq Nat

Command ==
    [at : {"idle", "plan", "gate", "filter", "review", "write", "headline", "curate"},
     todo : SUBSET Artifacts, plan : [Artifacts -> A!Bodies \cup {NoBody, Empty}], gate : BOOLEAN]

UploadTyped ==
    /\ kind \in {"skill", "principle", "document"}
    /\ file \in [Artifacts -> A!Bodies \cup {Bad}]
    /\ row \in [Artifacts -> A!Bodies \cup {NoBody, Empty}]
    /\ upload \in [Uploads -> Command]

\* Who let a body into the row of a name: a reviewer, the upload of a single file, or nobody.
Approved(n, body) ==
    <<n, body>> \in accepted \cup direct \/ (kind = "document" /\ <<n, body>> \in open)

\* What UploadsJudged says of a name.
Standing(n) ==
    row[n] # NoBody =>
        /\ row[n] \in Dirty => <<n, row[n]>> \in direct /\ (kind # "document" /\ n \in filed => n \in torn)
        /\ Approved(n, row[n])

\* The artifact a command is at.
At(k) == CHOOSE n \in k.todo : \A m \in k.todo : n <= m

\* What a command knows of the body it comes to write.
Reviewed(k) ==
    LET n == At(k)
    IN  /\ k.at \in {"gate", "filter", "review", "write", "headline"} =>
              k.plan \in [Artifacts -> A!Bodies \cup {Empty}]
        /\ n \in Artifacts =>
              /\ k.at \in {"review", "write", "headline"} => k.plan[n] \notin Dirty
              /\ k.at = "write" /\ k.gate => <<n, k.plan[n]>> \in accepted
              /\ k.at = "headline" => Approved(n, k.plan[n])
        /\ k.at = "curate" => kind = "principle" /\ (n \in Artifacts /\ k.plan[n] \in Dirty => n \in torn)

UploadInv ==
    /\ UploadTyped
    /\ \A r \in Uploads : Reviewed(upload[r])
    /\ A!UploadsJudged

\* One command moves, and what was judged stays so.
LEMMA CommandKeeps ==
    ASSUME UploadInv, NEW r \in Uploads, NEW k \in Command,
           upload' = [upload EXCEPT ![r] = k], Reviewed(k)',
           accepted \subseteq accepted', open \subseteq open', UNCHANGED <<kind, file, direct, torn>>,
           row' \in [Artifacts -> A!Bodies \cup {NoBody, Empty}],
           \A n \in Artifacts : (row'[n] = row[n] /\ (n \in filed' => n \in filed)) \/ Standing(n)'
    PROVE  UploadInv'
<1>1. UploadTyped'
  BY DEF UploadInv, UploadTyped
<1>2. \A j \in Uploads : upload'[j] = IF j = r THEN k ELSE upload[j]
  BY DEF UploadInv, UploadTyped
<1>3. ASSUME NEW j \in Uploads PROVE Reviewed(upload[j])'
  <2>1. CASE j = r
    BY <1>2, <2>1 DEF Reviewed, At
  <2>2. CASE j # r
    <3>1. PICK c : c = upload[j]
      OBVIOUS
    <3>2. upload'[j] = c /\ Reviewed(c)
      BY <1>2, <2>2, <3>1 DEF UploadInv
    <3>3. UNCHANGED <<kind, direct, torn>> /\ accepted \subseteq accepted' /\ open \subseteq open'
      OBVIOUS
    <3>4. \A n, body : Approved(n, body) => Approved(n, body)'
      BY <3>3 DEF Approved
    <3>5. Reviewed(c)'
      BY <3>2, <3>3, <3>4 DEF Reviewed
    <3> QED
      BY <3>2, <3>5 DEF Reviewed, At
  <2> QED
    BY <2>1, <2>2
<1>5. A!UploadsJudged'
  BY DEF UploadInv, A!UploadsJudged, Standing, Approved
<1> QED
  BY <1>1, <1>3, <1>5 DEF UploadInv

\* A command that is not past the filter has reviewed nothing yet.
LEMMA Unreviewed ==
    ASSUME NEW k \in Command, k.at \in {"idle", "plan", "gate", "filter"},
           k.at \in {"gate", "filter"} => k.plan \in [Artifacts -> A!Bodies \cup {Empty}]
    PROVE  Reviewed(k)'
BY DEF Reviewed

\* A command that is past the filter knows that its body passed.
LEMMA Passed ==
    ASSUME UploadInv, NEW r \in Uploads, NEW k \in Command,
           upload[r].at \in {"filter", "review", "write"}, k.at \in {"review", "write", "headline"},
           k.plan = upload[r].plan, k.todo = upload[r].todo, k.gate = upload[r].gate,
           At(k) \in Artifacts => LET v == <<At(k), k.plan[At(k)]>>
                              IN  /\ k.plan[At(k)] \notin Dirty
                                  /\ k.at = "write" /\ k.gate => v \in accepted'
                                  /\ k.at = "headline" => v \in (accepted \cup direct)' \/ (kind' = "document" /\ v \in open')
    PROVE  Reviewed(k)'
<1>1. k.plan \in [Artifacts -> A!Bodies \cup {Empty}]
  BY DEF UploadInv, Reviewed
<1>2. \A n : n = At(k) => (n \in Artifacts => LET v == <<n, k.plan[n]>>
                              IN  /\ k.plan[n] \notin Dirty
                                  /\ k.at = "write" /\ k.gate => v \in accepted'
                                  /\ k.at = "headline" => v \in (accepted \cup direct)' \/ (kind' = "document" /\ v \in open'))
  OBVIOUS
<1> QED
  BY <1>1, <1>2 DEF Reviewed, Approved, At

\* The artifact is done with, and the next is looked at from the filter on.
LEMMA AdvanceKeeps ==
    ASSUME UploadInv, NEW r \in Uploads, A!Advances(r), upload[r].at \in {"write", "headline"},
           accepted \subseteq accepted', open \subseteq open', UNCHANGED <<kind, file, direct, torn>>,
           row' \in [Artifacts -> A!Bodies \cup {NoBody, Empty}],
           \A n \in Artifacts : (row'[n] = row[n] /\ (n \in filed' => n \in filed)) \/ Standing(n)'
    PROVE  UploadInv'
<1>1. upload[r] \in Command /\ Reviewed(upload[r])
  BY DEF UploadInv, UploadTyped
<1> DEFINE todo == upload[r].todo \ {A!Head(r)}
           next == [upload[r] EXCEPT !.at = "filter", !.todo = todo]
<1>2. PICK k \in {A!Idle, next} : upload' = [upload EXCEPT ![r] = k]
  BY DEF A!Advances
<1>3. A!Idle \in Command /\ A!Idle.at = "idle"
  BY DEF A!Idle, Command
<1>4. next \in Command /\ next.at = "filter" /\ next.plan = upload[r].plan
  BY <1>1 DEF Command
<1>5. upload[r].plan \in [Artifacts -> A!Bodies \cup {Empty}]
  BY <1>1 DEF Reviewed
<1> HIDE DEF next
<1>6. k \in Command /\ Reviewed(k)'
  BY <1>2, <1>3, <1>4, <1>5, Unreviewed
<1> QED
  BY <1>2, <1>6, CommandKeeps

\* Every step of the uploads keeps the invariant.
LEMMA UploadKept ==
    ASSUME BodiesApart, UploadInv, [A!Next]_(A!uploadVars)
    PROVE  UploadInv'
<1>1. \A r \in Uploads : upload[r] \in Command /\ Reviewed(upload[r])
  BY DEF UploadInv, UploadTyped
<1>2. row \in [Artifacts -> A!Bodies \cup {NoBody, Empty}]
  BY DEF UploadInv, UploadTyped
<1>3. A!Idle \in Command /\ A!Idle.at = "idle"
  BY DEF A!Idle, Command
<1>4. \A r \in Uploads : A!Head(r) = At(upload[r])
  BY DEF A!Head, At
<1>5. CASE A!Edit
  <2>1. UploadTyped'
    BY <1>5 DEF A!Edit, UploadInv, UploadTyped
  <2>2. ASSUME NEW r \in Uploads PROVE Reviewed(upload[r])'
    <3>1. upload' = upload /\ UNCHANGED <<kind, accepted, open, direct, torn>> /\ Reviewed(upload[r])
      BY <1>1, <1>5 DEF A!Edit
    <3> QED
      BY <3>1 DEF Reviewed, Approved, At
  <2>3. A!UploadsJudged'
    BY <1>5 DEF A!Edit, UploadInv, A!UploadsJudged
  <2> QED
    BY <2>1, <2>2, <2>3 DEF UploadInv
<1>6. CASE A!Publish
  <2>1. row' = row
    <3>1. PICK n \in Artifacts : row' = row \/ (~ A!Needs(n, file[n]) /\ row' = [row EXCEPT ![n] = file[n]])
      BY <1>6 DEF A!Publish
    <3>2. kind = "skill"
      BY <1>6 DEF A!Publish
    <3> QED
      BY <1>2, <3>1, <3>2 DEF A!Needs, A!Behaviour
  <2>2. UNCHANGED <<kind, file, filed, upload, accepted, open, direct, torn>>
    BY <1>6 DEF A!Publish
  <2>3. ASSUME NEW r \in Uploads PROVE Reviewed(upload[r])'
    <3>1. upload' = upload /\ UNCHANGED <<kind, accepted, open, direct, torn>> /\ Reviewed(upload[r])
      BY <1>1, <2>2
    <3> QED
      BY <3>1 DEF Reviewed, Approved, At
  <2> QED
    BY <2>1, <2>2, <2>3 DEF UploadInv, UploadTyped, A!UploadsJudged
<1>7. ASSUME NEW r \in Uploads, A!StartUpload(r)
      PROVE  UploadInv'
  <2>1. PICK todo \in {Artifacts} \cup {{n} : n \in Artifacts} :
          upload' = [upload EXCEPT ![r] = [A!Idle EXCEPT !.at = "plan", !.todo = todo]]
    BY <1>7 DEF A!StartUpload
  <2> DEFINE k == [A!Idle EXCEPT !.at = "plan", !.todo = todo]
  <2>2. k \in Command /\ k.at = "plan"
    BY DEF A!Idle, Command
  <2>3. upload' = [upload EXCEPT ![r] = k] /\ UNCHANGED <<kind, file, row, filed, accepted, open, direct, torn>>
    BY <1>7, <2>1 DEF A!StartUpload
  <2> HIDE DEF k
  <2> QED
    BY <1>2, <2>2, <2>3, Unreviewed, CommandKeeps
<1>8. ASSUME NEW r \in Uploads, A!Plan(r)
      PROVE  UploadInv'
  <2>1. PICK c \in Command : c = upload[r]
    BY <1>1
  <2>2. PICK plan : plan = [n \in Artifacts |-> IF file[n] = Bad THEN Empty ELSE file[n]]
    OBVIOUS
  <2>3. plan \in [Artifacts -> A!Bodies \cup {Empty}]
    BY <2>2 DEF UploadInv, UploadTyped
  <2> DEFINE k == [c EXCEPT !.at = "gate", !.plan = plan]
  <2>4. k \in Command /\ k.at = "gate" /\ k.plan = plan
    BY <2>3 DEF Command
  <2>5. upload' = [upload EXCEPT ![r] = k] /\ UNCHANGED <<kind, file, row, filed, accepted, open, direct, torn>>
    BY <1>8, <2>1, <2>2 DEF A!Plan, UploadInv, UploadTyped
  <2> HIDE DEF k
  <2> QED
    BY <1>2, <2>3, <2>4, <2>5, Unreviewed, CommandKeeps
<1>9. ASSUME NEW r \in Uploads, A!AskGate(r)
      PROVE  UploadInv'
  <2>1. PICK c \in Command : c = upload[r]
    BY <1>1
  <2>2. PICK gate \in BOOLEAN : upload' = [upload EXCEPT ![r].at = "filter", ![r].gate = gate]
    BY <1>9 DEF A!AskGate
  <2>3. c.at = "gate" /\ UNCHANGED <<kind, file, row, filed, accepted, open, direct, torn>>
    BY <1>9, <2>1 DEF A!AskGate
  <2> DEFINE k == [c EXCEPT !.at = "filter", !.gate = gate]
  <2>4. k \in Command /\ k.at = "filter" /\ k.plan = c.plan
    BY DEF Command
  <2>5. k.plan \in [Artifacts -> A!Bodies \cup {Empty}]
    BY <1>1, <2>1, <2>3, <2>4 DEF Reviewed
  <2>6. upload' = [upload EXCEPT ![r] = k]
    BY <2>1, <2>2 DEF UploadInv, UploadTyped
  <2> HIDE DEF k
  <2> QED
    BY <1>2, <2>3, <2>4, <2>5, <2>6, Unreviewed, CommandKeeps
<1>10. ASSUME NEW r \in Uploads, upload' = [upload EXCEPT ![r] = A!Idle], UNCHANGED <<kind, file, row, filed, direct, torn>>,
              accepted \subseteq accepted', open \subseteq open'
       PROVE  UploadInv'
  BY <1>2, <1>3, <1>10, Unreviewed, CommandKeeps
<1>11. ASSUME NEW r \in Uploads, A!Filter(r)
       PROVE  UploadInv'
  <2>1. PICK c \in Command : c = upload[r]
    BY <1>1
  <2>2. UNCHANGED <<kind, file, row, filed, accepted, open, direct, torn>> /\ c.at = "filter"
    BY <1>11, <2>1 DEF A!Filter
  <2>3. CASE A!Ends(r)
    BY <1>10, <2>2, <2>3 DEF A!Ends
  <2>4. CASE ~ A!Ends(r)
    <3> DEFINE k == [c EXCEPT !.at = IF c.gate THEN "review" ELSE "write"]
    <3>1. upload' = [upload EXCEPT ![r] = k] /\ c.plan[At(c)] \notin Dirty
      BY <1>4, <1>11, <2>1, <2>4 DEF A!Filter, A!Sets, UploadInv, UploadTyped
    <3>2. /\ k \in Command /\ k.plan = c.plan /\ k.todo = c.todo /\ k.gate = c.gate
          /\ k.at = IF k.gate THEN "review" ELSE "write"
      BY DEF Command
    <3> HIDE DEF k
    <3>3. At(k) = At(c)
      BY <3>2 DEF At
    <3>4. k.at \in {"review", "write"} /\ (k.at = "write" => ~ k.gate)
      BY <3>2
    <3>5. Reviewed(k)'
      BY <2>1, <2>2, <3>1, <3>2, <3>3, <3>4, Passed
    <3> QED
      BY <1>2, <2>2, <3>1, <3>2, <3>5, CommandKeeps
  <2> QED
    BY <2>3, <2>4
<1>12. ASSUME NEW r \in Uploads, A!Review(r)
       PROVE  UploadInv'
  <2>1. PICK c \in Command : c = upload[r] /\ Reviewed(c)
    BY <1>1
  <2>2. UNCHANGED <<kind, file, row, filed, open, direct, torn>> /\ c.at = "review" /\ accepted \subseteq accepted'
    BY <1>12, <2>1 DEF A!Review
  <2>3. CASE A!Ends(r)
    BY <1>10, <2>2, <2>3 DEF A!Ends
  <2>4. CASE ~ A!Ends(r)
    <3> DEFINE k == [c EXCEPT !.at = "write"]
    <3>1. upload' = [upload EXCEPT ![r] = k] /\ accepted' = accepted \cup {<<At(c), c.plan[At(c)]>>}
      BY <1>4, <1>12, <2>1, <2>4 DEF A!Review, A!Sets, UploadInv, UploadTyped
    <3>2. /\ k \in Command /\ k.plan = c.plan /\ k.todo = c.todo /\ k.gate = c.gate
          /\ k.at = "write"
      BY DEF Command
    <3>3. At(c) \in Artifacts => c.plan[At(c)] \notin Dirty
      BY <2>1, <2>2 DEF Reviewed
    <3> HIDE DEF k
    <3>4. At(k) = At(c)
      BY <3>2 DEF At
    <3>5. Reviewed(k)'
      BY <2>1, <2>2, <3>1, <3>2, <3>3, <3>4, Passed
    <3> QED
      BY <1>2, <2>2, <3>1, <3>2, <3>5, CommandKeeps
  <2> QED
    BY <2>3, <2>4
<1>13. ASSUME NEW r \in Uploads, A!Write(r)
       PROVE  UploadInv'
  <2>1. PICK c \in Command : c = upload[r] /\ Reviewed(c)
    BY <1>1
  <2> PICK n : n = At(c)
    OBVIOUS
  <2> PICK body : body = c.plan[n]
    OBVIOUS
  <2>2. UNCHANGED <<kind, file, accepted, direct, torn>> /\ c.at = "write" /\ open \subseteq open'
    BY <1>13, <2>1 DEF A!Write
  <2>3. CASE A!Ends(r) /\ UNCHANGED <<row, filed>>
    BY <1>10, <2>2, <2>3 DEF A!Ends
  <2>4. CASE ~ (A!Ends(r) /\ UNCHANGED <<row, filed>>)
    <3>1. /\ A!Needs(n, body) => c.gate
          /\ row' = [row EXCEPT ![n] = body] /\ filed' \in {filed, filed \cup {n}}
          /\ open' = IF c.gate THEN open ELSE open \cup {<<n, body>>}
          /\ A!Ends(r) \/ A!Sets(r, "headline") \/ A!Advances(r)
      BY <1>4, <1>13, <2>1, <2>4 DEF A!Write, A!Attests, A!Lands, A!LandsUntagged
    <3>2. ASSUME n \in Artifacts
          PROVE  body \in A!Bodies \cup {Empty} /\ body \notin Dirty /\ Approved(n, body)'
      <4>1. body \in A!Bodies \cup {Empty} /\ body \notin Dirty
        BY <2>1, <2>2, <3>2 DEF Reviewed
      <4>2. CASE c.gate
        BY <2>1, <2>2, <3>2, <4>1, <4>2 DEF Reviewed, Approved
      <4>3. CASE ~ c.gate /\ kind = "document"
        BY <2>2, <3>1, <4>1, <4>3 DEF Approved
      <4>4. CASE ~ c.gate /\ kind # "document"
        <5>1. row[n] = body /\ body # NoBody
          BY <3>1, <4>1, <4>4, BodiesApart DEF A!Needs, A!Behaviour, BodiesApart
        <5> QED
          BY <2>2, <3>2, <4>1, <4>4, <5>1 DEF UploadInv, A!UploadsJudged, Approved
      <4> QED
        BY <4>1, <4>2, <4>3, <4>4
    <3>3. /\ row' \in [Artifacts -> A!Bodies \cup {NoBody, Empty}]
          /\ \A m \in Artifacts : (row'[m] = row[m] /\ (m \in filed' => m \in filed)) \/ Standing(m)'
      <4>1. \A m \in Artifacts : /\ row'[m] = IF m = n THEN body ELSE row[m]
                                 /\ m # n => (m \in filed' => m \in filed)
        BY <1>2, <3>1
      <4>2. row' \in [Artifacts -> A!Bodies \cup {NoBody, Empty}]
        BY <1>2, <3>1, <3>2
      <4>3. n \in Artifacts => Standing(n)'
        BY <3>2, <4>1 DEF Standing, Approved
      <4>4. ASSUME NEW m \in Artifacts
            PROVE  (row'[m] = row[m] /\ (m \in filed' => m \in filed)) \/ Standing(m)'
        <5>1. CASE m = n
          BY <4>3, <5>1 DEF Standing, Approved
        <5>2. CASE m # n
          BY <4>1, <5>2
        <5> QED
          BY <5>1, <5>2
      <4> QED
        BY <4>2, <4>4
    <3>4. CASE A!Ends(r)
      BY <1>3, <2>2, <3>3, <3>4, Unreviewed, CommandKeeps DEF A!Ends
    <3>5. CASE A!Advances(r)
      BY <2>1, <2>2, <3>3, <3>5, AdvanceKeeps
    <3>6. CASE A!Sets(r, "headline")
      <4> DEFINE k == [c EXCEPT !.at = "headline"]
      <4>1. upload' = [upload EXCEPT ![r] = k]
        BY <2>1, <3>6 DEF A!Sets, UploadInv, UploadTyped
      <4>2. /\ k \in Command /\ k.plan = c.plan /\ k.todo = c.todo /\ k.gate = c.gate
            /\ k.at = "headline"
        BY DEF Command
      <4> HIDE DEF k
      <4>3. At(k) = n /\ k.plan[n] = body
        BY <4>2 DEF At
      <4>4. Reviewed(k)'
        BY <2>1, <2>2, <3>2, <4>2, <4>3, Passed DEF Approved
      <4> QED
        BY <2>2, <3>3, <4>1, <4>2, <4>4, CommandKeeps
    <3> QED
      BY <3>1, <3>4, <3>5, <3>6
  <2> QED
    BY <2>3, <2>4
<1>14. ASSUME NEW r \in Uploads, A!FillHeadline(r)
       PROVE  UploadInv'
  <2>1. PICK c \in Command : c = upload[r] /\ Reviewed(c)
    BY <1>1
  <2> PICK n : n = At(c)
    OBVIOUS
  <2> PICK body : body = c.plan[n]
    OBVIOUS
  <2>2. /\ UNCHANGED <<kind, file, accepted, open, direct, torn>> /\ c.at = "headline"
        /\ A!Advances(r)
        /\ UNCHANGED <<row, filed>> \/ (row' = [row EXCEPT ![n] = body] /\ filed' = filed \cup {n})
    BY <1>4, <1>14, <2>1 DEF A!FillHeadline, A!Lands
  <2>3. n \in Artifacts => body \in A!Bodies \cup {Empty} /\ body \notin Dirty /\ Approved(n, body)'
    BY <2>1, <2>2 DEF Reviewed, Approved
  <2>4. CASE UNCHANGED <<row, filed>>
    BY <1>2, <2>1, <2>2, <2>4, AdvanceKeeps
  <2>5. CASE row' = [row EXCEPT ![n] = body] /\ filed' = filed \cup {n}
    <3>1. \A m \in Artifacts : /\ row'[m] = IF m = n THEN body ELSE row[m]
                               /\ m # n => (m \in filed' => m \in filed)
      BY <1>2, <2>5
    <3>2. row' \in [Artifacts -> A!Bodies \cup {NoBody, Empty}]
      BY <1>2, <2>3, <2>5
    <3>3. n \in Artifacts => Standing(n)'
      BY <2>3, <3>1 DEF Standing, Approved
    <3>4. ASSUME NEW m \in Artifacts
          PROVE  (row'[m] = row[m] /\ (m \in filed' => m \in filed)) \/ Standing(m)'
      <4>1. CASE m = n
        BY <3>3, <4>1 DEF Standing, Approved
      <4>2. CASE m # n
        BY <3>1, <4>2
      <4> QED
        BY <4>1, <4>2
    <3> QED
      BY <2>1, <2>2, <3>2, <3>4, AdvanceKeeps
  <2> QED
    BY <2>2, <2>4, <2>5
<1>15. ASSUME NEW r \in Uploads, A!StartCurate(r)
       PROVE  UploadInv'
  <2>1. PICK n \in Artifacts :
          /\ n \in filed
          /\ upload' = [upload EXCEPT ![r] = [A!Idle EXCEPT !.at = "curate", !.todo = {n}, !.plan = row]]
    BY <1>15 DEF A!StartCurate
  <2>2. PICK plan \in [Artifacts -> A!Bodies \cup {NoBody, Empty}] : plan = row
    BY <1>2
  <2> DEFINE k == [A!Idle EXCEPT !.at = "curate", !.todo = {n}, !.plan = plan]
  <2>3. k \in Command /\ k.at = "curate" /\ k.todo = {n} /\ k.plan = plan
    BY DEF A!Idle, Command
  <2>4. /\ upload' = [upload EXCEPT ![r] = k] /\ UNCHANGED <<kind, file, row, filed, accepted, open, direct, torn>>
        /\ kind = "principle"
    BY <1>15, <2>1, <2>2 DEF A!StartCurate
  <2> HIDE DEF k
  <2>5. At(k) = n
    BY <2>3 DEF At, BodiesApart
  <2>6. plan[n] \in Dirty => n \in torn
    BY <2>1, <2>2, <2>4 DEF UploadInv, A!UploadsJudged, BodiesApart, A!Bodies
  <2>7. Reviewed(k)'
    BY <2>3, <2>4, <2>5, <2>6 DEF Reviewed, At
  <2> QED
    BY <1>2, <2>3, <2>4, <2>7, CommandKeeps
<1>16. ASSUME NEW r \in Uploads, A!Curate(r)
       PROVE  UploadInv'
  <2>1. PICK c \in Command : c = upload[r] /\ Reviewed(c)
    BY <1>1
  <2> PICK n : n = At(c)
    OBVIOUS
  <2> PICK body : body = c.plan[n]
    OBVIOUS
  <2>2. /\ kind = "principle" /\ (n \in Artifacts /\ body \in Dirty => n \in torn)
        /\ UNCHANGED <<kind, file, accepted, open, direct, torn>> /\ A!Ends(r)
    BY <1>16, <2>1 DEF A!Curate, Reviewed
  <2>3. UNCHANGED <<row, filed>> \/ (row[n] = body /\ row' = [row EXCEPT ![n] = body] /\ filed' = filed \cup {n})
    BY <1>4, <1>16, <2>1, <2>2 DEF A!Curate, A!Needs, A!Behaviour, A!Lands
  <2>4. row' = row
    BY <1>2, <2>3
  <2>5. ASSUME NEW m \in Artifacts PROVE (row'[m] = row[m] /\ (m \in filed' => m \in filed)) \/ Standing(m)'
    <3>1. CASE m = n
      BY <2>2, <2>3, <2>4, <3>1 DEF UploadInv, A!UploadsJudged, Standing, Approved
    <3>2. CASE m # n
      BY <2>3, <2>4, <3>2
    <3> QED
      BY <3>1, <3>2
  <2> QED
    BY <1>2, <1>3, <2>2, <2>4, <2>5, Unreviewed, CommandKeeps DEF A!Ends
<1>18. CASE A!UploadFile
  <2>1. PICK n \in Artifacts, body \in A!Bodies :
          /\ kind = "skill" => n \notin filed
          /\ row' = [row EXCEPT ![n] = body]
          /\ direct' = direct \cup {<<n, body>>}
          /\ (filed' = filed \ {n} /\ torn' = torn) \/ (torn' = torn \cup {n} /\ filed' = filed)
    BY <1>18 DEF A!UploadFile
  <2>2. UNCHANGED <<kind, file, upload, accepted, open>>
    BY <1>18 DEF A!UploadFile
  <2>3. \A m \in Artifacts : row'[m] = IF m = n THEN body ELSE row[m]
    BY <1>2, <2>1
  <2>4. UploadTyped'
    BY <1>2, <2>1, <2>2 DEF UploadInv, UploadTyped
  <2>5. ASSUME NEW r \in Uploads PROVE Reviewed(upload[r])'
    <3>1. /\ upload' = upload /\ UNCHANGED <<kind, accepted, open>> /\ Reviewed(upload[r])
          /\ direct \subseteq direct' /\ torn \subseteq torn'
      BY <1>1, <2>1, <2>2
    <3> QED
      BY <3>1 DEF Reviewed, Approved, At
  <2>6. ASSUME NEW m \in Artifacts, row'[m] # NoBody PROVE Standing(m)'
    <3>1. CASE m = n
      BY <2>1, <2>2, <2>3, <3>1 DEF Standing, Approved
    <3>2. CASE m # n
      BY <2>1, <2>2, <2>3, <2>6, <3>2 DEF UploadInv, A!UploadsJudged, Standing, Approved
    <3> QED
      BY <3>1, <3>2
  <2>7. A!UploadsJudged'
    BY <2>6 DEF A!UploadsJudged, Standing, Approved
  <2> QED
    BY <2>4, <2>5, <2>7 DEF UploadInv
<1>17. CASE UNCHANGED A!uploadVars
  <2>1. UNCHANGED <<kind, file, row, filed, upload, accepted, open, direct, torn>>
    BY <1>17 DEF A!uploadVars
  <2>2. ASSUME NEW r \in Uploads PROVE Reviewed(upload[r])'
    <3>1. Reviewed(upload[r])
      BY <1>1
    <3> QED
      BY <2>1, <3>1 DEF Reviewed, Approved, At
  <2> QED
    BY <2>1, <2>2 DEF UploadInv, UploadTyped, A!UploadsJudged
<1> QED
  BY <1>5, <1>6, <1>7, <1>8, <1>9, <1>11, <1>12, <1>13, <1>14, <1>15, <1>16, <1>17, <1>18 DEF A!Next

LEMMA UploadBegins == ASSUME BodiesApart, A!Init PROVE UploadInv
<1>1. PICK b \in Clean \cup {NoBody} : row = [n \in Artifacts |-> b]
  BY DEF A!Init
<1>2. UploadTyped
  BY <1>1 DEF A!Init, UploadTyped, A!Idle, Command, A!Bodies
<1>3. \A r \in Uploads : Reviewed(upload[r])
  BY DEF A!Init, A!Idle, Reviewed
<1>4. A!UploadsJudged
  BY <1>1 DEF A!Init, A!UploadsJudged, BodiesApart
<1> QED
  BY <1>2, <1>3, <1>4 DEF UploadInv

\* A row of the project has a body that hard-codes a reference only if its file said so by its
\* tag or the upload of a single file wrote it, and then the row is no skill and no principle,
\* but for a call that did not come to replace the tags; what a skill or a principle says was
\* accepted by a reviewer, or a single file said it first; of a document, unless no reviewer was
\* found.  However many uploads, curations, publications and edits overlap.
THEOREM UploadsAreJudged == BodiesApart => (A!Spec => []UploadsJudged)
<1> SUFFICES ASSUME BodiesApart PROVE A!Spec => []UploadsJudged
  OBVIOUS
<1>1. A!Init => UploadInv
  BY UploadBegins
<1>2. UploadInv /\ [A!Next]_(A!uploadVars) => UploadInv'
  BY UploadKept
<1>3. UploadInv => UploadsJudged
  BY DEF UploadInv, UploadsJudged
<1> QED
  BY <1>1, <1>2, <1>3, PTL DEF A!Spec

-----------------------------------------------------------------------------
\* A workspace or a project is not what stands for none, and the requests are counted.
ProjectBounds == None \notin Workspaces /\ None \notin Projects /\ HomeCalls \in Nat

UpdateSteps == {"look", "mounted", "rehome", "read", "patch"}
Archiving == {"homed", "mounts", "clear"}

Request ==
    [at : {"idle", "mount"} \cup UpdateSteps \cup Archiving, kind : {"", "update", "mount", "archive"},
     by : HomeCallers \cup {None}, ws : Workspaces \cup {None}, pj : Projects \cup {None},
     saw : Workspaces \cup {None}, row : P!Row, patch : SUBSET P!Fields, new : 0..HomeCalls, todo : SUBSET Projects]

Placed == {"home", "mount"} \X Projects

ProjectsTyped ==
    /\ home \in [Projects -> Workspaces \cup {None}]
    /\ moved \in [Projects -> Workspaces \cup {None}]
    /\ fields \in [Projects -> P!Row] /\ asked \in [Projects -> P!Row]
    /\ mounts \subseteq Workspaces \X Projects
    /\ archived \subseteq Workspaces /\ default \in Workspaces
    /\ placed \in [Workspaces -> SUBSET Placed]
    /\ projectReq \in [HomeRequests -> Request]
    /\ projectCame \in 0..HomeCalls

\* What is in a workspace that is archived, or that an archive has found empty: nothing but
\* what came to it since; an archive under way has yet to clear some mounts.
HomesPlaced(w) == \A p \in Projects : home[p] = w => <<"home", p>> \in placed[w]
MountsPlaced(w, todo) ==
    \A p \in Projects : <<w, p>> \in mounts => <<"mount", p>> \in placed[w] \/ p \in todo

\* What a request knows of the project and of the workspaces it is about.
Kinds(k) ==
    /\ k.kind = "update" <=> k.at \in UpdateSteps
    /\ k.kind = "mount" <=> k.at = "mount"
    /\ k.kind = "archive" <=> k.at \in Archiving
Aims(k) ==
    /\ k.kind \in {"update", "mount"} => k.pj \in Projects /\ home[k.pj] # None
    /\ k.at \in {"look", "mounted", "rehome", "mount"} \cup Archiving => k.ws \in Workspaces
MayMove(k) ==
    k.at \in {"mounted", "rehome"} => P!Manages(k.by, k.saw) /\ P!Manages(k.by, k.ws)
Unmounted(k) ==
    k.at = "rehome" => <<k.ws, k.pj>> \notin mounts \/ <<k.pj, "mounted">> \in projectExcused
RowRead(k) == k.at = "patch" => k.row = fields[k.pj] \/ <<k.pj, "patched">> \in projectExcused
Emptied(k) ==
    /\ k.at \in {"mounts", "clear"} => HomesPlaced(k.ws)
    /\ k.at = "clear" => MountsPlaced(k.ws, k.todo)

Knows(k) == Kinds(k) /\ Aims(k) /\ MayMove(k) /\ Unmounted(k) /\ RowRead(k) /\ Emptied(k)

\* A mount is of a project that exists.
MountsOfProjects ==
    \A w \in Workspaces : \A p \in Projects :
        <<w, p>> \in mounts => home[p] # None /\ (home[p] # w \/ <<p, "mounted">> \in projectExcused)

ProjectsInv ==
    /\ ProjectsTyped
    /\ \A q \in HomeRequests : Knows(projectReq[q])
    /\ MountsOfProjects
    /\ \A w \in archived : HomesPlaced(w) /\ MountsPlaced(w, {})
    /\ P!DefaultStands
    /\ P!MovesStick
    /\ P!PatchesStick

-----------------------------------------------------------------------------
\* What every step does, request by request.  A project that exists goes on to.
HomesStay == \A p \in Projects : home[p] # None => home'[p] # None

Updating(p) == \E j \in HomeRequests : projectReq[j].kind = "update" /\ projectReq[j].pj = p
HeldBy(w) == w \in archived \/ \E j \in HomeRequests : projectReq[j].kind = "archive" /\ projectReq[j].ws = w

\* A new mount is of a project that exists, and is excused where it meets an update or the home.
NewMounts ==
    \A w \in Workspaces : \A p \in Projects :
        <<w, p>> \in mounts' /\ <<w, p>> \notin mounts =>
            /\ home[p] # None
            /\ home'[p] = w \/ Updating(p) => <<p, "mounted">> \in projectExcused'

\* A project comes to a home that does not mount it.
NewHomes ==
    \A p \in Projects :
        home'[p] # home[p] =>
            /\ home'[p] \in Workspaces
            /\ <<home'[p], p>> \in mounts' => <<p, "mounted">> \in projectExcused'

\* What comes to an archived workspace, or one that is being archived, is remembered.
Remembers ==
    \A w \in Workspaces :
        HeldBy(w) =>
            /\ placed[w] \subseteq placed'[w]
            /\ \A p \in Projects : home'[p] = w /\ home[p] # w => <<"home", p>> \in placed'[w]
            /\ \A p \in Projects :
                  <<w, p>> \in mounts' /\ <<w, p>> \notin mounts => <<"mount", p>> \in placed'[w]

\* A patch of a project is written while another update of it is under way only with an excuse.
PatchesMet(moving) ==
    \A j \in HomeRequests \ moving :
        projectReq[j].kind = "update" =>
            LET p == projectReq[j].pj
            IN  fields'[p] = fields[p] \/ <<p, "patched">> \in projectExcused'

NewlyArchived == \A w \in archived' \ archived : HomesPlaced(w)' /\ MountsPlaced(w, {})'

StepSound(moving) ==
    /\ UNCHANGED wsRole
    /\ projectExcused \subseteq projectExcused'
    /\ HomesStay /\ NewMounts /\ NewHomes /\ Remembers /\ PatchesMet(moving) /\ NewlyArchived
    /\ P!DefaultStands' /\ P!MovesStick' /\ P!PatchesStick'

\* A request that does not move keeps what it knows.
LEMMA OthersKnow ==
    ASSUME ProjectBounds, ProjectsInv, NEW busy, StepSound(busy), NEW j \in HomeRequests \ busy,
           NEW k \in Request, k = projectReq[j]
    PROVE  Knows(k)'
<1>1. Knows(k)
  BY DEF ProjectsInv
<1>2. Kinds(k)' /\ MayMove(k)'
  BY <1>1 DEF Knows, Kinds, MayMove, P!Manages, StepSound
<1>3. Aims(k)'
  BY <1>1 DEF Knows, Aims, StepSound, HomesStay
<1>4. Unmounted(k)'
  <2> SUFFICES ASSUME k.at = "rehome" PROVE <<k.ws, k.pj>> \notin mounts' \/ <<k.pj, "mounted">> \in projectExcused'
    BY DEF Unmounted
  <2>1. /\ k.ws \in Workspaces /\ k.pj \in Projects /\ Updating(k.pj)
        /\ <<k.ws, k.pj>> \notin mounts \/ <<k.pj, "mounted">> \in projectExcused
    BY <1>1 DEF Knows, Kinds, UpdateSteps, Aims, Unmounted, Updating
  <2> QED
    BY <2>1 DEF StepSound, NewMounts
<1>5. RowRead(k)'
  <2>1. k.at = "patch" => k.kind = "update"
    BY <1>1 DEF Knows, Kinds, UpdateSteps
  <2> QED
    BY <1>1, <2>1 DEF Knows, RowRead, StepSound, PatchesMet
<1>6. Emptied(k)'
  <2> SUFFICES ASSUME k.at \in {"mounts", "clear"} PROVE Emptied(k)'
    BY DEF Emptied
  <2>1. k.ws \in Workspaces /\ HeldBy(k.ws)
    BY <1>1 DEF Knows, Kinds, Archiving, Aims, HeldBy
  <2>2. HomesPlaced(k.ws)'
    BY <1>1, <2>1 DEF Knows, Emptied, HomesPlaced, StepSound, Remembers
  <2>3. k.at = "clear" => MountsPlaced(k.ws, k.todo)'
    BY <1>1, <2>1 DEF Knows, Emptied, MountsPlaced, StepSound, Remembers
  <2> QED
    BY <2>2, <2>3 DEF Emptied
<1> QED
  BY <1>2, <1>3, <1>4, <1>5, <1>6 DEF Knows

\* What every step keeps of the state.
LEMMA StateKept ==
    ASSUME ProjectBounds, ProjectsInv, NEW busy, StepSound(busy), ProjectsTyped'
    PROVE  MountsOfProjects' /\ \A w \in archived' : HomesPlaced(w)' /\ MountsPlaced(w, {})'
<1>1. MountsOfProjects'
  <2> SUFFICES ASSUME NEW w \in Workspaces, NEW p \in Projects, <<w, p>> \in mounts'
               PROVE  home'[p] # None /\ (home'[p] # w \/ <<p, "mounted">> \in projectExcused')
    BY DEF MountsOfProjects
  <2>1. CASE <<w, p>> \in mounts
    <3>1. home[p] # None /\ (home[p] # w \/ <<p, "mounted">> \in projectExcused)
      BY <2>1 DEF ProjectsInv, MountsOfProjects
    <3> QED
      BY <3>1 DEF StepSound, HomesStay, NewHomes
  <2>2. CASE <<w, p>> \notin mounts
    BY <2>2 DEF StepSound, HomesStay, NewMounts
  <2> QED
    BY <2>1, <2>2
<1>2. ASSUME NEW w \in archived' PROVE HomesPlaced(w)' /\ MountsPlaced(w, {})'
  <2>1. CASE w \in archived
    <3>1. w \in Workspaces /\ HeldBy(w) /\ HomesPlaced(w) /\ MountsPlaced(w, {})
      BY <2>1 DEF ProjectsInv, ProjectsTyped, HeldBy
    <3>2. HomesPlaced(w)'
      BY <3>1 DEF HomesPlaced, StepSound, Remembers
    <3>3. MountsPlaced(w, {})'
      BY <3>1 DEF MountsPlaced, StepSound, Remembers
    <3> QED
      BY <3>2, <3>3
  <2>2. CASE w \notin archived
    BY <2>2 DEF StepSound, NewlyArchived
  <2> QED
    BY <2>1, <2>2
<1> QED
  BY <1>1, <1>2

\* A step of one request.
LEMMA RequestKeeps ==
    ASSUME ProjectBounds, ProjectsInv, NEW q \in HomeRequests, NEW k \in Request, Knows(k)',
           projectReq' = [projectReq EXCEPT ![q] = k], StepSound({q}), ProjectsTyped'
    PROVE  ProjectsInv'
<1>1. projectReq \in [HomeRequests -> Request]
  BY DEF ProjectsInv, ProjectsTyped
<1>2. ASSUME NEW j \in HomeRequests PROVE Knows(projectReq[j])'
  <2>1. CASE j = q
    <3>1. projectReq'[j] = k
      BY <1>1, <2>1
    <3> QED
      BY <3>1 DEF Knows, Kinds, Aims, MayMove, Unmounted, RowRead, Emptied
  <2>2. CASE j # q
    <3>1. PICK c \in Request : c = projectReq[j]
      BY <1>1
    <3>2. projectReq'[j] = c
      BY <1>1, <2>2, <3>1
    <3>3. Knows(c)'
      BY <2>2, <3>1, OthersKnow
    <3> QED
      BY <3>2, <3>3 DEF Knows, Kinds, Aims, MayMove, Unmounted, RowRead, Emptied
  <2> QED
    BY <2>1, <2>2
<1> QED
  BY <1>2, StateKept DEF ProjectsInv, StepSound

\* A step of none.
LEMMA StateKeeps ==
    ASSUME ProjectBounds, ProjectsInv, UNCHANGED projectReq, StepSound({}), ProjectsTyped'
    PROVE  ProjectsInv'
<1>1. ASSUME NEW j \in HomeRequests PROVE Knows(projectReq[j])'
  <2>1. PICK c \in Request : c = projectReq[j]
    BY DEF ProjectsInv, ProjectsTyped
  <2>2. projectReq'[j] = c /\ Knows(c)'
    BY <2>1, OthersKnow
  <2> QED
    BY <2>2 DEF Knows, Kinds, Aims, MayMove, Unmounted, RowRead, Emptied
<1> QED
  BY <1>1, StateKept DEF ProjectsInv, StepSound

-----------------------------------------------------------------------------
\* What every action but its own parts leaves alone.
Apart == UNCHANGED <<home, mounts, archived, default, wsRole, moved, placed, projectExcused, fields, asked>>

LEMMA ApartSound ==
    ASSUME ProjectBounds, ProjectsInv, Apart
    PROVE  \A moving : StepSound(moving)
<1>1. UNCHANGED wsRole /\ projectExcused \subseteq projectExcused' /\ HomesStay /\ NewMounts /\ NewHomes
  BY DEF Apart, HomesStay, NewMounts, NewHomes
<1>2. Remembers /\ NewlyArchived
  BY DEF Apart, Remembers, NewlyArchived
<1>3. \A moving : PatchesMet(moving)
  BY DEF Apart, PatchesMet
<1>4. P!DefaultStands' /\ P!MovesStick' /\ P!PatchesStick'
  BY DEF Apart, ProjectsInv, P!DefaultStands, P!MovesStick, P!PatchesStick
<1> QED
  BY <1>1, <1>2, <1>3, <1>4 DEF StepSound

\* A request that moves and changes nothing else.
LEMMA Moves ==
    ASSUME ProjectBounds, ProjectsInv, NEW q \in HomeRequests, NEW k \in Request, Knows(k)', Apart,
           projectReq' = [projectReq EXCEPT ![q] = k], projectCame' \in 0..HomeCalls
    PROVE  ProjectsInv'
<1>1. ProjectsTyped'
  BY DEF ProjectsInv, ProjectsTyped, Apart
<1> QED
  BY <1>1, ApartSound, RequestKeeps

\* A request that is over.
LEMMA IdleKnows ==
    ASSUME ProjectBounds
    PROVE  P!Idle \in Request /\ Knows(P!Idle)'
<1>1. P!Idle \in Request /\ P!Idle.at = "idle" /\ P!Idle.kind = ""
  BY DEF ProjectBounds, P!Idle, Request, P!Row, P!Fields
<1> QED
  BY <1>1 DEF Knows, Kinds, Aims, MayMove, Unmounted, RowRead, Emptied, UpdateSteps, Archiving

LEMMA Ends ==
    ASSUME ProjectBounds, ProjectsInv, NEW q \in HomeRequests, Apart, P!Done(q), projectCame' = projectCame
    PROVE  ProjectsInv'
<1>1. projectCame' \in 0..HomeCalls
  BY DEF ProjectsInv, ProjectsTyped
<1> QED
  BY <1>1, IdleKnows, Moves DEF P!Done, P!Set

\* What a request under way is.
LEMMA UnderWay ==
    ASSUME ProjectsInv, NEW q \in HomeRequests
    PROVE  projectReq[q] \in Request /\ Knows(projectReq[q])
BY DEF ProjectsInv, ProjectsTyped

\* A step on an update that changes nothing but where it is and what it saw.
LEMMA UpdateMoves ==
    ASSUME ProjectBounds, ProjectsInv, NEW q \in HomeRequests, NEW c \in Request, c = projectReq[q], Apart,
           NEW k \in Request, projectReq' = [projectReq EXCEPT ![q] = k], projectCame' = projectCame,
           c.at \in UpdateSteps, k.at \in UpdateSteps, k.kind = c.kind, k.pj = c.pj, k.ws = c.ws,
           k.at \in {"look", "mounted", "rehome"} => c.at \in {"look", "mounted", "rehome"},
           MayMove(k), Unmounted(k), RowRead(k)
    PROVE  ProjectsInv'
<1>1. Knows(c)
  BY UnderWay
<1>2. Kinds(k)'
  BY <1>1 DEF Knows, Kinds, UpdateSteps, Archiving
<1>3. Aims(k)'
  BY <1>1 DEF Knows, Kinds, Aims, Apart, UpdateSteps, Archiving
<1>4. MayMove(k)' /\ Unmounted(k)' /\ RowRead(k)'
  BY DEF MayMove, P!Manages, Unmounted, RowRead, Apart
<1>5. Emptied(k)'
  BY DEF Emptied, UpdateSteps
<1>6. projectCame' \in 0..HomeCalls
  BY DEF ProjectsInv, ProjectsTyped
<1> QED
  BY <1>2, <1>3, <1>4, <1>5, <1>6, Moves DEF Knows

LEMMA StartUpdateKeeps ==
    ASSUME ProjectBounds, ProjectsInv, NEW q \in HomeRequests, NEW c \in HomeCallers, P!StartUpdate(q, c)
    PROVE  ProjectsInv'
<1>1. PICK p \in Projects, w \in Workspaces \cup {None}, patch \in SUBSET P!Fields :
        /\ home[p] # None
        /\ P!Start(q, [P!Idle EXCEPT !.at = IF w = None THEN "read" ELSE "look", !.kind = "update", !.by = c,
                                     !.ws = w, !.pj = p, !.patch = patch, !.new = projectCame + 1])
  BY DEF P!StartUpdate
<1>2. projectCame < HomeCalls /\ projectCame' = projectCame + 1 /\ projectCame \in 0..HomeCalls
  BY <1>1 DEF ProjectBounds, P!Start, ProjectsInv, ProjectsTyped
<1>3. PICK new \in 0..HomeCalls : new = projectCame + 1
  BY <1>2 DEF ProjectBounds
<1> DEFINE k == [P!Idle EXCEPT !.at = IF w = None THEN "read" ELSE "look", !.kind = "update", !.by = c,
                               !.ws = w, !.pj = p, !.patch = patch, !.new = new]
<1>4. projectReq' = [projectReq EXCEPT ![q] = k]
  BY <1>1, <1>3 DEF P!Start, P!Set
<1>5. /\ k \in Request /\ k.kind = "update" /\ k.pj = p /\ k.ws = w
      /\ k.at = IF w = None THEN "read" ELSE "look"
  BY IdleKnows DEF P!Idle, Request, UpdateSteps, Archiving
<1> HIDE DEF k
<1>6. Apart
  BY DEF P!StartUpdate, Apart
<1>7. Knows(k)'
  BY <1>1, <1>5, <1>6 DEF Knows, Kinds, Aims, MayMove, Unmounted, RowRead, Emptied, UpdateSteps, Archiving, Apart
<1>8. projectCame' \in 0..HomeCalls
  BY <1>2 DEF ProjectBounds
<1> QED
  BY <1>4, <1>5, <1>6, <1>7, <1>8, Moves

LEMMA StartMountKeeps ==
    ASSUME ProjectBounds, ProjectsInv, NEW q \in HomeRequests, NEW c \in HomeCallers, P!StartMount(q, c)
    PROVE  ProjectsInv'
<1>1. PICK p \in Projects, w \in Workspaces :
        /\ home[p] # None
        /\ P!Start(q, [P!Idle EXCEPT !.at = "mount", !.kind = "mount", !.by = c, !.ws = w, !.pj = p])
  BY DEF P!StartMount
<1>2. projectCame' \in 0..HomeCalls
  BY <1>1 DEF ProjectBounds, P!Start, ProjectsInv, ProjectsTyped
<1> DEFINE k == [P!Idle EXCEPT !.at = "mount", !.kind = "mount", !.by = c, !.ws = w, !.pj = p]
<1>4. projectReq' = [projectReq EXCEPT ![q] = k]
  BY <1>1 DEF P!Start, P!Set
<1>5. k \in Request /\ k.kind = "mount" /\ k.at = "mount" /\ k.pj = p /\ k.ws = w
  BY IdleKnows DEF P!Idle, Request, UpdateSteps, Archiving
<1> HIDE DEF k
<1>6. Apart
  BY DEF P!StartMount, Apart
<1>7. Knows(k)'
  BY <1>1, <1>5, <1>6 DEF Knows, Kinds, Aims, MayMove, Unmounted, RowRead, Emptied, UpdateSteps, Archiving, Apart
<1> QED
  BY <1>2, <1>4, <1>5, <1>6, <1>7, Moves

LEMMA LookHomeKeeps ==
    ASSUME ProjectBounds, ProjectsInv, NEW q \in HomeRequests, P!LookHome(q)
    PROVE  ProjectsInv'
<1>1. PICK c \in Request : c = projectReq[q] /\ Knows(c)
  BY UnderWay
<1>2. c.at = "look" /\ Apart /\ projectCame' = projectCame
  BY <1>1 DEF P!LookHome, Apart
<1>3. CASE P!Done(q)
  BY <1>2, <1>3, Ends
<1>4. CASE P!Go(q, "read")
  <2> DEFINE k == [c EXCEPT !.at = "read"]
  <2>1. k \in Request /\ k.at = "read" /\ k.kind = c.kind /\ k.pj = c.pj /\ k.ws = c.ws
    BY DEF Request, UpdateSteps
  <2>2. projectReq' = [projectReq EXCEPT ![q] = k]
    BY <1>1, <1>4 DEF P!Go, P!Set
  <2> HIDE DEF k
  <2>3. MayMove(k) /\ Unmounted(k) /\ RowRead(k)
    BY <2>1 DEF MayMove, Unmounted, RowRead
  <2>4. c.at \in UpdateSteps /\ k.at \in UpdateSteps
    BY <1>2, <2>1 DEF UpdateSteps
  <2> QED
    BY <1>1, <1>2, <2>1, <2>2, <2>3, <2>4, UpdateMoves
<1>5. CASE /\ P!Manages(c.by, home[c.pj]) /\ P!Manages(c.by, c.ws)
           /\ P!Set(q, [c EXCEPT !.at = "mounted", !.saw = home[c.pj]])
  <2>1. PICK h \in Workspaces \cup {None} : h = home[c.pj]
    <3>1. c.pj \in Projects
      BY <1>1, <1>2 DEF Knows, Kinds, Aims, UpdateSteps
    <3> QED
      BY <3>1 DEF ProjectsInv, ProjectsTyped
  <2> DEFINE k == [c EXCEPT !.at = "mounted", !.saw = h]
  <2>2. k \in Request /\ k.at = "mounted" /\ k.kind = c.kind /\ k.pj = c.pj /\ k.ws = c.ws /\ k.saw = h /\ k.by = c.by
    BY DEF Request, UpdateSteps
  <2>3. projectReq' = [projectReq EXCEPT ![q] = k]
    BY <1>1, <1>5, <2>1 DEF P!Set
  <2> HIDE DEF k
  <2>4. MayMove(k) /\ Unmounted(k) /\ RowRead(k)
    BY <1>5, <2>1, <2>2 DEF MayMove, Unmounted, RowRead
  <2>5. c.at \in UpdateSteps /\ k.at \in UpdateSteps
    BY <1>2, <2>2 DEF UpdateSteps
  <2> QED
    BY <1>1, <1>2, <2>2, <2>3, <2>4, <2>5, UpdateMoves
<1> QED
  BY <1>1, <1>3, <1>4, <1>5 DEF P!LookHome

LEMMA LookMountKeeps ==
    ASSUME ProjectBounds, ProjectsInv, NEW q \in HomeRequests, P!LookMount(q)
    PROVE  ProjectsInv'
<1>1. PICK c \in Request : c = projectReq[q] /\ Knows(c)
  BY UnderWay
<1>2. c.at = "mounted" /\ Apart /\ projectCame' = projectCame
  BY <1>1 DEF P!LookMount, Apart
<1>3. CASE P!Done(q)
  BY <1>2, <1>3, Ends
<1>4. CASE <<c.ws, c.pj>> \notin mounts /\ P!Go(q, "rehome")
  <2> DEFINE k == [c EXCEPT !.at = "rehome"]
  <2>1. /\ k \in Request /\ k.at = "rehome" /\ k.kind = c.kind /\ k.pj = c.pj /\ k.ws = c.ws
        /\ k.saw = c.saw /\ k.by = c.by
    BY DEF Request, UpdateSteps
  <2>2. projectReq' = [projectReq EXCEPT ![q] = k]
    BY <1>1, <1>4 DEF P!Go, P!Set
  <2> HIDE DEF k
  <2>3. MayMove(k) /\ Unmounted(k) /\ RowRead(k)
    BY <1>1, <1>2, <1>4, <2>1 DEF Knows, MayMove, Unmounted, RowRead
  <2>4. c.at \in UpdateSteps /\ k.at \in UpdateSteps
    BY <1>2, <2>1 DEF UpdateSteps
  <2> QED
    BY <1>1, <1>2, <2>1, <2>2, <2>3, <2>4, UpdateMoves
<1> QED
  BY <1>1, <1>3, <1>4 DEF P!LookMount, P!MayRehome

LEMMA ReadRowKeeps ==
    ASSUME ProjectBounds, ProjectsInv, NEW q \in HomeRequests, P!ReadRow(q)
    PROVE  ProjectsInv'
<1>1. PICK c \in Request : c = projectReq[q] /\ Knows(c)
  BY UnderWay
<1>2. c.at = "read" /\ Apart /\ projectCame' = projectCame
  BY <1>1 DEF P!ReadRow, Apart
<1>3. c.pj \in Projects
  BY <1>1, <1>2 DEF Knows, Kinds, Aims, UpdateSteps
<1>4. PICK h \in Workspaces \cup {None} : h = home[c.pj]
  BY <1>3 DEF ProjectsInv, ProjectsTyped
<1>5. PICK r \in P!Row : r = fields[c.pj]
  BY <1>3 DEF ProjectsInv, ProjectsTyped
<1> DEFINE k == [c EXCEPT !.at = "patch", !.saw = h, !.row = r]
<1>6. /\ k \in Request /\ k.at = "patch" /\ k.kind = c.kind /\ k.pj = c.pj /\ k.ws = c.ws
      /\ k.row = r
  BY DEF Request, UpdateSteps
<1>7. projectReq' = [projectReq EXCEPT ![q] = k]
  BY <1>1, <1>4, <1>5 DEF P!ReadRow, P!Set
<1> HIDE DEF k
<1>8. MayMove(k) /\ Unmounted(k) /\ RowRead(k)
  BY <1>5, <1>6 DEF MayMove, Unmounted, RowRead
<1>9. c.at \in UpdateSteps /\ k.at \in UpdateSteps
  BY <1>2, <1>6 DEF UpdateSteps
<1> QED
  BY <1>1, <1>2, <1>6, <1>7, <1>8, <1>9, UpdateMoves

LEMMA ListHomedKeeps ==
    ASSUME ProjectBounds, ProjectsInv, NEW q \in HomeRequests, P!ListHomed(q)
    PROVE  ProjectsInv'
<1>1. PICK c \in Request : c = projectReq[q] /\ Knows(c)
  BY UnderWay
<1>2. c.at = "homed" /\ Apart /\ projectCame' = projectCame
  BY <1>1 DEF P!ListHomed, Apart
<1>3. CASE P!Done(q)
  BY <1>2, <1>3, Ends
<1>4. CASE ~ P!Holds(c.ws) /\ P!Go(q, "mounts")
  <2> DEFINE k == [c EXCEPT !.at = "mounts"]
  <2>1. k \in Request /\ k.at = "mounts" /\ k.kind = c.kind /\ k.ws = c.ws
    BY DEF Request, Archiving
  <2>2. projectReq' = [projectReq EXCEPT ![q] = k]
    BY <1>1, <1>4 DEF P!Go, P!Set
  <2> HIDE DEF k
  <2>3. HomesPlaced(k.ws)'
    BY <1>2, <1>4, <2>1 DEF P!Holds, HomesPlaced, Apart
  <2>4. Kinds(k)' /\ Aims(k)'
    BY <1>1, <1>2, <2>1 DEF Knows, Kinds, Aims, UpdateSteps, Archiving
  <2>5. Knows(k)'
    BY <2>1, <2>3, <2>4 DEF Knows, MayMove, Unmounted, RowRead, Emptied
  <2>6. projectCame' \in 0..HomeCalls
    BY <1>2 DEF ProjectsInv, ProjectsTyped
  <2> QED
    BY <1>2, <2>1, <2>2, <2>5, <2>6, Moves
<1> QED
  BY <1>1, <1>3, <1>4 DEF P!ListHomed

LEMMA ListMountsKeeps ==
    ASSUME ProjectBounds, ProjectsInv, NEW q \in HomeRequests, P!ListMounts(q)
    PROVE  ProjectsInv'
<1>1. PICK c \in Request : c = projectReq[q] /\ Knows(c)
  BY UnderWay
<1>2. c.at = "mounts" /\ Apart /\ projectCame' = projectCame
  BY <1>1 DEF P!ListMounts, Apart
<1>3. PICK todo \in SUBSET Projects : todo = {p \in Projects : <<c.ws, p>> \in mounts}
  OBVIOUS
<1> DEFINE k == [c EXCEPT !.at = "clear", !.todo = todo]
<1>4. k \in Request /\ k.at = "clear" /\ k.kind = c.kind /\ k.ws = c.ws /\ k.todo = todo
  BY DEF Request, Archiving
<1>5. projectReq' = [projectReq EXCEPT ![q] = k]
  BY <1>1, <1>3 DEF P!ListMounts, P!Set
<1> HIDE DEF k
<1>6. HomesPlaced(k.ws)'
  BY <1>1, <1>2, <1>4 DEF Knows, Emptied, HomesPlaced, Apart
<1>7. MountsPlaced(k.ws, k.todo)'
  BY <1>2, <1>3, <1>4 DEF MountsPlaced, Apart
<1>8. Kinds(k)' /\ Aims(k)'
  BY <1>1, <1>2, <1>4 DEF Knows, Kinds, Aims, UpdateSteps, Archiving
<1>9. Knows(k)'
  BY <1>4, <1>6, <1>7, <1>8 DEF Knows, MayMove, Unmounted, RowRead, Emptied
<1>10. projectCame' \in 0..HomeCalls
  BY <1>2 DEF ProjectsInv, ProjectsTyped
<1> QED
  BY <1>2, <1>4, <1>5, <1>9, <1>10, Moves

LEMMA FailKeeps ==
    ASSUME ProjectBounds, ProjectsInv, NEW q \in HomeRequests, P!Fail(q)
    PROVE  ProjectsInv'
BY Ends DEF P!Fail, Apart

\* One project comes to a workspace, to stay or as a mount.
OnlyComes(how, w, p) ==
    \A v \in Workspaces : \A o \in Projects :
        /\ home'[o] = v /\ home[o] # v => how = "home" /\ v = w /\ o = p
        /\ <<v, o>> \in mounts' /\ <<v, o>> \notin mounts => how = "mount" /\ v = w /\ o = p

\* What is put in a workspace that is held is remembered.
LEMMA PlacesRemembers ==
    ASSUME ProjectsInv, NEW w \in Workspaces, NEW p \in Projects, NEW how \in {"home", "mount"},
           P!Places(w, <<how, p>>), OnlyComes(how, w, p)
    PROVE  placed' \in [Workspaces -> SUBSET Placed] /\ Remembers
<1>1. placed \in [Workspaces -> SUBSET Placed]
  BY DEF ProjectsInv, ProjectsTyped
<1>2. <<how, p>> \in Placed
  BY DEF Placed
<1>3. placed' \in [Workspaces -> SUBSET Placed]
  BY <1>1, <1>2 DEF P!Places
<1>4. /\ \A v \in Workspaces : placed[v] \subseteq placed'[v]
      /\ HeldBy(w) => <<how, p>> \in placed'[w]
  BY <1>1 DEF P!Places, HeldBy, P!Archiving
<1> QED
  BY <1>3, <1>4 DEF Remembers, OnlyComes

LEMMA CreateKeeps ==
    ASSUME ProjectBounds, ProjectsInv, NEW c, P!Create(c)
    PROVE  ProjectsInv'
<1>1. PICK p \in Projects, w \in Workspaces :
        /\ home[p] = None
        /\ home' = [home EXCEPT ![p] = w] /\ moved' = [moved EXCEPT ![p] = w]
        /\ P!Places(w, <<"home", p>>)
  BY DEF P!Create
<1>2. /\ UNCHANGED <<fields, mounts, archived, default, wsRole, projectReq, asked, projectExcused>>
      /\ projectCame' \in 0..HomeCalls
  BY DEF ProjectBounds, P!Create, ProjectsInv, ProjectsTyped
<1>3. /\ home \in [Projects -> Workspaces \cup {None}] /\ moved \in [Projects -> Workspaces \cup {None}]
      /\ \A o \in Projects : home'[o] = IF o = p THEN w ELSE home[o]
      /\ \A o \in Projects : moved'[o] = IF o = p THEN w ELSE moved[o]
  BY <1>1 DEF ProjectsInv, ProjectsTyped
<1>4. placed' \in [Workspaces -> SUBSET Placed] /\ Remembers
  <2>1. OnlyComes("home", w, p)
    BY <1>2, <1>3 DEF OnlyComes
  <2> QED
    BY <1>1, <2>1, PlacesRemembers
<1>5. ProjectsTyped'
  BY <1>1, <1>2, <1>3, <1>4 DEF ProjectsInv, ProjectsTyped
<1>6. HomesStay /\ NewMounts
  BY <1>2, <1>3, ProjectBounds DEF ProjectBounds, HomesStay, NewMounts
<1>7. NewHomes
  BY <1>1, <1>2, <1>3 DEF NewHomes, ProjectsInv, MountsOfProjects
<1>8. PatchesMet({}) /\ NewlyArchived
  BY <1>2 DEF PatchesMet, NewlyArchived
<1>9. P!DefaultStands' /\ P!MovesStick' /\ P!PatchesStick'
  BY <1>2, <1>3 DEF ProjectsInv, P!DefaultStands, P!MovesStick, P!PatchesStick
<1> QED
  BY <1>2, <1>4, <1>5, <1>6, <1>7, <1>8, <1>9, StateKeeps DEF StepSound

LEMMA RehomeKeeps ==
    ASSUME ProjectBounds, ProjectsInv, NEW q \in HomeRequests, P!Rehome(q)
    PROVE  ProjectsInv'
<1>1. PICK c \in Request : c = projectReq[q] /\ Knows(c)
  BY UnderWay
<1>2. c.at = "rehome" /\ c.kind = "update"
  BY <1>1 DEF P!Rehome, Knows, Kinds, UpdateSteps
<1>3. PICK p \in Projects, w \in Workspaces : p = c.pj /\ w = c.ws /\ home[p] # None
  BY <1>1, <1>2 DEF Knows, Aims
<1>4. /\ home' = [home EXCEPT ![p] = w] /\ moved' = [moved EXCEPT ![p] = w]
      /\ P!Places(w, <<"home", p>>) /\ P!Go(q, "read")
      /\ UNCHANGED <<fields, mounts, archived, default, wsRole, asked, projectCame>>
      /\ projectExcused \subseteq projectExcused'
  BY <1>1, <1>3 DEF P!Rehome
<1>5. /\ home \in [Projects -> Workspaces \cup {None}] /\ moved \in [Projects -> Workspaces \cup {None}]
      /\ \A o \in Projects : home'[o] = IF o = p THEN w ELSE home[o]
      /\ \A o \in Projects : moved'[o] = IF o = p THEN w ELSE moved[o]
  BY <1>4 DEF ProjectsInv, ProjectsTyped
<1>6. placed' \in [Workspaces -> SUBSET Placed] /\ Remembers
  <2>1. OnlyComes("home", w, p)
    BY <1>4, <1>5 DEF OnlyComes
  <2> QED
    BY <1>4, <2>1, PlacesRemembers
<1> DEFINE k == [c EXCEPT !.at = "read"]
<1>7. k \in Request /\ k.at = "read" /\ k.kind = "update" /\ k.pj = p /\ k.ws = w
  BY <1>2, <1>3 DEF Request, UpdateSteps
<1>8. projectReq' = [projectReq EXCEPT ![q] = k]
  BY <1>1, <1>4 DEF P!Go, P!Set
<1> HIDE DEF k
<1>9. ProjectsTyped'
  BY <1>4, <1>5, <1>6, <1>7, <1>8 DEF ProjectsInv, ProjectsTyped
<1>10. HomesStay /\ NewMounts
  BY <1>4, <1>5, ProjectBounds DEF ProjectBounds, HomesStay, NewMounts
<1>11. NewHomes
  <2>1. <<w, p>> \in mounts => <<p, "mounted">> \in projectExcused'
    BY <1>1, <1>2, <1>3, <1>4 DEF Knows, Unmounted
  <2> QED
    BY <1>4, <1>5, <2>1 DEF NewHomes
<1>12. PatchesMet({q}) /\ NewlyArchived
  BY <1>4 DEF PatchesMet, NewlyArchived
<1>13. P!DefaultStands' /\ P!MovesStick' /\ P!PatchesStick'
  BY <1>4, <1>5 DEF ProjectsInv, P!DefaultStands, P!MovesStick, P!PatchesStick
<1>14. Knows(k)'
  <2>1. Kinds(k)' /\ Aims(k)'
    BY <1>3, <1>5, <1>7, ProjectBounds DEF ProjectBounds, Kinds, Aims, UpdateSteps, Archiving
  <2> QED
    BY <1>7, <2>1 DEF Knows, MayMove, Unmounted, RowRead, Emptied
<1> QED
  BY <1>4, <1>6, <1>7, <1>8, <1>9, <1>10, <1>11, <1>12, <1>13, <1>14, RequestKeeps DEF StepSound

LEMMA WriteRowKeeps ==
    ASSUME ProjectBounds, ProjectsInv, NEW q \in HomeRequests, P!WriteRow(q)
    PROVE  ProjectsInv'
<1>1. PICK c \in Request : c = projectReq[q] /\ Knows(c)
  BY UnderWay
<1>2. c.at = "patch" /\ c.kind = "update"
  BY <1>1 DEF P!WriteRow, Knows, Kinds, UpdateSteps
<1>3. PICK p \in Projects : p = c.pj
  BY <1>1, <1>2 DEF Knows, Aims
<1>4. PICK r \in P!Row : r = [f \in P!Fields |-> IF f \in c.patch THEN c.new ELSE c.row[f]]
  BY DEF Request, P!Row
<1>5. PICK a \in P!Row : a = [f \in P!Fields |-> IF f \in c.patch THEN c.new ELSE asked[p][f]]
  <2>1. asked[p] \in P!Row
    BY DEF ProjectsInv, ProjectsTyped
  <2> QED
    BY <2>1 DEF Request, P!Row
<1>6. /\ fields' = [fields EXCEPT ![p] = r] /\ asked' = [asked EXCEPT ![p] = a]
      /\ UNCHANGED <<home, mounts, archived, default, wsRole, moved, placed, projectCame>>
      /\ projectExcused' = IF P!Overlaps(q, {"update"}, p) THEN projectExcused \cup {<<p, "patched">>}
                           ELSE projectExcused
      /\ P!Done(q)
  BY <1>1, <1>3, <1>4, <1>5 DEF P!WriteRow, P!WriteHome, P!Patched
<1>7. /\ fields \in [Projects -> P!Row] /\ asked \in [Projects -> P!Row]
      /\ \A o \in Projects : fields'[o] = IF o = p THEN r ELSE fields[o]
      /\ \A o \in Projects : asked'[o] = IF o = p THEN a ELSE asked[o]
  BY <1>6 DEF ProjectsInv, ProjectsTyped
<1>8. projectReq' = [projectReq EXCEPT ![q] = P!Idle]
  BY <1>6 DEF P!Done, P!Set
<1>9. ProjectsTyped'
  BY <1>6, <1>7, <1>8, IdleKnows DEF ProjectsInv, ProjectsTyped
<1>10. HomesStay /\ NewMounts /\ NewHomes /\ Remembers /\ NewlyArchived
  BY <1>6 DEF HomesStay, NewMounts, NewHomes, Remembers, NewlyArchived
<1>11. PatchesMet({q})
  <2> SUFFICES ASSUME NEW j \in HomeRequests \ {q}, projectReq[j].kind = "update"
               PROVE  LET o == projectReq[j].pj
                      IN  fields'[o] = fields[o] \/ <<o, "patched">> \in projectExcused'
    BY DEF PatchesMet
  <2>1. projectReq[j].pj \in Projects
    BY UnderWay DEF Knows, Aims
  <2>2. CASE projectReq[j].pj = p
    BY <1>6, <2>2 DEF P!Overlaps
  <2>3. CASE projectReq[j].pj # p
    BY <1>7, <2>1, <2>3
  <2> QED
    BY <2>2, <2>3
<1>12. P!PatchesStick'
  <2>1. r = a \/ <<p, "patched">> \in projectExcused
    <3>1. CASE c.row = asked[p]
      BY <1>4, <1>5, <3>1
    <3>2. CASE c.row # asked[p]
      BY <1>1, <1>2, <1>3, <3>2 DEF Knows, RowRead, ProjectsInv, P!PatchesStick
    <3> QED
      BY <3>1, <3>2
  <2> QED
    BY <1>6, <1>7, <2>1 DEF ProjectsInv, P!PatchesStick
<1>13. P!DefaultStands' /\ P!MovesStick'
  BY <1>6 DEF ProjectsInv, P!DefaultStands, P!MovesStick
<1> QED
  BY <1>6, <1>8, <1>9, <1>10, <1>11, <1>12, <1>13, IdleKnows, RequestKeeps DEF StepSound

LEMMA AddMountKeeps ==
    ASSUME ProjectBounds, ProjectsInv, NEW q \in HomeRequests, P!AddMount(q)
    PROVE  ProjectsInv'
<1>1. PICK c \in Request : c = projectReq[q] /\ Knows(c)
  BY UnderWay
<1>2. c.at = "mount" /\ c.kind = "mount"
  BY <1>1 DEF P!AddMount, Knows, Kinds
<1>3. PICK p \in Projects, w \in Workspaces : p = c.pj /\ w = c.ws /\ home[p] # None
  BY <1>1, <1>2 DEF Knows, Aims
<1>4. /\ mounts' = mounts \cup {<<w, p>>}
      /\ P!Places(w, <<"mount", p>>) /\ P!Done(q)
      /\ projectExcused' = IF home[p] = w \/ P!Overlaps(q, {"update"}, p)
                           THEN projectExcused \cup {<<p, "mounted">>} ELSE projectExcused
      /\ UNCHANGED <<home, fields, archived, default, wsRole, moved, asked, projectCame>>
  BY <1>1, <1>3 DEF P!AddMount
<1>5. placed' \in [Workspaces -> SUBSET Placed] /\ Remembers
  <2>1. OnlyComes("mount", w, p)
    BY <1>4 DEF OnlyComes
  <2> QED
    BY <1>4, <2>1, PlacesRemembers
<1>6. projectReq' = [projectReq EXCEPT ![q] = P!Idle]
  BY <1>4 DEF P!Done, P!Set
<1>7. ProjectsTyped'
  BY <1>4, <1>5, <1>6, IdleKnows DEF ProjectsInv, ProjectsTyped
<1>8. NewMounts
  <2>1. Updating(p) => P!Overlaps(q, {"update"}, p)
    BY <1>1, <1>2 DEF Updating, P!Overlaps
  <2>2. \A v \in Workspaces : \A o \in Projects :
          <<v, o>> \in mounts' /\ <<v, o>> \notin mounts => v = w /\ o = p
    BY <1>4
  <2> QED
    BY <1>3, <1>4, <2>1, <2>2 DEF NewMounts
<1>9. HomesStay /\ NewHomes /\ PatchesMet({q}) /\ NewlyArchived
  BY <1>4 DEF HomesStay, NewHomes, PatchesMet, NewlyArchived
<1>10. P!DefaultStands' /\ P!MovesStick' /\ P!PatchesStick'
  BY <1>4 DEF ProjectsInv, P!DefaultStands, P!MovesStick, P!PatchesStick
<1> QED
  BY <1>4, <1>5, <1>6, <1>7, <1>8, <1>9, <1>10, IdleKnows, RequestKeeps DEF StepSound

LEMMA RemoveMountKeeps ==
    ASSUME ProjectBounds, ProjectsInv, NEW c, P!RemoveMount(c)
    PROVE  ProjectsInv'
<1>1. /\ mounts' \subseteq mounts /\ projectCame' \in 0..HomeCalls
      /\ UNCHANGED <<home, fields, archived, default, wsRole, projectReq, moved, asked, placed, projectExcused>>
  BY DEF ProjectBounds, P!RemoveMount, ProjectsInv, ProjectsTyped
<1>2. ProjectsTyped'
  BY <1>1 DEF ProjectsInv, ProjectsTyped
<1>3. HomesStay /\ NewMounts /\ NewHomes /\ Remembers /\ NewlyArchived /\ PatchesMet({})
  BY <1>1 DEF HomesStay, NewMounts, NewHomes, Remembers, NewlyArchived, PatchesMet
<1>4. P!DefaultStands' /\ P!MovesStick' /\ P!PatchesStick'
  BY <1>1 DEF ProjectsInv, P!DefaultStands, P!MovesStick, P!PatchesStick
<1> QED
  BY <1>1, <1>2, <1>3, <1>4, StateKeeps DEF StepSound

LEMMA StartArchiveKeeps ==
    ASSUME ProjectBounds, ProjectsInv, NEW q \in HomeRequests, NEW c \in HomeCallers, P!StartArchive(q, c)
    PROVE  ProjectsInv'
<1>1. PICK w \in Workspaces :
        /\ w \notin archived
        /\ P!Start(q, [P!Idle EXCEPT !.at = "homed", !.kind = "archive", !.by = c, !.ws = w])
        /\ placed' = [placed EXCEPT ![w] = IF P!Archiving(w) THEN @ ELSE {}]
  BY DEF P!StartArchive
<1>2. /\ UNCHANGED <<home, fields, mounts, archived, default, wsRole, moved, asked, projectExcused>>
      /\ projectCame' \in 0..HomeCalls
  BY <1>1 DEF ProjectBounds, P!StartArchive, P!Start, ProjectsInv, ProjectsTyped
<1>3. /\ placed' \in [Workspaces -> SUBSET Placed]
      /\ \A v \in Workspaces : HeldBy(v) => placed'[v] = placed[v]
  BY <1>1 DEF ProjectsInv, ProjectsTyped, HeldBy, P!Archiving
<1> DEFINE k == [P!Idle EXCEPT !.at = "homed", !.kind = "archive", !.by = c, !.ws = w]
<1>4. projectReq' = [projectReq EXCEPT ![q] = k]
  BY <1>1 DEF P!Start, P!Set
<1>5. k \in Request /\ k.kind = "archive" /\ k.at = "homed" /\ k.ws = w
  BY IdleKnows DEF P!Idle, Request, UpdateSteps, Archiving
<1> HIDE DEF k
<1>6. ProjectsTyped'
  BY <1>2, <1>3, <1>4, <1>5 DEF ProjectsInv, ProjectsTyped
<1>7. HomesStay /\ NewMounts /\ NewHomes /\ Remembers /\ NewlyArchived /\ PatchesMet({q})
  BY <1>2, <1>3 DEF HomesStay, NewMounts, NewHomes, Remembers, NewlyArchived, PatchesMet
<1>8. P!DefaultStands' /\ P!MovesStick' /\ P!PatchesStick'
  BY <1>2 DEF ProjectsInv, P!DefaultStands, P!MovesStick, P!PatchesStick
<1>9. Knows(k)'
  BY <1>5 DEF Knows, Kinds, Aims, MayMove, Unmounted, RowRead, Emptied, UpdateSteps, Archiving
<1> QED
  BY <1>2, <1>4, <1>5, <1>6, <1>7, <1>8, <1>9, RequestKeeps DEF StepSound

LEMMA ClearMountKeeps ==
    ASSUME ProjectBounds, ProjectsInv, NEW q \in HomeRequests, P!ClearMount(q)
    PROVE  ProjectsInv'
<1>1. PICK c \in Request : c = projectReq[q] /\ Knows(c)
  BY UnderWay
<1>2. PICK p \in c.todo :
        /\ mounts' = mounts \ {<<c.ws, p>>}
        /\ P!Set(q, [c EXCEPT !.todo = @ \ {p}])
  BY <1>1 DEF P!ClearMount
<1>3. /\ UNCHANGED <<home, fields, archived, default, wsRole, moved, asked, placed, projectExcused, projectCame>>
      /\ c.at = "clear" /\ c.ws \in Workspaces
  BY <1>1 DEF P!ClearMount, Knows, Aims, Archiving
<1> DEFINE k == [c EXCEPT !.todo = @ \ {p}]
<1>4. projectReq' = [projectReq EXCEPT ![q] = k]
  BY <1>1, <1>2 DEF P!Set
<1>5. k \in Request /\ k.kind = c.kind /\ k.at = "clear" /\ k.ws = c.ws /\ k.pj = c.pj /\ k.todo = c.todo \ {p}
  BY <1>3 DEF Request
<1> HIDE DEF k
<1>6. ProjectsTyped'
  BY <1>2, <1>3, <1>4, <1>5 DEF ProjectsInv, ProjectsTyped
<1>7. HomesStay /\ NewMounts /\ NewHomes /\ Remembers /\ NewlyArchived /\ PatchesMet({q})
  BY <1>2, <1>3 DEF HomesStay, NewMounts, NewHomes, Remembers, NewlyArchived, PatchesMet
<1>8. P!DefaultStands' /\ P!MovesStick' /\ P!PatchesStick'
  BY <1>3 DEF ProjectsInv, P!DefaultStands, P!MovesStick, P!PatchesStick
<1>9. Kinds(k)' /\ Aims(k)'
  BY <1>1, <1>3, <1>5 DEF Knows, Kinds, Aims, UpdateSteps, Archiving
<1>10. HomesPlaced(k.ws)'
  BY <1>1, <1>3, <1>5 DEF Knows, Emptied, HomesPlaced
<1>11. MountsPlaced(k.ws, k.todo)'
  BY <1>1, <1>2, <1>3, <1>5 DEF Knows, Emptied, MountsPlaced
<1>12. Knows(k)'
  BY <1>5, <1>9, <1>10, <1>11 DEF Knows, MayMove, Unmounted, RowRead, Emptied
<1> QED
  BY <1>3, <1>4, <1>5, <1>6, <1>7, <1>8, <1>12, RequestKeeps DEF StepSound

LEMMA ArchiveKeeps ==
    ASSUME ProjectBounds, ProjectsInv, NEW q \in HomeRequests, P!Archive(q)
    PROVE  ProjectsInv'
<1>1. PICK c \in Request : c = projectReq[q] /\ Knows(c)
  BY UnderWay
<1>2. /\ c.at = "clear" /\ c.todo = {} /\ c.ws \in Workspaces
      /\ archived' = archived \cup {c.ws}
      /\ projectExcused' = IF default = c.ws THEN projectExcused \cup {<<c.ws, "default">>} ELSE projectExcused
      /\ P!Done(q)
      /\ UNCHANGED <<home, fields, mounts, default, wsRole, moved, asked, placed, projectCame>>
  BY <1>1 DEF P!Archive, Knows, Aims, Archiving
<1>3. projectReq' = [projectReq EXCEPT ![q] = P!Idle]
  BY <1>2 DEF P!Done, P!Set
<1>4. ProjectsTyped'
  BY <1>2, <1>3, IdleKnows DEF ProjectsInv, ProjectsTyped
<1>5. HomesStay /\ NewMounts /\ NewHomes /\ Remembers /\ PatchesMet({q})
  BY <1>2 DEF HomesStay, NewMounts, NewHomes, Remembers, PatchesMet
<1>6. NewlyArchived
  <2>1. HomesPlaced(c.ws) /\ MountsPlaced(c.ws, {})
    BY <1>1, <1>2 DEF Knows, Emptied
  <2>2. \A w \in archived' \ archived : w = c.ws
    BY <1>2
  <2> QED
    BY <1>2, <2>1, <2>2 DEF NewlyArchived, HomesPlaced, MountsPlaced
<1>7. P!DefaultStands' /\ P!MovesStick' /\ P!PatchesStick'
  BY <1>2 DEF ProjectsInv, P!DefaultStands, P!MovesStick, P!PatchesStick
<1> QED
  BY <1>2, <1>3, <1>4, <1>5, <1>6, <1>7, IdleKnows, RequestKeeps DEF StepSound

LEMMA RestoreKeeps ==
    ASSUME ProjectBounds, ProjectsInv, NEW c, P!Restore(c)
    PROVE  ProjectsInv'
<1>1. /\ archived' \subseteq archived /\ projectCame' \in 0..HomeCalls
      /\ UNCHANGED <<home, fields, mounts, default, wsRole, projectReq, moved, asked, placed, projectExcused>>
  BY DEF ProjectBounds, P!Restore, ProjectsInv, ProjectsTyped
<1>2. ProjectsTyped'
  BY <1>1 DEF ProjectsInv, ProjectsTyped
<1>3. HomesStay /\ NewMounts /\ NewHomes /\ Remembers /\ NewlyArchived /\ PatchesMet({})
  BY <1>1 DEF HomesStay, NewMounts, NewHomes, Remembers, NewlyArchived, PatchesMet
<1>4. P!DefaultStands' /\ P!MovesStick' /\ P!PatchesStick'
  BY <1>1 DEF ProjectsInv, P!DefaultStands, P!MovesStick, P!PatchesStick
<1> QED
  BY <1>1, <1>2, <1>3, <1>4, StateKeeps DEF StepSound

LEMMA SetDefaultKeeps ==
    ASSUME ProjectBounds, ProjectsInv, P!SetDefault
    PROVE  ProjectsInv'
<1>1. /\ default' \in Workspaces /\ projectCame' \in 0..HomeCalls
      /\ projectExcused' = IF default' \in archived THEN projectExcused \cup {<<default', "default">>}
                           ELSE projectExcused
      /\ UNCHANGED <<home, fields, mounts, archived, wsRole, projectReq, moved, asked, placed>>
  BY DEF ProjectBounds, P!SetDefault, ProjectsInv, ProjectsTyped
<1>2. ProjectsTyped'
  BY <1>1 DEF ProjectsInv, ProjectsTyped
<1>3. HomesStay /\ NewMounts /\ NewHomes /\ Remembers /\ NewlyArchived /\ PatchesMet({})
  BY <1>1 DEF HomesStay, NewMounts, NewHomes, Remembers, NewlyArchived, PatchesMet
<1>4. P!DefaultStands' /\ P!MovesStick' /\ P!PatchesStick'
  BY <1>1 DEF ProjectsInv, P!DefaultStands, P!MovesStick, P!PatchesStick
<1> QED
  BY <1>1, <1>2, <1>3, <1>4, StateKeeps DEF StepSound

LEMMA ProjectsStep ==
    ASSUME ProjectBounds, ProjectsInv, [P!Next]_(P!projectsVars)
    PROVE  ProjectsInv'
<1>1. ASSUME NEW c \in HomeCallers, P!Create(c) \/ P!RemoveMount(c) \/ P!Restore(c)
      PROVE  ProjectsInv'
  BY <1>1, CreateKeeps, RemoveMountKeeps, RestoreKeeps
<1>2. ASSUME NEW c \in HomeCallers, NEW q \in HomeRequests,
             P!StartUpdate(q, c) \/ P!StartMount(q, c) \/ P!StartArchive(q, c)
      PROVE  ProjectsInv'
  BY <1>2, StartUpdateKeeps, StartMountKeeps, StartArchiveKeeps
<1>3. ASSUME NEW q \in HomeRequests,
             \/ P!LookHome(q) \/ P!LookMount(q) \/ P!Rehome(q) \/ P!ReadRow(q) \/ P!WriteRow(q) \/ P!AddMount(q)
             \/ P!ListHomed(q) \/ P!ListMounts(q) \/ P!ClearMount(q) \/ P!Archive(q) \/ P!Fail(q)
      PROVE  ProjectsInv'
  BY <1>3, LookHomeKeeps, LookMountKeeps, RehomeKeeps, ReadRowKeeps, WriteRowKeeps, AddMountKeeps,
     ListHomedKeeps, ListMountsKeeps, ClearMountKeeps, ArchiveKeeps, FailKeeps
<1>4. CASE UNCHANGED P!projectsVars
  <2>1. Apart /\ UNCHANGED projectReq /\ UNCHANGED projectCame
    BY <1>4 DEF P!projectsVars, Apart
  <2>2. ProjectsTyped'
    BY <2>1 DEF ProjectsInv, ProjectsTyped, Apart
  <2> QED
    BY <2>1, <2>2, ApartSound, StateKeeps
<1> QED
  BY <1>1, <1>2, <1>3, <1>4, SetDefaultKeeps DEF P!Next

\* The step that moves a project is of a request that may.
LEMMA MoverMay ==
    ASSUME ProjectBounds, ProjectsInv, P!Next, NEW p \in Projects, home[p] # None, home'[p] # home[p]
    PROVE  \/ <<p, "moved">> \in projectExcused'
           \/ \E q \in HomeRequests :
                /\ projectReq[q].at = "rehome" /\ projectReq'[q].at # "rehome" /\ projectReq[q].pj = p
                /\ P!Manages(projectReq[q].by, home[p]) /\ P!Manages(projectReq[q].by, home'[p])
<1>1. home \in [Projects -> Workspaces \cup {None}] /\ projectReq \in [HomeRequests -> Request]
  BY DEF ProjectsInv, ProjectsTyped
<1>2. ASSUME NEW c, P!Create(c) PROVE FALSE
  BY <1>1, <1>2 DEF P!Create
<1>3. PICK q \in HomeRequests : P!Rehome(q)
  BY <1>2 DEF P!Next, P!RemoveMount, P!Restore, P!StartUpdate, P!StartMount, P!StartArchive, P!SetDefault,
     P!LookHome, P!LookMount, P!ReadRow, P!WriteRow, P!WriteHome, P!AddMount, P!ListHomed, P!ListMounts,
     P!ClearMount, P!Archive, P!Fail
<1>4. PICK c \in Request : c = projectReq[q] /\ Knows(c)
  BY UnderWay
<1>5. /\ c.at = "rehome" /\ home' = [home EXCEPT ![c.pj] = c.ws]
      /\ home[c.pj] # c.saw => <<c.pj, "moved">> \in projectExcused'
      /\ projectReq' = [projectReq EXCEPT ![q] = [c EXCEPT !.at = "read"]]
  BY <1>3, <1>4 DEF P!Rehome, P!Go, P!Set
<1>6. c.pj = p /\ home'[p] = c.ws
  BY <1>1, <1>5
<1>7. projectReq'[q].at = "read"
  BY <1>1, <1>5 DEF Request
<1>8. P!Manages(c.by, c.saw) /\ P!Manages(c.by, c.ws)
  BY <1>4, <1>5 DEF Knows, MayMove
<1> QED
  BY <1>4, <1>5, <1>6, <1>7, <1>8

LEMMA ProjectsBegin == ASSUME ProjectBounds, P!Init PROVE ProjectsInv
<1>1. ProjectsTyped
  BY IdleKnows DEF ProjectBounds, P!Init, ProjectsTyped, P!Row, P!Fields
<1>2. ASSUME NEW q \in HomeRequests PROVE Knows(projectReq[q])
  <2>1. projectReq[q].at = "idle" /\ projectReq[q].kind = ""
    BY DEF P!Init, P!Idle
  <2> QED
    BY <2>1 DEF Knows, Kinds, Aims, MayMove, Unmounted, RowRead, Emptied, UpdateSteps, Archiving
<1>3. MountsOfProjects
  BY DEF P!Init, MountsOfProjects
<1> QED
  BY <1>1, <1>2, <1>3 DEF P!Init, ProjectsInv, P!DefaultStands, P!MovesStick, P!PatchesStick

\* A project has one home, which no mount repeats unless a move and a mount of it overlapped; an
\* archived workspace is empty but for what came since the archive looked; the default workspace
\* is archived only where the two met; moves and patches of a project stay; and a project leaves
\* a home only at the request of one who manages both sides.  For any number of requests, of
\* workspaces and of projects.
THEOREM ProjectsAreKept == ProjectBounds => (P!Spec => ProjectsKept)
<1> SUFFICES ASSUME ProjectBounds PROVE P!Spec => ProjectsKept
  OBVIOUS
<1>1. P!Init => ProjectsInv
  BY ProjectsBegin
<1>2. ProjectsInv /\ [P!Next]_(P!projectsVars) => ProjectsInv'
  BY ProjectsStep
<1>3. ProjectsInv => P!HomeApart /\ P!ArchivedEmpty /\ P!DefaultStands /\ P!MovesStick /\ P!PatchesStick
  <2> SUFFICES ASSUME ProjectsInv PROVE P!HomeApart /\ P!ArchivedEmpty
    BY DEF ProjectsInv
  <2>1. \A m \in mounts : \E w \in Workspaces, p \in Projects : m = <<w, p>>
    BY DEF ProjectsInv, ProjectsTyped
  <2>2. P!HomeApart
    BY <2>1 DEF ProjectsInv, MountsOfProjects, P!HomeApart
  <2>3. P!ArchivedEmpty
    BY DEF ProjectsInv, HomesPlaced, MountsPlaced, P!ArchivedEmpty
  <2> QED
    BY <2>2, <2>3
<1>4. ProjectsInv /\ [P!Next]_(P!projectsVars) =>
        [\A p \in Projects :
            home[p] # None /\ home'[p] # home[p] =>
              \/ <<p, "moved">> \in projectExcused'
              \/ \E q \in HomeRequests :
                    /\ projectReq[q].at = "rehome" /\ projectReq'[q].at # "rehome" /\ projectReq[q].pj = p
                    /\ P!Manages(projectReq[q].by, home[p]) /\ P!Manages(projectReq[q].by, home'[p])]_(P!projectsVars)
  BY MoverMay
<1> QED
  BY <1>1, <1>2, <1>3, <1>4, PTL DEF P!Spec, ProjectsKept, P!MovedByBoth

-----------------------------------------------------------------------------
\* The keys that are used are keys, and the requests are counted.
VariableBounds ==
    /\ StartKeys \subseteq V!Keys /\ WriteKeys \subseteq V!Keys /\ ReadKeys \subseteq V!Keys
    /\ VariableNames # {} /\ ComputedNames \subseteq VariableNames
    /\ VariableCalls \in Nat

VariableRow == [id : Nat, value : Nat, secret : BOOLEAN]
Getting == {"get", "missed"}
Setting == {"look", "write"}
Call ==
    [at : {"idle"} \cup Setting \cup Getting, key : V!Keys, saw : Nat, value : Nat, secret : BOOLEAN,
     left : Seq(V!Layers), inherit : BOOLEAN]

VariablesTyped ==
    /\ variable \in [V!Keys -> VariableRow] /\ acked \in [V!Keys -> VariableRow]
    /\ variableReq \in [VariableRequests -> Call]
    /\ held \in [VariableRequests -> BOOLEAN] /\ dropped \in [VariableRequests -> BOOLEAN]
    /\ variableCame \in Nat

\* A layer that is left to read has the name.
StillThere(k) == \E i \in 1..Len(k.left) : V!Answers(variable, k.left[i], k.key[2])

\* What a request knows: a credential is marked; a set wrote down the row it found, unless
\* another met it; and a get whose name has been there throughout has yet to come to it.
SetKnows(k) ==
    /\ k.at \in Setting /\ k.key[2] \in CredentialNames => k.secret
    /\ k.at = "write" => variable[k.key].id = k.saw \/ k.key \in met
GetKnows(q, k) ==
    /\ k.at = "get" /\ held[q] /\ ~ dropped[q] => StillThere(k)
    /\ k.at = "missed" => ~ held[q] \/ dropped[q]

\* Two sets under way at one key have met.
MetAt(k, j) == k.at \in Setting /\ j.at \in Setting /\ k.key = j.key => k.key \in met

VariablesInv ==
    /\ VariablesTyped
    /\ \A q \in VariableRequests : SetKnows(variableReq[q]) /\ GetKnows(q, variableReq[q])
    /\ \A q, r \in VariableRequests : q # r => MetAt(variableReq[q], variableReq[r])
    /\ V!CredentialsMarked
    /\ V!AnswersStand

-----------------------------------------------------------------------------
\* What a write does to the requests that it is not of: none has looked at the key, or it met
\* them; and who reads the name is told when a row of it goes.
RowsChange ==
    \A k \in V!Keys :
        variable'[k] # variable[k] =>
            \A q \in VariableRequests :
                variableReq[q].at \in Setting /\ variableReq[q].key = k /\ variableReq'[q] = variableReq[q] => k \in met'
ReadersTold ==
    \A q \in VariableRequests :
        variableReq'[q] = variableReq[q] =>
            /\ held'[q] => held[q]
            /\ ~ dropped'[q] =>
                  /\ ~ dropped[q]
                  /\ \A l \in V!Layers : LET k == <<l, variableReq[q].key[2]>> IN
                        variable[k].id # 0 => variable'[k].id # 0

LEMMA CallsKnow ==
    ASSUME VariablesInv, NEW q \in VariableRequests, NEW k \in Call, k = variableReq[q], variableReq'[q] = k,
           RowsChange, ReadersTold, met \subseteq met'
    PROVE  SetKnows(k)' /\ GetKnows(q, k)'
<1>1. SetKnows(k) /\ GetKnows(q, k)
  BY DEF VariablesInv
<1>2. k.key \in V!Keys /\ k.left \in Seq(V!Layers)
  BY DEF Call
<1>3. SetKnows(k)'
  <2>1. CASE variable'[k.key] = variable[k.key]
    BY <1>1, <2>1 DEF SetKnows
  <2>2. CASE variable'[k.key] # variable[k.key]
    BY <1>1, <1>2, <2>2 DEF SetKnows, RowsChange, Setting
  <2> QED
    BY <2>1, <2>2
<1>4. GetKnows(q, k)'
  <2>1. ASSUME ~ dropped'[q], StillThere(k) PROVE StillThere(k)'
    <3>1. PICK i \in 1..Len(k.left) : V!Answers(variable, k.left[i], k.key[2])
      BY <2>1 DEF StillThere
    <3>2. k.left[i] \in V!Layers
      BY <1>2
    <3>3. V!Answers(variable', k.left[i], k.key[2])
      BY <2>1, <3>1, <3>2 DEF V!Answers, ReadersTold
    <3> QED
      BY <3>3 DEF StillThere, V!Answers
  <2>2. (held'[q] => held[q]) /\ (~ dropped'[q] => ~ dropped[q])
    BY DEF ReadersTold
  <2> QED
    BY <1>1, <2>1, <2>2 DEF GetKnows
<1> QED
  BY <1>3, <1>4

\* A step of one request, which may write.
LEMMA CallKeeps ==
    ASSUME VariablesInv, NEW q \in VariableRequests, NEW k \in Call,
           variableReq' = [variableReq EXCEPT ![q] = k], VariablesTyped',
           RowsChange, ReadersTold, met \subseteq met', V!CredentialsMarked', V!AnswersStand',
           SetKnows(k)', GetKnows(q, k)',
           \A r \in VariableRequests \ {q} : MetAt(k, variableReq[r])'
    PROVE  VariablesInv'
<1>1. variableReq \in [VariableRequests -> Call]
  BY DEF VariablesInv, VariablesTyped
<1>2. variableReq'[q] = k /\ \A r \in VariableRequests \ {q} : variableReq'[r] = variableReq[r]
  BY <1>1
<1>3. ASSUME NEW r \in VariableRequests
      PROVE  SetKnows(variableReq[r])' /\ GetKnows(r, variableReq[r])'
  <2>1. CASE r = q
    <3>1. variableReq'[r] = k
      BY <1>2, <2>1
    <3> QED
      BY <2>1, <3>1 DEF SetKnows, GetKnows, StillThere
  <2>2. CASE r # q
    <3>1. PICK c \in Call : c = variableReq[r]
      BY <1>1
    <3>2. variableReq'[r] = c
      BY <1>2, <2>2, <3>1
    <3>3. SetKnows(c)' /\ GetKnows(r, c)'
      BY <3>1, <3>2, CallsKnow
    <3> QED
      BY <3>2, <3>3 DEF SetKnows, GetKnows, StillThere
  <2> QED
    BY <2>1, <2>2
<1>4. ASSUME NEW r \in VariableRequests, NEW s \in VariableRequests, r # s
      PROVE  MetAt(variableReq[r], variableReq[s])'
  <2>1. CASE r = q
    BY <1>2, <1>4, <2>1 DEF MetAt
  <2>2. CASE s = q
    <3>1. MetAt(k, variableReq[r])'
      BY <1>4, <2>2
    <3> QED
      BY <1>2, <2>2, <3>1 DEF MetAt
  <2>3. CASE r # q /\ s # q
    <3>1. MetAt(variableReq[r], variableReq[s])
      BY <1>4 DEF VariablesInv
    <3> QED
      BY <1>2, <2>3, <3>1 DEF MetAt
  <2> QED
    BY <2>1, <2>2, <2>3
<1> QED
  BY <1>3, <1>4 DEF VariablesInv

\* A step of none.
LEMMA RowsKeep ==
    ASSUME VariablesInv, UNCHANGED variableReq, VariablesTyped',
           RowsChange, ReadersTold, met \subseteq met', V!CredentialsMarked', V!AnswersStand'
    PROVE  VariablesInv'
<1>1. ASSUME NEW r \in VariableRequests
      PROVE  SetKnows(variableReq[r])' /\ GetKnows(r, variableReq[r])'
  <2>1. PICK c \in Call : c = variableReq[r]
    BY DEF VariablesInv, VariablesTyped
  <2>2. variableReq'[r] = c
    BY <2>1
  <2>3. SetKnows(c)' /\ GetKnows(r, c)'
    BY <2>1, <2>2, CallsKnow
  <2> QED
    BY <2>2, <2>3 DEF SetKnows, GetKnows, StillThere
<1>2. \A q, r \in VariableRequests : q # r => MetAt(variableReq[q], variableReq[r])'
  BY DEF VariablesInv, MetAt
<1> QED
  BY <1>1, <1>2 DEF VariablesInv

\* Nothing is written: no reader is told, and nobody's row changes.
LEMMA Unwritten ==
    ASSUME VariablesInv, UNCHANGED <<variable, acked, met>>, UNCHANGED <<held, dropped>>
    PROVE  RowsChange /\ ReadersTold /\ met \subseteq met' /\ V!CredentialsMarked' /\ V!AnswersStand'
BY DEF VariablesInv, RowsChange, ReadersTold, V!CredentialsMarked, V!AnswersStand

\* A row is written, of which every set under way at its key is told.
LEMMA WrittenRow ==
    ASSUME VariablesInv, VariableBounds, NEW k \in V!Keys, NEW new \in VariableRow,
           V!Wrote([variable EXCEPT ![k] = new]), met \subseteq met',
           \A q \in VariableRequests :
               variableReq[q].at \in Setting /\ variableReq[q].key = k /\ variableReq'[q] = variableReq[q] => k \in met',
           k[2] \in CredentialNames /\ new.id # 0 => new.secret,
           acked' = [acked EXCEPT ![k] = new]
    PROVE  /\ RowsChange /\ ReadersTold /\ V!CredentialsMarked' /\ V!AnswersStand'
           /\ variable' = [variable EXCEPT ![k] = new]
           /\ variable' \in [V!Keys -> VariableRow] /\ acked' \in [V!Keys -> VariableRow]
           /\ held' \in [VariableRequests -> BOOLEAN] /\ dropped' \in [VariableRequests -> BOOLEAN]
<1>1. /\ variable \in [V!Keys -> VariableRow] /\ acked \in [V!Keys -> VariableRow]
      /\ variableReq \in [VariableRequests -> Call]
      /\ held \in [VariableRequests -> BOOLEAN] /\ dropped \in [VariableRequests -> BOOLEAN]
  BY DEF VariablesInv, VariablesTyped
<1>2. variable' = [variable EXCEPT ![k] = new]
  BY DEF V!Wrote
<1>3. /\ variable' \in [V!Keys -> VariableRow] /\ acked' \in [V!Keys -> VariableRow]
      /\ \A j \in V!Keys : variable'[j] = IF j = k THEN new ELSE variable[j]
      /\ \A j \in V!Keys : acked'[j] = IF j = k THEN new ELSE acked[j]
  BY <1>1, <1>2
<1>4. /\ held' \in [VariableRequests -> BOOLEAN] /\ dropped' \in [VariableRequests -> BOOLEAN]
      /\ \A q \in VariableRequests :
            /\ held'[q] => held[q]
            /\ dropped'[q] = (dropped[q] \/ \E l \in V!Layers : /\ variable[<<l, variableReq[q].key[2]>>].id # 0
                                                               /\ variable'[<<l, variableReq[q].key[2]>>].id = 0)
  <2>1. PICK now : now = variable'
    OBVIOUS
  <2>2. V!Wrote(now)
    BY <1>2, <2>1
  <2>3. \A q \in VariableRequests : (\E i \in 1..Len(V!Chain(variableReq[q].key[1], variableReq[q].inherit)) :
          V!Answers(now, V!Chain(variableReq[q].key[1], variableReq[q].inherit)[i], variableReq[q].key[2])) \in BOOLEAN
    OBVIOUS
  <2>4. held' \in [VariableRequests -> BOOLEAN] /\ \A q \in VariableRequests : held'[q] => held[q]
    BY <1>1, <2>2, <2>3 DEF V!Wrote
  <2>5. dropped' \in [VariableRequests -> BOOLEAN]
    BY <1>1, <2>2 DEF V!Wrote
  <2>6. \A q \in VariableRequests :
          dropped'[q] = (dropped[q] \/ \E l \in V!Layers : /\ variable[<<l, variableReq[q].key[2]>>].id # 0
                                                          /\ variable'[<<l, variableReq[q].key[2]>>].id = 0)
    BY <1>1, <2>1, <2>2 DEF V!Wrote
  <2> QED
    BY <2>4, <2>5, <2>6
<1>5. RowsChange
  BY <1>3 DEF RowsChange
<1>6. ReadersTold
  BY <1>1, <1>4 DEF ReadersTold
<1>7. V!CredentialsMarked'
  BY <1>3 DEF VariablesInv, V!CredentialsMarked
<1>8. V!AnswersStand'
  BY <1>3 DEF VariablesInv, V!AnswersStand
<1> QED
  BY <1>2, <1>3, <1>4, <1>5, <1>6, <1>7, <1>8

-----------------------------------------------------------------------------
LEMMA CallAt ==
    ASSUME VariablesInv, NEW q \in VariableRequests
    PROVE  variableReq[q] \in Call /\ SetKnows(variableReq[q]) /\ GetKnows(q, variableReq[q])
BY DEF VariablesInv, VariablesTyped

\* A call that is over knows nothing.
LEMMA IdleCall ==
    ASSUME VariableBounds, NEW q
    PROVE  /\ V!Idle \in Call /\ V!Idle.at = "idle"
           /\ SetKnows(V!Idle)' /\ GetKnows(q, V!Idle)'
           /\ \A j : MetAt(V!Idle, j)'
<1>1. (CHOOSE n \in VariableNames : TRUE) \in VariableNames
  BY DEF VariableBounds
<1>2. V!Idle \in Call /\ V!Idle.at = "idle"
  BY <1>1 DEF V!Idle, Call, V!Keys, V!Layers
<1> QED
  BY <1>2 DEF SetKnows, GetKnows, MetAt, Setting

\* A step of one call that writes nothing.
LEMMA CallMoves ==
    ASSUME VariablesInv, NEW q \in VariableRequests, NEW k \in Call,
           variableReq' = [variableReq EXCEPT ![q] = k], variableCame' \in Nat,
           UNCHANGED <<variable, acked, met>>, UNCHANGED <<held, dropped>>,
           SetKnows(k)', GetKnows(q, k)',
           \A r \in VariableRequests \ {q} : MetAt(k, variableReq[r])'
    PROVE  VariablesInv'
<1>1. VariablesTyped'
  BY DEF VariablesInv, VariablesTyped
<1> QED
  BY <1>1, Unwritten, CallKeeps

LEMMA StartSetKeeps ==
    ASSUME VariableBounds, VariablesInv, NEW q \in VariableRequests, V!StartSet(q)
    PROVE  VariablesInv'
<1>1. PICK key \in WriteKeys, secret \in BOOLEAN :
        /\ key[2] \in CredentialNames => secret
        /\ V!Set(q, [V!Idle EXCEPT !.at = "look", !.key = key, !.value = variableCame + 1, !.secret = secret])
        /\ met' = IF V!Busy(key) THEN met \cup {key} ELSE met
  BY DEF V!StartSet
<1>2. /\ variableCame \in Nat /\ variableCame' \in Nat /\ met \subseteq met'
      /\ UNCHANGED <<variable, acked>> /\ UNCHANGED <<held, dropped>>
  BY <1>1 DEF V!StartSet, V!Come, V!Unread, VariablesInv, VariablesTyped
<1>3. PICK value \in Nat : value = variableCame + 1
  BY <1>2
<1> DEFINE k == [V!Idle EXCEPT !.at = "look", !.key = key, !.value = value, !.secret = secret]
<1>4. k \in Call /\ k.at = "look" /\ k.key = key /\ k.secret = secret
  BY IdleCall DEF VariableBounds, Call, Setting
<1>5. variableReq' = [variableReq EXCEPT ![q] = k]
  BY <1>1, <1>3 DEF V!Set
<1> HIDE DEF k
<1>6. VariablesTyped'
  BY <1>2, <1>4, <1>5 DEF VariablesInv, VariablesTyped
<1>7. RowsChange /\ ReadersTold /\ V!CredentialsMarked' /\ V!AnswersStand'
  BY <1>2 DEF VariablesInv, RowsChange, ReadersTold, V!CredentialsMarked, V!AnswersStand
<1>8. SetKnows(k)' /\ GetKnows(q, k)'
  BY <1>1, <1>4 DEF SetKnows, GetKnows
<1>9. ASSUME NEW r \in VariableRequests \ {q} PROVE MetAt(k, variableReq[r])'
  <2>1. variableReq'[r] = variableReq[r]
    BY <1>5 DEF VariablesInv, VariablesTyped
  <2>2. variableReq[r].at \in Setting /\ variableReq[r].key = key => V!Busy(key)
    BY DEF Setting, V!Busy
  <2> QED
    BY <1>1, <1>4, <2>1, <2>2 DEF MetAt
<1> QED
  BY <1>2, <1>4, <1>5, <1>6, <1>7, <1>8, <1>9, CallKeeps

LEMMA LookKeeps ==
    ASSUME VariablesInv, NEW q \in VariableRequests, V!Look(q)
    PROVE  VariablesInv'
<1>1. PICK c \in Call : c = variableReq[q] /\ SetKnows(c)
  BY CallAt
<1>2. /\ c.at = "look" /\ variableCame' \in Nat
      /\ UNCHANGED <<variable, acked, met>> /\ UNCHANGED <<held, dropped>>
  BY <1>1 DEF V!Look, V!Unread, VariablesInv, VariablesTyped
<1>3. PICK saw \in Nat : saw = variable[c.key].id
  BY DEF Call, VariablesInv, VariablesTyped, VariableRow
<1> DEFINE k == [c EXCEPT !.at = "write", !.saw = saw]
<1>4. k \in Call /\ k.at = "write" /\ k.key = c.key /\ k.secret = c.secret /\ k.saw = saw
  BY DEF Call, Setting
<1>5. variableReq' = [variableReq EXCEPT ![q] = k]
  BY <1>1, <1>3 DEF V!Look, V!Set
<1> HIDE DEF k
<1>6. SetKnows(k)' /\ GetKnows(q, k)'
  BY <1>1, <1>2, <1>3, <1>4 DEF SetKnows, GetKnows, Setting
<1>7. ASSUME NEW r \in VariableRequests \ {q} PROVE MetAt(k, variableReq[r])'
  <2>1. variableReq'[r] = variableReq[r]
    BY <1>5 DEF VariablesInv, VariablesTyped
  <2>2. MetAt(c, variableReq[r])
    BY <1>1 DEF VariablesInv
  <2> QED
    BY <1>2, <1>4, <2>1, <2>2 DEF MetAt, Setting
<1> QED
  BY <1>2, <1>4, <1>5, <1>6, <1>7, CallMoves

LEMMA WriteKeeps ==
    ASSUME VariableBounds, VariablesInv, NEW q \in VariableRequests, V!Write(q)
    PROVE  VariablesInv'
<1>1. PICK c \in Call : c = variableReq[q] /\ SetKnows(c)
  BY CallAt
<1>2. PICK key \in V!Keys : key = c.key
  BY DEF Call
<1>3. /\ c.at = "write" /\ variableReq' = [variableReq EXCEPT ![q] = V!Idle]
      /\ UNCHANGED <<met, variableCame>> /\ variableCame' \in Nat
  BY <1>1 DEF V!Write, V!Set, VariablesInv, VariablesTyped
<1>4. \A r \in VariableRequests :
        variableReq[r].at \in Setting /\ variableReq[r].key = key /\ variableReq'[r] = variableReq[r] => key \in met'
  <2> SUFFICES ASSUME NEW r \in VariableRequests, variableReq[r].at \in Setting, variableReq[r].key = key,
                      variableReq'[r] = variableReq[r]
               PROVE  key \in met'
    OBVIOUS
  <2>1. variableReq'[q].at = "idle"
    BY <1>3, IdleCall DEF VariablesInv, VariablesTyped
  <2>2. r # q
    BY <1>1, <1>3, <2>1
  <2>3. MetAt(variableReq[r], variableReq[q])
    BY <2>2 DEF VariablesInv
  <2> QED
    BY <1>1, <1>2, <1>3, <2>3 DEF MetAt, Setting
<1>5. ASSUME NEW new \in VariableRow, V!Wrote([variable EXCEPT ![key] = new]), new.secret = c.secret,
             acked' = [acked EXCEPT ![key] = new]
      PROVE  VariablesInv'
  <2>1. key[2] \in CredentialNames => new.secret
    BY <1>1, <1>2, <1>3, <1>5 DEF SetKnows, Setting
  <2>2. /\ RowsChange /\ ReadersTold /\ V!CredentialsMarked' /\ V!AnswersStand'
        /\ variable' \in [V!Keys -> VariableRow] /\ acked' \in [V!Keys -> VariableRow]
        /\ held' \in [VariableRequests -> BOOLEAN] /\ dropped' \in [VariableRequests -> BOOLEAN]
    BY <1>3, <1>4, <1>5, <2>1, WrittenRow
  <2>3. VariablesTyped'
    BY <1>3, <2>2, IdleCall DEF VariablesInv, VariablesTyped
  <2> QED
    BY <1>3, <2>2, <2>3, IdleCall, CallKeeps
<1>6. ASSUME UNCHANGED variable, UNCHANGED <<held, dropped>>,
             acked' = acked \/ (key \in met /\ \E a \in VariableRow : acked' = [acked EXCEPT ![key] = a])
      PROVE  VariablesInv'
  <2>1. RowsChange /\ ReadersTold /\ V!CredentialsMarked'
    BY <1>6 DEF VariablesInv, RowsChange, ReadersTold, V!CredentialsMarked
  <2>2. V!AnswersStand' /\ acked' \in [V!Keys -> VariableRow]
    BY <1>3, <1>6 DEF VariablesInv, VariablesTyped, V!AnswersStand
  <2>3. VariablesTyped'
    BY <1>3, <1>6, <2>2, IdleCall DEF VariablesInv, VariablesTyped
  <2> QED
    BY <1>3, <2>1, <2>2, <2>3, IdleCall, CallKeeps
<1> DEFINE Asked(id) == [id |-> id, value |-> c.value, secret |-> c.secret]
<1>7. \A id \in Nat : Asked(id) \in VariableRow /\ Asked(id).secret = c.secret
  BY DEF Call, VariableRow
<1>8. c.saw \in Nat /\ c.value + 1 \in Nat
  BY DEF Call
<1>9. CASE c.saw # 0 /\ variable[key].id = c.saw
  <2>1. V!Wrote([variable EXCEPT ![key] = Asked(c.saw)]) /\ acked' = [acked EXCEPT ![key] = Asked(c.saw)]
    BY <1>1, <1>2, <1>9 DEF V!Write, V!Updated
  <2> QED
    BY <1>5, <1>7, <1>8, <2>1
<1>10. CASE c.saw # 0 /\ variable[key].id # c.saw
  <2>1. /\ UNCHANGED variable /\ UNCHANGED <<held, dropped>>
        /\ acked' = [acked EXCEPT ![key] = Asked(c.saw)]
    BY <1>1, <1>2, <1>10 DEF V!Write, V!Unread
  <2>2. key \in met
    BY <1>1, <1>2, <1>3, <1>10 DEF SetKnows
  <2> QED
    BY <1>6, <1>7, <1>8, <2>1, <2>2
<1>11. CASE c.saw = 0 /\ variable[key].id # 0
  BY <1>1, <1>2, <1>6, <1>11 DEF V!Write, V!Unread
<1>12. CASE c.saw = 0 /\ variable[key].id = 0
  <2>1. /\ V!Wrote([variable EXCEPT ![key] = Asked(c.value + 1)])
        /\ acked' = [acked EXCEPT ![key] = Asked(c.value + 1)]
    BY <1>1, <1>2, <1>12 DEF V!Write
  <2> QED
    BY <1>5, <1>7, <1>8, <2>1
<1> QED
  BY <1>9, <1>10, <1>11, <1>12

\* What is written at a key by no call marks whom it met.
LEMMA RowWritten ==
    ASSUME VariableBounds, VariablesInv, NEW k \in V!Keys, NEW new \in VariableRow,
           V!Wrote([variable EXCEPT ![k] = new]), acked' = [acked EXCEPT ![k] = new],
           k[2] \in CredentialNames /\ new.id # 0 => new.secret,
           met' = IF V!Busy(k) THEN met \cup {k} ELSE met,
           UNCHANGED variableReq, variableCame' \in Nat
    PROVE  VariablesInv'
<1>1. \A r \in VariableRequests :
        variableReq[r].at \in Setting /\ variableReq[r].key = k /\ variableReq'[r] = variableReq[r] => k \in met'
  BY DEF V!Busy, Setting
<1>2. /\ RowsChange /\ ReadersTold /\ V!CredentialsMarked' /\ V!AnswersStand'
      /\ variable' \in [V!Keys -> VariableRow] /\ acked' \in [V!Keys -> VariableRow]
      /\ held' \in [VariableRequests -> BOOLEAN] /\ dropped' \in [VariableRequests -> BOOLEAN]
  BY <1>1, WrittenRow
<1>3. VariablesTyped'
  BY <1>2 DEF VariablesInv, VariablesTyped
<1> QED
  BY <1>2, <1>3, RowsKeep

LEMMA SeedKeeps ==
    ASSUME VariableBounds, VariablesInv, V!Seed
    PROVE  VariablesInv'
<1>1. PICK n \in VariableNames \ (ComputedNames \cup CredentialNames) :
        LET k == <<"system", n>>
            new == [id |-> variableCame + 2, value |-> 0, secret |-> FALSE]
        IN  /\ IF V!Seeds(k) THEN V!Wrote([variable EXCEPT ![k] = new]) ELSE UNCHANGED variable /\ V!Unread
            /\ IF variable[k].id = 0 THEN acked' = [acked EXCEPT ![k] = new] ELSE UNCHANGED acked
            /\ met' = IF V!Busy(k) THEN met \cup {k} ELSE met
  BY DEF V!Seed
<1>2. PICK k \in V!Keys : k = <<"system", n>>
  BY DEF V!Keys, V!Layers
<1>3. variableCame \in Nat /\ variableCame' \in Nat /\ UNCHANGED variableReq
  BY DEF V!Seed, V!Come, VariablesInv, VariablesTyped
<1>4. PICK new \in VariableRow : new = [id |-> variableCame + 2, value |-> 0, secret |-> FALSE]
  <2>1. [id |-> variableCame + 2, value |-> 0, secret |-> FALSE] \in VariableRow
    BY <1>3 DEF VariableRow
  <2> QED
    BY <2>1
<1>5. CASE variable[k].id = 0
  BY <1>1, <1>2, <1>3, <1>4, <1>5, RowWritten DEF V!Seeds
<1>6. CASE variable[k].id # 0
  <2>1. /\ UNCHANGED <<variable, acked>> /\ UNCHANGED <<held, dropped>> /\ met \subseteq met'
    BY <1>1, <1>2, <1>6 DEF V!Seeds, V!Unread
  <2>2. VariablesTyped'
    BY <1>3, <2>1 DEF VariablesInv, VariablesTyped
  <2>3. RowsChange /\ ReadersTold /\ V!CredentialsMarked' /\ V!AnswersStand'
    BY <2>1 DEF VariablesInv, RowsChange, ReadersTold, V!CredentialsMarked, V!AnswersStand
  <2> QED
    BY <1>3, <2>1, <2>2, <2>3, RowsKeep
<1> QED
  BY <1>5, <1>6

LEMMA DeleteKeeps ==
    ASSUME VariableBounds, VariablesInv, V!Delete
    PROVE  VariablesInv'
<1>1. PICK k \in WriteKeys :
        /\ V!Wrote([variable EXCEPT ![k] = V!NoRow]) /\ acked' = [acked EXCEPT ![k] = V!NoRow]
        /\ met' = IF V!Busy(k) THEN met \cup {k} ELSE met
  BY DEF V!Delete
<1>2. k \in V!Keys /\ V!NoRow \in VariableRow /\ V!NoRow.id = 0
  BY DEF VariableBounds, V!NoRow, VariableRow
<1>3. variableCame' \in Nat /\ UNCHANGED variableReq
  BY DEF V!Delete, V!Come, VariablesInv, VariablesTyped
<1> QED
  BY <1>1, <1>2, <1>3, RowWritten

LEMMA ChainIs ==
    ASSUME NEW layer \in V!Layers, NEW inherit \in BOOLEAN
    PROVE  V!Chain(layer, inherit) \in Seq(V!Layers) /\ Len(V!Chain(layer, inherit)) <= 4
<1>1. <<layer>> \in Seq(V!Layers)
  OBVIOUS
<1>2. /\ <<"user">> \in Seq(V!Layers) /\ <<"user", "system">> \in Seq(V!Layers)
      /\ <<"user", "workspace", "system">> \in Seq(V!Layers)
      /\ <<"user", "project", "workspace", "system">> \in Seq(V!Layers)
  BY DEF V!Layers
<1>3. V!Chain(layer, inherit) \in
        {<<layer>>, <<"user">>, <<"user", "system">>, <<"user", "workspace", "system">>,
         <<"user", "project", "workspace", "system">>}
  BY Zenon DEF V!Chain, V!Layers
<1>4. /\ Len(<<layer>>) = 1 /\ Len(<<"user">>) = 1 /\ Len(<<"user", "system">>) = 2
      /\ Len(<<"user", "workspace", "system">>) = 3 /\ Len(<<"user", "project", "workspace", "system">>) = 4
  OBVIOUS
<1>5. \A n \in {1, 2, 3, 4} : n <= 4
  OBVIOUS
<1> QED
  BY <1>1, <1>2, <1>3, <1>4, <1>5, Zenon

LEMMA StartGetKeeps ==
    ASSUME VariableBounds, VariablesInv, NEW q \in VariableRequests, V!StartGet(q)
    PROVE  VariablesInv'
<1>1. PICK key \in ReadKeys, inherit \in BOOLEAN :
        LET chain == V!Chain(key[1], inherit)
        IN  /\ V!Set(q, [V!Idle EXCEPT !.at = "get", !.key = key, !.inherit = inherit, !.left = chain])
            /\ held' = [held EXCEPT ![q] = \E i \in 1..Len(chain) : V!Answers(variable, chain[i], key[2])]
            /\ dropped' = [dropped EXCEPT ![q] = FALSE]
  BY DEF V!StartGet
<1>2. key \in V!Keys /\ key[1] \in V!Layers
  BY DEF VariableBounds, V!Keys
<1>3. PICK chain \in Seq(V!Layers) : chain = V!Chain(key[1], inherit)
  BY <1>2, ChainIs
<1>4. variableCame' \in Nat /\ UNCHANGED <<variable, acked, met>>
  BY DEF V!StartGet, V!Come, VariablesInv, VariablesTyped
<1> DEFINE k == [V!Idle EXCEPT !.at = "get", !.key = key, !.inherit = inherit, !.left = chain]
<1>5. k \in Call /\ k.at = "get" /\ k.key = key /\ k.left = chain
  BY <1>2, IdleCall DEF Call, Getting
<1>6. variableReq' = [variableReq EXCEPT ![q] = k]
  BY <1>1, <1>3 DEF V!Set
<1> HIDE DEF k
<1>7. /\ held' = [held EXCEPT ![q] = StillThere(k)] /\ StillThere(k) \in BOOLEAN
      /\ dropped' = [dropped EXCEPT ![q] = FALSE]
  BY <1>1, <1>3, <1>5 DEF StillThere
<1>8. /\ held' \in [VariableRequests -> BOOLEAN] /\ dropped' \in [VariableRequests -> BOOLEAN]
      /\ held'[q] = StillThere(k)
      /\ \A r \in VariableRequests : r # q => held'[r] = held[r] /\ dropped'[r] = dropped[r]
  BY <1>7 DEF VariablesInv, VariablesTyped
<1>9. VariablesTyped'
  BY <1>4, <1>5, <1>6, <1>8 DEF VariablesInv, VariablesTyped
<1>10. RowsChange /\ V!CredentialsMarked' /\ V!AnswersStand' /\ met \subseteq met'
  BY <1>4 DEF VariablesInv, RowsChange, V!CredentialsMarked, V!AnswersStand
<1>11. ReadersTold
  <2>1. variableReq[q].at = "idle" /\ variableReq'[q] = k
    BY <1>6 DEF V!StartGet, VariablesInv, VariablesTyped
  <2> QED
    BY <1>4, <1>5, <1>8, <2>1 DEF ReadersTold
<1>12. SetKnows(k)' /\ \A r \in VariableRequests \ {q} : MetAt(k, variableReq[r])'
  BY <1>5 DEF SetKnows, MetAt, Setting
<1>13. GetKnows(q, k)'
  BY <1>4, <1>5, <1>8 DEF GetKnows, StillThere
<1> QED
  BY <1>5, <1>6, <1>9, <1>10, <1>11, <1>12, <1>13, CallKeeps

LEMMA GetNextKeeps ==
    ASSUME VariableBounds, VariablesInv, NEW q \in VariableRequests, V!GetNext(q)
    PROVE  VariablesInv'
<1>1. PICK c \in Call : c = variableReq[q] /\ GetKnows(q, c)
  BY CallAt
<1>2. /\ c.at = "get" /\ variableCame' \in Nat
      /\ UNCHANGED <<variable, acked, met>> /\ UNCHANGED <<held, dropped>>
  BY <1>1 DEF V!GetNext, V!Unread, VariablesInv, VariablesTyped
<1>3. ASSUME NEW k \in Call, variableReq' = [variableReq EXCEPT ![q] = k], k.at \in {"get", "missed"}, GetKnows(q, k)'
      PROVE  VariablesInv'
  <2>1. SetKnows(k)' /\ \A r \in VariableRequests \ {q} : MetAt(k, variableReq[r])'
    BY <1>3 DEF SetKnows, MetAt, Setting
  <2> QED
    BY <1>2, <1>3, <2>1, CallMoves
<1>4. CASE c.left = <<>>
  <2> DEFINE k == [c EXCEPT !.at = "missed"]
  <2>1. k \in Call /\ k.at = "missed"
    BY DEF Call, Getting
  <2>2. variableReq' = [variableReq EXCEPT ![q] = k]
    BY <1>1, <1>4 DEF V!GetNext, V!Set
  <2> HIDE DEF k
  <2>3. ~ StillThere(c)
    BY <1>4 DEF StillThere
  <2>4. GetKnows(q, k)'
    BY <1>1, <1>2, <2>1, <2>3 DEF GetKnows
  <2> QED
    BY <1>3, <2>1, <2>2, <2>4
<1>5. CASE c.left # <<>> /\ V!Set(q, V!Idle)
  BY <1>2, <1>5, IdleCall, CallMoves DEF V!Set
<1>6. CASE c.left # <<>> /\ ~ V!Answers(variable, Head(c.left), c.key[2])
  <2>1. PICK left \in Seq(V!Layers) : left = Tail(c.left)
    <3>1. c.left \in Seq(V!Layers)
      BY DEF Call
    <3>2. Tail(c.left) \in Seq(V!Layers)
      BY <1>6, <3>1
    <3> QED
      BY <3>2
  <2> DEFINE k == [c EXCEPT !.left = left]
  <2>2. k \in Call /\ k.at = "get" /\ k.key = c.key /\ k.left = left
    BY <1>2 DEF Call
  <2>3. variableReq' = [variableReq EXCEPT ![q] = k]
    BY <1>1, <1>6, <2>1 DEF V!GetNext, V!Set
  <2> HIDE DEF k
  <2>4. StillThere(c) => StillThere(k)
    <3> SUFFICES ASSUME NEW i \in 1..Len(c.left), V!Answers(variable, c.left[i], c.key[2])
                 PROVE  StillThere(k)
      BY DEF StillThere
    <3>1. c.left \in Seq(V!Layers)
      BY DEF Call
    <3>2. i # 1
      BY <1>6, <3>1
    <3>3. i - 1 \in 1..Len(left) /\ left[i - 1] = c.left[i]
      BY <1>6, <2>1, <3>1, <3>2
    <3> QED
      BY <2>2, <3>3 DEF StillThere
  <2>5. GetKnows(q, k)'
    <3>1. StillThere(k) => StillThere(k)'
      BY <1>2 DEF StillThere, V!Answers
    <3> QED
      BY <1>1, <1>2, <2>2, <2>4, <3>1 DEF GetKnows
  <2> QED
    BY <1>3, <2>2, <2>3, <2>5
<1> QED
  BY <1>1, <1>4, <1>5, <1>6 DEF V!GetNext

LEMMA MissedKeeps ==
    ASSUME VariableBounds, VariablesInv, NEW q \in VariableRequests, V!Missed(q)
    PROVE  VariablesInv'
<1>1. /\ V!Set(q, V!Idle) /\ variableCame' \in Nat
      /\ UNCHANGED <<variable, acked, met>> /\ UNCHANGED <<held, dropped>>
  BY DEF V!Missed, V!Unread, VariablesInv, VariablesTyped
<1> QED
  BY <1>1, IdleCall, CallMoves DEF V!Set

\* The layer at which a chain answers for a name is the first that has it; what a chain shows of
\* the names of its first i layers.
FirstToAnswer(chain, j, n) ==
    V!Answers(variable, chain[j], n) /\ \A k \in 1..(j - 1) : ~ V!Answers(variable, chain[k], n)
Showing(chain, i) ==
    UNION {{V!Shown(variable, chain[j], n) : n \in {n \in VariableNames : FirstToAnswer(chain, j, n)}} : j \in 1..i}

LEMMA ShowingIs ==
    ASSUME NEW chain, NEW i, NEW e
    PROVE  e \in Showing(chain, i) <=>
             \E j \in 1..i : \E n \in VariableNames : FirstToAnswer(chain, j, n) /\ e = V!Shown(variable, chain[j], n)
<1> DEFINE shown(j) == {V!Shown(variable, chain[j], n) : n \in {n \in VariableNames : FirstToAnswer(chain, j, n)}}
<1>1. \A j : e \in shown(j) <=> \E n \in VariableNames : FirstToAnswer(chain, j, n) /\ e = V!Shown(variable, chain[j], n)
  OBVIOUS
<1>2. e \in Showing(chain, i) <=> \E j \in 1..i : e \in shown(j)
  BY DEF Showing
<1> HIDE DEF shown
<1> QED
  BY <1>1, <1>2

LEMMA LayerAdds ==
    ASSUME ComputedNames \subseteq VariableNames, NEW chain \in Seq(V!Layers), NEW i \in 1..Len(chain)
    PROVE  V!Adds(chain[i], Showing(chain, i - 1)) = Showing(chain, i)
<1> DEFINE layer == chain[i]
           stored == {n \in VariableNames : variable[<<layer, n>>].id # 0}
           computed == IF layer = "system" THEN ComputedNames ELSE {}
           new == {n \in VariableNames : FirstToAnswer(chain, i, n)}
<1>1. stored \cup computed = {n \in VariableNames : V!Answers(variable, layer, n)}
  BY DEF V!Answers
<1>2. ASSUME NEW n \in VariableNames
      PROVE  (\A e \in Showing(chain, i - 1) : e.name # n) <=> (\A k \in 1..(i - 1) : ~ V!Answers(variable, chain[k], n))
  <2>1. ASSUME NEW k \in 1..(i - 1), V!Answers(variable, chain[k], n)
        PROVE  \E e \in Showing(chain, i - 1) : e.name = n
    <3>1. PICK j \in 1..(i - 1) : FirstToAnswer(chain, j, n)
      <4> DEFINE earlier == {j \in 1..(i - 1) : V!Answers(variable, chain[j], n)}
      <4>1. earlier \subseteq Nat /\ earlier # {}
        BY <2>1
      <4>2. PICK j \in earlier : \A l \in earlier : j <= l
        BY <4>1, LeastExists
      <4> QED
        BY <4>2 DEF FirstToAnswer
    <3>2. V!Shown(variable, chain[j], n) \in Showing(chain, i - 1)
      BY <3>1, ShowingIs
    <3>3. V!Shown(variable, chain[j], n).name = n
      BY DEF V!Shown
    <3> QED
      BY <3>2, <3>3
  <2>2. ASSUME NEW e \in Showing(chain, i - 1), e.name = n
        PROVE  \E k \in 1..(i - 1) : V!Answers(variable, chain[k], n)
    <3>1. PICK j \in 1..(i - 1), m \in VariableNames : FirstToAnswer(chain, j, m) /\ e = V!Shown(variable, chain[j], m)
      BY ShowingIs
    <3> QED
      BY <2>2, <3>1 DEF FirstToAnswer, V!Shown
  <2> QED
    BY <2>1, <2>2
<1>3. {m \in stored \cup computed : \A e \in Showing(chain, i - 1) : e.name # m} = new
  BY <1>1, <1>2 DEF FirstToAnswer
<1>4. V!Adds(chain[i], Showing(chain, i - 1)) = Showing(chain, i - 1) \cup {V!Shown(variable, layer, n) : n \in new}
  BY <1>3, Zenon DEF V!Adds
<1>5. Showing(chain, i) = Showing(chain, i - 1) \cup {V!Shown(variable, layer, n) : n \in new}
  <2> HIDE DEF stored, computed
  <2>1. ASSUME NEW e \in Showing(chain, i) PROVE e \in Showing(chain, i - 1) \cup {V!Shown(variable, layer, n) : n \in new}
    <3>1. PICK j \in 1..i, n \in VariableNames : FirstToAnswer(chain, j, n) /\ e = V!Shown(variable, chain[j], n)
      BY ShowingIs
    <3>2. CASE j = i
      BY <3>1, <3>2
    <3>3. CASE j # i
      <4>1. j \in 1..(i - 1)
        BY <3>3
      <4> QED
        BY <3>1, <4>1, ShowingIs
    <3> QED
      BY <3>2, <3>3
  <2>2. ASSUME NEW e \in Showing(chain, i - 1) PROVE e \in Showing(chain, i)
    <3>1. PICK j \in 1..(i - 1), n \in VariableNames : FirstToAnswer(chain, j, n) /\ e = V!Shown(variable, chain[j], n)
      BY ShowingIs
    <3>2. j \in 1..i
      OBVIOUS
    <3> QED
      BY <3>1, <3>2, ShowingIs
  <2>3. ASSUME NEW n \in new PROVE V!Shown(variable, layer, n) \in Showing(chain, i)
    BY ShowingIs
  <2> QED
    BY <2>1, <2>2, <2>3
<1> QED
  BY <1>4, <1>5

\* Listing is a recursion over the at most four layers of a chain.
LEMMA ListShows ==
    ASSUME ComputedNames \subseteq VariableNames, NEW chain \in Seq(V!Layers), Len(chain) <= 4
    PROVE  LET after[i \in 0..Len(chain)] == IF i = 0 THEN {} ELSE V!Adds(chain[i], after[i - 1])
           IN  after[Len(chain)] = Showing(chain, Len(chain))
<1> DEFINE show == [i \in 0..Len(chain) |-> Showing(chain, i)]
           IsAfter(f) == f = [i \in 0..Len(chain) |-> IF i = 0 THEN {} ELSE V!Adds(chain[i], f[i - 1])]
           after == CHOOSE f : IsAfter(f)
<1>1. Showing(chain, 0) = {}
  BY ShowingIs
<1>2. IsAfter(show)
  <2>1. ASSUME NEW i \in 0..Len(chain), i # 0 PROVE show[i] = V!Adds(chain[i], show[i - 1])
    <3>1. i \in 1..Len(chain) /\ i - 1 \in 0..Len(chain)
      BY <2>1
    <3> QED
      BY <3>1, LayerAdds
  <2> QED
    BY <1>1, <2>1
<1>3. IsAfter(after)
  <2> HIDE DEF IsAfter, show
  <2> QED
    BY <1>2
<1> HIDE DEF after
<1>4. after[0] = {}
  <2>1. 0 \in 0..Len(chain)
    OBVIOUS
  <2> QED
    BY <1>3, <2>1
<1>5. \A i \in 1..Len(chain) : after[i] = V!Adds(chain[i], after[i - 1])
  <2>1. \A i \in 1..Len(chain) : i \in 0..Len(chain) /\ i # 0
    OBVIOUS
  <2> QED
    BY <1>3, <2>1
<1>6. \A i \in 1..Len(chain) : after[i - 1] = Showing(chain, i - 1) => after[i] = Showing(chain, i)
  BY <1>5, LayerAdds
<1>7. after[0] = Showing(chain, 0)
  BY <1>1, <1>4
<1>8. after[Len(chain)] = Showing(chain, Len(chain))
  <2>1. \A n \in Nat : n <= 4 => n \in {0, 1, 2, 3, 4}
    OBVIOUS
  <2>2. 1 \in 1..Len(chain) => after[1] = Showing(chain, 1)
    BY <1>6, <1>7
  <2>3. 2 \in 1..Len(chain) => after[2] = Showing(chain, 2)
    BY <1>6, <2>2
  <2>4. 3 \in 1..Len(chain) => after[3] = Showing(chain, 3)
    BY <1>6, <2>3
  <2>5. 4 \in 1..Len(chain) => after[4] = Showing(chain, 4)
    BY <1>6, <2>4
  <2> QED
    <3>1. Len(chain) \in {0, 1, 2, 3, 4}
      <4>1. Len(chain) \in Nat
        OBVIOUS
      <4> QED
        BY <2>1, <4>1
    <3> QED
      BY <1>7, <2>2, <2>3, <2>4, <2>5, <3>1
<1> QED
  BY <1>8 DEF after

\* A get answers with what the chain shows of the name.
LEMMA GetShows ==
    ASSUME NEW layer \in V!Layers, NEW inherit \in BOOLEAN, NEW chain, chain = V!Chain(layer, inherit)
    PROVE  UNION {V!Get(layer, inherit, n) : n \in VariableNames} = Showing(chain, Len(chain))
<1>0. chain \in Seq(V!Layers)
  BY ChainIs
<1>1. ASSUME NEW n \in VariableNames
      PROVE  V!Get(layer, inherit, n) =
               {V!Shown(variable, chain[j], n) : j \in {j \in 1..Len(chain) : FirstToAnswer(chain, j, n)}}
  <2> DEFINE answering == {i \in 1..Len(chain) : V!Answers(variable, chain[i], n)}
             firsts == {j \in 1..Len(chain) : FirstToAnswer(chain, j, n)}
             first == CHOOSE i \in answering : \A j \in answering : i <= j
  <2>1. CASE answering = {}
    <3>1. firsts = {} /\ V!Get(layer, inherit, n) = {}
      BY <2>1 DEF V!Get, FirstToAnswer
    <3> QED
      BY <3>1
  <2>2. CASE answering # {}
    <3>1. answering \subseteq Nat
      BY <1>0
    <3>2. \E i \in answering : \A j \in answering : i <= j
      BY <2>2, <3>1, LeastExists
    <3>3. first \in answering /\ \A j \in answering : first <= j
      BY <3>2
    <3> HIDE DEF first
    <3>4. firsts = {first}
      <4>1. first \in firsts
        BY <1>0, <3>3 DEF FirstToAnswer
      <4>2. ASSUME NEW j \in firsts PROVE j = first
        BY <1>0, <3>3 DEF FirstToAnswer
      <4> QED
        BY <4>1, <4>2
    <3>5. V!Get(layer, inherit, n) = {V!Shown(variable, chain[first], n)}
      BY <2>2 DEF V!Get, first
    <3>6. {V!Shown(variable, chain[j], n) : j \in firsts} = {V!Shown(variable, chain[first], n)}
      <4> HIDE DEF firsts
      <4> QED
        BY <3>4
    <3> QED
      BY <3>5, <3>6
  <2> QED
    BY <2>1, <2>2
<1>2. ASSUME NEW e \in UNION {V!Get(layer, inherit, n) : n \in VariableNames} PROVE e \in Showing(chain, Len(chain))
  <2>1. PICK n \in VariableNames : e \in V!Get(layer, inherit, n)
    OBVIOUS
  <2>2. PICK j \in 1..Len(chain) : FirstToAnswer(chain, j, n) /\ e = V!Shown(variable, chain[j], n)
    BY <1>1, <2>1
  <2> QED
    BY <2>2, ShowingIs
<1>3. ASSUME NEW e \in Showing(chain, Len(chain)) PROVE e \in UNION {V!Get(layer, inherit, n) : n \in VariableNames}
  <2>1. PICK j \in 1..Len(chain), n \in VariableNames :
          FirstToAnswer(chain, j, n) /\ e = V!Shown(variable, chain[j], n)
    BY ShowingIs
  <2>2. e \in V!Get(layer, inherit, n)
    BY <1>1, <2>1
  <2> QED
    BY <2>2
<1> QED
  BY <1>2, <1>3

LEMMA ListsAgree == ASSUME ComputedNames \subseteq VariableNames PROVE V!ListGetAgree
<1> SUFFICES ASSUME NEW layer \in V!Layers, NEW inherit \in BOOLEAN
             PROVE  V!List(layer, inherit) = UNION {V!Get(layer, inherit, n) : n \in VariableNames}
  BY DEF V!ListGetAgree
<1>1. PICK chain : chain = V!Chain(layer, inherit)
  OBVIOUS
<1>2. chain \in Seq(V!Layers) /\ Len(chain) <= 4
  BY <1>1, ChainIs
<1>3. V!List(layer, inherit) = Showing(chain, Len(chain))
  BY <1>1, <1>2, ListShows DEF V!List
<1> QED
  BY <1>1, <1>3, GetShows

\* The ids and the values that requests and seeds give are counted by the requests.
VariablesCounted ==
    /\ \A k \in V!Keys : variable[k].id \in 0..(VariableCalls + 1)
    /\ \A q \in VariableRequests :
          variableReq[q].saw \in 0..(VariableCalls + 1) /\ variableReq[q].value \in 0..VariableCalls
    /\ variableCame \in 0..VariableCalls

LEMMA CountsMove ==
    ASSUME VariableBounds, VariablesInv, VariablesCounted,
           variable' = variable \/ \E k \in V!Keys, r \in VariableRow :
              variable' = [variable EXCEPT ![k] = r] /\ r.id \in 0..(VariableCalls + 1),
           variableReq' = variableReq \/ \E q \in VariableRequests, z \in Call :
              /\ variableReq' = [variableReq EXCEPT ![q] = z]
              /\ z.saw \in 0..(VariableCalls + 1) /\ z.value \in 0..VariableCalls,
           variableCame' \in 0..VariableCalls
    PROVE  VariablesCounted'
<1>1. \A k \in V!Keys : variable'[k].id \in 0..(VariableCalls + 1)
  BY DEF VariablesInv, VariablesTyped, VariablesCounted
<1>2. \A q \in VariableRequests :
        variableReq'[q].saw \in 0..(VariableCalls + 1) /\ variableReq'[q].value \in 0..VariableCalls
  BY DEF VariablesInv, VariablesTyped, VariablesCounted
<1> QED
  BY <1>1, <1>2 DEF VariablesCounted

LEMMA VariablesCount ==
    ASSUME VariableBounds, VariablesInv, VariablesCounted, [V!Next]_(V!variablesVars)
    PROVE  VariablesCounted'
<1>1. /\ variableCame \in 0..VariableCalls /\ VariableCalls \in Nat
      /\ V!NoRow \in VariableRow /\ V!NoRow.id = 0
  BY DEF VariableBounds, VariablesCounted, V!NoRow, VariableRow
<1>2. ASSUME V!Come PROVE variableCame' = variableCame + 1 /\ variableCame' \in 0..VariableCalls
  BY <1>1, <1>2 DEF V!Come
<1>3. /\ V!Idle \in Call /\ V!Idle.saw \in 0..(VariableCalls + 1) /\ V!Idle.value \in 0..VariableCalls
  BY <1>1, IdleCall DEF V!Idle
<1>4. CASE UNCHANGED V!variablesVars
  BY <1>1, <1>4, CountsMove DEF V!variablesVars
<1>5. CASE V!Seed
  <2>1. PICK n \in VariableNames :
          \/ variable' = variable
          \/ variable' = [variable EXCEPT ![<<"system", n>>] = [id |-> variableCame + 2, value |-> 0, secret |-> FALSE]]
    BY <1>5 DEF V!Seed, V!Wrote
  <2>2. <<"system", n>> \in V!Keys
    BY DEF V!Keys, V!Layers
  <2>3. /\ V!Come /\ UNCHANGED variableReq
    BY <1>5 DEF V!Seed
  <2>4. PICK r \in VariableRow : r = [id |-> variableCame + 2, value |-> 0, secret |-> FALSE] /\ r.id = variableCame + 2
    <3>1. variableCame + 2 \in Nat
      BY <1>1
    <3>2. [id |-> variableCame + 2, value |-> 0, secret |-> FALSE] \in VariableRow
      BY <3>1 DEF VariableRow
    <3> QED
      BY <3>2
  <2>5. r.id \in 0..(VariableCalls + 1)
    BY <1>1, <1>2, <2>3, <2>4
  <2> QED
    BY <1>2, <2>1, <2>2, <2>3, <2>4, <2>5, CountsMove
<1>6. CASE V!Delete
  <2>1. PICK k \in WriteKeys : variable' = [variable EXCEPT ![k] = V!NoRow]
    BY <1>6 DEF V!Delete, V!Wrote
  <2>2. k \in V!Keys
    BY DEF VariableBounds
  <2>3. V!Come /\ UNCHANGED variableReq
    BY <1>6 DEF V!Delete
  <2>4. V!NoRow.id \in 0..(VariableCalls + 1)
    BY <1>1
  <2> QED
    BY <1>1, <1>2, <2>1, <2>2, <2>3, <2>4, CountsMove
<1>7. ASSUME NEW q \in VariableRequests, V!StartSet(q) PROVE VariablesCounted'
  <2>1. PICK k \in WriteKeys, secret \in BOOLEAN :
          V!Set(q, [V!Idle EXCEPT !.at = "look", !.key = k, !.value = variableCame + 1, !.secret = secret])
    BY <1>7 DEF V!StartSet
  <2>2. V!Come /\ UNCHANGED variable
    BY <1>7 DEF V!StartSet
  <2>3. k \in V!Keys
    BY DEF VariableBounds
  <2>4. PICK new \in 0..VariableCalls : new = variableCame + 1 /\ new \in Nat
    BY <1>1, <1>2, <2>2
  <2> DEFINE z == [V!Idle EXCEPT !.at = "look", !.key = k, !.value = new, !.secret = secret]
  <2>5. z \in Call /\ z.saw = V!Idle.saw /\ z.value = new
    BY <1>3, <2>3, <2>4 DEF Call, Setting, Getting
  <2>6. variableReq' = [variableReq EXCEPT ![q] = z]
    BY <2>1, <2>4 DEF V!Set
  <2> HIDE DEF z
  <2> QED
    BY <1>2, <1>3, <2>2, <2>5, <2>6, CountsMove
<1>8. ASSUME NEW q \in VariableRequests, V!StartGet(q) PROVE VariablesCounted'
  <2>1. PICK k \in ReadKeys, inherit \in BOOLEAN :
          V!Set(q, [V!Idle EXCEPT !.at = "get", !.key = k, !.inherit = inherit, !.left = V!Chain(k[1], inherit)])
    BY <1>8 DEF V!StartGet
  <2>2. V!Come /\ UNCHANGED variable
    BY <1>8 DEF V!StartGet
  <2>3. k \in V!Keys /\ k[1] \in V!Layers
    BY DEF VariableBounds, V!Keys
  <2>4. PICK left \in Seq(V!Layers) : left = V!Chain(k[1], inherit)
    BY <2>3, ChainIs
  <2> DEFINE z == [V!Idle EXCEPT !.at = "get", !.key = k, !.inherit = inherit, !.left = left]
  <2>5. z \in Call /\ z.saw = V!Idle.saw /\ z.value = V!Idle.value
    BY <1>3, <2>3 DEF Call, Setting, Getting
  <2>6. variableReq' = [variableReq EXCEPT ![q] = z]
    BY <2>1, <2>4 DEF V!Set
  <2> HIDE DEF z
  <2> QED
    BY <1>2, <1>3, <2>2, <2>5, <2>6, CountsMove
<1>9. ASSUME NEW q \in VariableRequests, V!Look(q) PROVE VariablesCounted'
  <2>1. PICK c \in Call : c = variableReq[q]
    BY DEF VariablesInv, VariablesTyped
  <2>2. variable[c.key].id \in 0..(VariableCalls + 1) /\ variable[c.key].id \in Nat
    BY <1>1 DEF VariablesCounted, Call
  <2> DEFINE z == [c EXCEPT !.at = "write", !.saw = variable[c.key].id]
  <2>3. z \in Call /\ z.saw = variable[c.key].id /\ z.value = c.value
    BY <2>2 DEF Call, Setting, Getting
  <2>4. variableReq' = [variableReq EXCEPT ![q] = z] /\ UNCHANGED <<variable, variableCame>>
    BY <1>9, <2>1 DEF V!Look, V!Set
  <2>5. c.value \in 0..VariableCalls
    BY <2>1 DEF VariablesCounted
  <2> HIDE DEF z
  <2> QED
    BY <1>1, <2>2, <2>3, <2>4, <2>5, CountsMove
<1>10. ASSUME NEW q \in VariableRequests, V!Write(q) PROVE VariablesCounted'
  <2>1. PICK c \in Call : c = variableReq[q]
    BY DEF VariablesInv, VariablesTyped
  <2>2. c.saw \in 0..(VariableCalls + 1) /\ c.value \in 0..VariableCalls /\ c.key \in V!Keys
    BY <2>1 DEF VariablesCounted, Call
  <2> DEFINE wanted(id) == [id |-> id, value |-> c.value, secret |-> c.secret]
  <2>3. \A id \in 0..(VariableCalls + 1) : wanted(id) \in VariableRow /\ wanted(id).id = id
    BY <1>1, <2>2 DEF Call, VariableRow
  <2>4. c.value + 1 \in 0..(VariableCalls + 1)
    BY <1>1, <2>2
  <2>5. \/ variable' = variable
        \/ variable' = [variable EXCEPT ![c.key] = wanted(c.saw)]
        \/ variable' = [variable EXCEPT ![c.key] = wanted(c.value + 1)]
    BY <1>10, <2>1 DEF V!Write, V!Wrote, V!Updated
  <2>6. variableReq' = [variableReq EXCEPT ![q] = V!Idle] /\ UNCHANGED variableCame
    BY <1>10 DEF V!Write, V!Set
  <2> HIDE DEF wanted
  <2>7. variable' = variable \/ \E r \in VariableRow :
          variable' = [variable EXCEPT ![c.key] = r] /\ r.id \in 0..(VariableCalls + 1)
    BY <2>2, <2>3, <2>4, <2>5
  <2> QED
    BY <1>1, <1>3, <2>2, <2>6, <2>7, CountsMove
<1>11. ASSUME NEW q \in VariableRequests, V!GetNext(q) PROVE VariablesCounted'
  <2>1. PICK c \in Call : c = variableReq[q]
    BY DEF VariablesInv, VariablesTyped
  <2>2. UNCHANGED <<variable, variableCame>>
    BY <1>11 DEF V!GetNext
  <2>3. c.saw \in 0..(VariableCalls + 1) /\ c.value \in 0..VariableCalls
    BY <2>1 DEF VariablesCounted
  <2>4. CASE variableReq' = [variableReq EXCEPT ![q] = V!Idle]
    BY <1>1, <1>3, <2>2, <2>4, CountsMove
  <2>5. ASSUME NEW at, variableReq' = [variableReq EXCEPT ![q] = [c EXCEPT !.at = at]], at = "missed"
        PROVE  VariablesCounted'
    <3>1. [c EXCEPT !.at = at] \in Call /\ [c EXCEPT !.at = at].saw = c.saw /\ [c EXCEPT !.at = at].value = c.value
      BY <2>5 DEF Call, Setting, Getting
    <3> QED
      BY <1>1, <2>2, <2>3, <2>5, <3>1, CountsMove
  <2>6. ASSUME c.left # <<>>, variableReq' = [variableReq EXCEPT ![q] = [c EXCEPT !.left = Tail(c.left)]]
        PROVE  VariablesCounted'
    <3>1. PICK left \in Seq(V!Layers) : left = Tail(c.left)
      <4>1. c.left \in Seq(V!Layers)
        BY DEF Call
      <4>2. Tail(c.left) \in Seq(V!Layers)
        BY <2>6, <4>1
      <4> QED
        BY <4>2
    <3>2. [c EXCEPT !.left = left] \in Call /\ [c EXCEPT !.left = left].saw = c.saw /\ [c EXCEPT !.left = left].value = c.value
      BY DEF Call
    <3> QED
      BY <1>1, <2>2, <2>3, <2>6, <3>1, <3>2, CountsMove
  <2> QED
    BY <1>11, <2>1, <2>4, <2>5, <2>6 DEF V!GetNext, V!Set
<1>12. ASSUME NEW q \in VariableRequests, V!Missed(q) PROVE VariablesCounted'
  BY <1>1, <1>3, <1>12, CountsMove DEF V!Missed, V!Set
<1> QED
  BY <1>4, <1>5, <1>6, <1>7, <1>8, <1>9, <1>10, <1>11, <1>12 DEF V!Next

LEMMA VariablesBegin == ASSUME VariableBounds, V!Init PROVE VariablesInv /\ VariablesCounted
<1>1. PICK keys \in SUBSET StartKeys :
        variable = [k \in V!Keys |-> IF k \in keys THEN [id |-> 1, value |-> 0, secret |-> k[2] \in CredentialNames]
                                     ELSE V!NoRow]
  BY DEF V!Init
<1>2. variable \in [V!Keys -> VariableRow]
  <2>1. \A k \in V!Keys : (k[2] \in CredentialNames) \in BOOLEAN
    OBVIOUS
  <2> QED
    BY <1>1, <2>1 DEF V!NoRow, VariableRow
<1>3. V!Idle \in Call /\ V!Idle.at = "idle"
  BY IdleCall
<1>4. VariablesTyped
  BY <1>2, <1>3 DEF V!Init, VariablesTyped
<1>5. \A q \in VariableRequests : variableReq[q].at = "idle"
  BY <1>3 DEF V!Init
<1>6. \A q, r \in VariableRequests : SetKnows(variableReq[q]) /\ GetKnows(q, variableReq[q]) /\ MetAt(variableReq[q], variableReq[r])
  BY <1>5 DEF SetKnows, GetKnows, MetAt, Setting
<1>7. V!CredentialsMarked
  BY <1>1 DEF V!CredentialsMarked, V!NoRow
<1>8. V!AnswersStand
  BY DEF V!Init, V!AnswersStand
<1>9. VariablesCounted
  <2>1. 0 \in 0..VariableCalls /\ 0 \in 0..(VariableCalls + 1) /\ 1 \in 0..(VariableCalls + 1)
    BY DEF VariableBounds
  <2>2. \A k \in V!Keys : variable[k].id \in {0, 1}
    BY <1>1 DEF V!NoRow
  <2>3. \A q \in VariableRequests : variableReq[q].saw = 0 /\ variableReq[q].value = 0
    BY DEF V!Init, V!Idle
  <2>4. variableCame = 0
    BY DEF V!Init
  <2> QED
    BY <2>1, <2>2, <2>3, <2>4 DEF VariablesCounted
<1> QED
  BY <1>4, <1>6, <1>7, <1>8, <1>9 DEF VariablesInv

LEMMA VariablesKeep == ASSUME VariableBounds, VariablesInv, [V!Next]_(V!variablesVars) PROVE VariablesInv'
<1>1. CASE UNCHANGED V!variablesVars
  <2>1. UNCHANGED <<variable, acked, met>> /\ UNCHANGED <<held, dropped>> /\ UNCHANGED <<variableReq, variableCame>>
    BY <1>1 DEF V!variablesVars
  <2>2. VariablesTyped'
    BY <2>1 DEF VariablesInv, VariablesTyped
  <2> QED
    BY <2>1, <2>2, Unwritten, RowsKeep
<1> QED
  BY <1>1, SeedKeeps, DeleteKeeps, StartSetKeeps, LookKeeps, WriteKeeps, StartGetKeeps, GetNextKeeps, MissedKeeps
     DEF V!Next

\* A credential is never stored without its mark; a row is what the last answered request left,
\* unless two met at its key; a get misses a name that was there throughout only if it met a
\* delete; and a list shows for every name what a get of it answers.  For any names and keys, and
\* any number of requests.
THEOREM VariablesStand == VariableBounds => (V!Spec => [](V!TypeOK /\ VariablesKept))
<1> SUFFICES ASSUME VariableBounds PROVE V!Spec => [](V!TypeOK /\ VariablesKept)
  OBVIOUS
<1>1. V!Init => VariablesInv /\ VariablesCounted
  BY VariablesBegin
<1>2. VariablesInv /\ VariablesCounted /\ [V!Next]_(V!variablesVars) => VariablesInv' /\ VariablesCounted'
  BY VariablesKeep, VariablesCount
<1>3. VariablesInv /\ VariablesCounted => V!TypeOK /\ VariablesKept
  <2> SUFFICES ASSUME VariablesInv, VariablesCounted PROVE V!TypeOK /\ VariablesKept
    OBVIOUS
  <2>1. V!TypeOK
    <3>1. \A q \in VariableRequests : variableReq[q].at \in {"idle", "look", "write", "get", "missed"}
      BY DEF VariablesInv, VariablesTyped, Call, Setting, Getting
    <3> QED
      BY <3>1 DEF VariablesCounted, V!TypeOK
  <2>2. V!ListGetAgree
    BY ListsAgree DEF VariableBounds
  <2>3. V!MissOnlyIfMoved
    BY DEF VariablesInv, GetKnows, V!MissOnlyIfMoved
  <2> QED
    BY <2>1, <2>2, <2>3 DEF VariablesInv, VariablesKept
<1> QED
  BY <1>1, <1>2, <1>3, PTL DEF V!Spec

-----------------------------------------------------------------------------
(* The work items of a project.                                            *)

TreePatch ==
    [parent : Items \cup {NoItem, Keep}, status : S!Statuses \cup {Keep}, text : (0..TreeCalls) \cup {Keep}]

\* What stands for no item, and for a field left alone, is none; the requests are counted.
TreeBounds ==
    /\ NoItem \notin Items
    /\ TreePatches \subseteq TreePatch
    /\ Keep \notin Items \cup S!Statuses
    /\ TreeCalls \in Nat

TreeCall ==
    [at : {"idle", "parent", "before", "write", "after", "append", "project"},
     kind : {"", "patch", "create", "transition"}, id : Items \cup {NoItem},
     patch : TreePatch, saw : S!Row, wrote : S!Row]

\* What a request is doing.
Busy(y) == y.at # "idle"
Patching(y) == y.kind = "patch" /\ y.at \in {"parent", "before", "write"}
Making(y) == y.kind = "create" /\ y.at \in {"parent", "write"}
Wrote(y) == y.kind \in {"patch", "create"} /\ y.at \in {"after", "append"}
Projecting(y) == y.kind = "transition" /\ y.at = "project"

\* The reasons LedgerTells leaves a field of an item out for.
Amiss(i, f) ==
    \/ {"raced", "lost"} \cap treeExcused[i] # {}
    \/ f = "parent" /\ "orphaned" \in treeExcused[i]
    \/ f = "status" /\ {"unprojected", "deleted"} \cap treeExcused[i] # {}

\* The row a patch of a story saw is the row as it is, but for the parent it lost.
SawRow(y) ==
    /\ S!MayMove(y.saw, y.patch)
    /\ y.id \in S!Live =>
          \/ "raced" \in treeExcused[y.id]
          \/ /\ y.saw.status = item[y.id].status /\ y.saw.text = item[y.id].text
             /\ \/ y.saw.parent = item[y.id].parent
                \/ y.saw.parent \in ended /\ "orphaned" \in treeExcused[y.id]

WroteRow(y) ==
    y.id \in S!Live => \A f \in S!Fields : y.wrote[f] = item[y.id][f] \/ Amiss(y.id, f)

ToldStatus(y) ==
    /\ y.patch.parent = Keep /\ y.patch.text = Keep /\ y.patch.status # Keep
    /\ y.id \in S!Live => told[y.id]["status"] = y.patch.status \/ "raced" \in treeExcused[y.id]

\* The epic a story is about to be put under was not over when that was asked.
EpicOpen(y) ==
    LET p == y.patch.parent
    IN  p \in S!Live /\ p # Keep /\ item[p].status = "terminal" =>
            \/ "late" \in treeExcused[p] \/ "unchecked" \in treeExcused[y.id]
            \/ y.kind = "patch" /\ p = y.saw.parent

CallKnows(y) ==
    /\ Busy(y) => /\ y.id \in Items
                  /\ Patching(y) \/ Making(y) \/ Wrote(y) \/ Projecting(y)
    /\ Patching(y) /\ y.id \notin Tasks => SawRow(y)
    /\ y.kind \in {"patch", "create"} /\ y.at \in {"before", "write"} /\ y.id \notin Tasks => EpicOpen(y)
    /\ Making(y) => y.id \notin S!Live /\ y.id \notin ended
    /\ Patching(y) \/ Making(y) => S!Named(y.patch.parent)
    /\ Wrote(y) => WroteRow(y)
    /\ Projecting(y) => ToldStatus(y)

\* An item that is being made is nobody else's, and a request that writes an item that is being
\* moved is told apart.
CallsApart(y, z) ==
    /\ Making(y) /\ Busy(z) => z.id # y.id
    /\ Projecting(y) /\ Wrote(z) /\ z.id = y.id /\ y.id \in S!Live => "raced" \in treeExcused[y.id]

\* What a request is still to tell.
TellsOf(y) ==
    IF y.id \in Tasks THEN {"parent", "status"}
    ELSE IF y.kind = "create" THEN S!Fields
    ELSE {f \in S!Fields : y.saw[f] # y.wrote[f]}
Teller(y, i, f) ==
    /\ y.id = i
    /\ \/ Wrote(y) /\ f \in TellsOf(y)
       \/ Projecting(y) /\ f = "status"

FieldsOf(i) == IF i \in Tasks THEN {"parent", "status"} ELSE S!Fields

ToldOrToCome ==
    \A i \in S!Live : \A f \in FieldsOf(i) :
        told[i][f] = item[i][f] \/ Amiss(i, f) \/ \E q \in TreeRequests : Teller(treeReq[q], i, f)

\* What may go wrong.
Whys == {"raced", "late", "unchecked", "lost", "unprojected", "deleted", "orphaned"}

TreeTyped ==
    /\ item \in [S!Live -> S!Row] /\ S!Live \subseteq Items /\ ended \subseteq Items
    /\ S!Live \cap ended = {}
    /\ \A i \in S!Live : item[i].parent \in S!Live \cup {NoItem}
    /\ told \in [Items -> S!Row]
    /\ treeReq \in [TreeRequests -> TreeCall]
    /\ treeExcused \in [Items -> SUBSET Whys]
    /\ treeCame \in 0..TreeCalls

TreeInv ==
    /\ TreeTyped
    /\ \A q \in TreeRequests : CallKnows(treeReq[q])
    /\ \A q, r \in TreeRequests : q # r => CallsApart(treeReq[q], treeReq[r])
    /\ ToldOrToCome

-----------------------------------------------------------------------------
\* What a step of a request does to the items, the ledger and the others.
ItemsMove(q) ==
    /\ S!Live \subseteq DOMAIN item' /\ ended' = ended
    /\ \A i \in S!Live : item'[i] # item[i] =>
          \A r \in TreeRequests \ {q} : Busy(treeReq[r]) =>
              /\ treeReq[r].id = i => "raced" \in treeExcused'[i]
              /\ treeReq[r].patch.parent = i => "late" \in treeExcused'[i]
    /\ \A i \in (DOMAIN item') \ S!Live :
          \A r \in TreeRequests \ {q} : Busy(treeReq[r]) =>
              /\ treeReq[r].id # i
              /\ Patching(treeReq[r]) \/ Making(treeReq[r]) => treeReq[r].patch.parent # i
LedgerMoves(q) ==
    \A i \in S!Live : told'[i] # told[i] =>
        \A r \in TreeRequests \ {q} : Projecting(treeReq[r]) /\ treeReq[r].id = i => "raced" \in treeExcused'[i]
ExcusesGrow == \A i \in Items : treeExcused[i] \subseteq treeExcused'[i]

LEMMA AmissStays ==
    ASSUME ExcusesGrow, NEW i \in Items, NEW f, Amiss(i, f)
    PROVE  Amiss(i, f)'
  BY DEF ExcusesGrow, Amiss

LEMMA RacedIsAmiss == ASSUME NEW i, NEW f, "raced" \in treeExcused[i] PROVE Amiss(i, f)
  BY DEF Amiss

LEMMA OtherKnows ==
    ASSUME TreeInv, NEW q \in TreeRequests, NEW r \in TreeRequests, r # q, ItemsMove(q), LedgerMoves(q), ExcusesGrow,
           NEW y, y = treeReq[r]
    PROVE  CallKnows(y)'
<1>1. y \in TreeCall /\ CallKnows(y) /\ S!Live \subseteq Items /\ S!Live \cap ended = {}
  BY DEF TreeInv, TreeTyped
<1>2. (Patching(y) /\ y.id \notin Tasks => SawRow(y))'
  <2> SUFFICES ASSUME Patching(y), y.id \notin Tasks PROVE SawRow(y)'
    BY DEF Patching
  <2>1. SawRow(y) /\ Busy(y) /\ y.id \in Items
    BY <1>1 DEF CallKnows, Busy, Patching
  <2>2. CASE y.id \notin DOMAIN item'
    BY <2>1, <2>2 DEF SawRow, S!MayMove, S!Live
  <2>3. CASE y.id \in DOMAIN item'
    <3>1. y.id \in S!Live
      BY <2>1, <2>3 DEF ItemsMove
    <3>2. CASE item'[y.id] = item[y.id]
      BY <2>1, <3>1, <3>2 DEF SawRow, S!MayMove, ItemsMove, ExcusesGrow
    <3>3. CASE item'[y.id] # item[y.id]
      <4>1. "raced" \in treeExcused'[y.id]
        BY <2>1, <3>1, <3>3 DEF ItemsMove
      <4> QED
        BY <2>1, <4>1 DEF SawRow, S!MayMove
    <3> QED
      BY <3>2, <3>3
  <2> QED
    BY <2>2, <2>3
<1>3. (y.kind \in {"patch", "create"} /\ y.at \in {"before", "write"} /\ y.id \notin Tasks => EpicOpen(y))'
  <2> SUFFICES ASSUME y.kind \in {"patch", "create"}, y.at \in {"before", "write"}, y.id \notin Tasks PROVE EpicOpen(y)'
    OBVIOUS
  <2>1. EpicOpen(y) /\ Busy(y) /\ y.id \in Items
    BY <1>1 DEF CallKnows, Busy
  <2> PICK p : p = y.patch.parent
    OBVIOUS
  <2>2. CASE p \in S!Live /\ item'[p] # item[p]
    <3>1. "late" \in treeExcused'[p]
      BY <2>1, <2>2 DEF ItemsMove
    <3> QED
      BY <3>1 DEF EpicOpen
  <2>3. CASE p \in S!Live /\ item'[p] = item[p]
    BY <1>1, <2>1, <2>3 DEF EpicOpen, ExcusesGrow
  <2>4. CASE p \notin S!Live
    <3>1. Patching(y) \/ Making(y)
      BY <1>1, <2>1 DEF CallKnows, Wrote, Projecting
    <3>2. p \notin DOMAIN item'
      BY <2>1, <2>4, <3>1 DEF ItemsMove
    <3> QED
      BY <3>2 DEF EpicOpen, S!Live
  <2> QED
    BY <2>2, <2>3, <2>4
<1>4. (Making(y) => y.id \notin S!Live /\ y.id \notin ended)'
  <2> SUFFICES ASSUME Making(y) PROVE y.id \notin DOMAIN item' /\ y.id \notin ended'
    BY DEF Making, S!Live
  <2>1. Busy(y)
    BY DEF Making, Busy
  <2> QED
    BY <1>1, <2>1 DEF CallKnows, ItemsMove
<1>5. (Wrote(y) => WroteRow(y))'
  <2> SUFFICES ASSUME Wrote(y), y.id \in DOMAIN item', NEW f \in S!Fields
               PROVE  y.wrote[f] = item'[y.id][f] \/ Amiss(y.id, f)'
    BY DEF Wrote, WroteRow, S!Live, S!Fields
  <2>1. Busy(y) /\ y.id \in S!Live /\ y.id \in Items
    BY <1>1 DEF Wrote, Busy, ItemsMove
  <2>2. CASE item'[y.id] = item[y.id]
    BY <1>1, <2>1, <2>2, AmissStays DEF CallKnows, WroteRow
  <2>3. CASE item'[y.id] # item[y.id]
    <3>1. ("raced" \in treeExcused[y.id])'
      BY <2>1, <2>3 DEF ItemsMove
    <3> QED
      BY <3>1 DEF Amiss
  <2> QED
    BY <2>2, <2>3
<1>6. (Projecting(y) => ToldStatus(y))'
  <2> SUFFICES ASSUME Projecting(y) PROVE ToldStatus(y)'
    BY DEF Projecting
  <2>1. Busy(y) /\ ToldStatus(y) /\ y.id \in Items
    BY <1>1 DEF Projecting, Busy, CallKnows
  <2>2. CASE y.id \notin DOMAIN item'
    BY <2>1, <2>2 DEF ToldStatus, S!Live
  <2>3. CASE y.id \in DOMAIN item'
    <3>1. y.id \in S!Live
      BY <2>1, <2>3 DEF ItemsMove
    <3>2. CASE told'[y.id] = told[y.id]
      BY <2>1, <3>1, <3>2 DEF ToldStatus, ExcusesGrow
    <3>3. CASE told'[y.id] # told[y.id]
      BY <2>1, <3>1, <3>3 DEF ToldStatus, LedgerMoves
    <3> QED
      BY <3>2, <3>3
  <2> QED
    BY <2>2, <2>3
<1>7. (Busy(y) => y.id \in Items /\ (Patching(y) \/ Making(y) \/ Wrote(y) \/ Projecting(y)))'
  BY <1>1 DEF CallKnows, Busy, Patching, Making, Wrote, Projecting
<1>8. (Patching(y) \/ Making(y) => S!Named(y.patch.parent))'
  BY <1>1 DEF CallKnows, ItemsMove, Patching, Making, S!Named, S!Live
<1> QED
  BY <1>2, <1>3, <1>4, <1>5, <1>6, <1>7, <1>8 DEF CallKnows

LEMMA OthersApart ==
    ASSUME TreeInv, NEW q \in TreeRequests, NEW r \in TreeRequests, NEW t \in TreeRequests, r # q, t # r,
           ItemsMove(q), ExcusesGrow, NEW y, y = treeReq[r], NEW z, z = treeReq[t]
    PROVE  CallsApart(y, z)'
<1>1. CallsApart(y, z) /\ y \in TreeCall /\ CallKnows(y)
  BY DEF TreeInv, TreeTyped
<1>2. (Making(y) /\ Busy(z) => z.id # y.id)'
  BY <1>1 DEF CallsApart, Making, Busy
<1>3. ASSUME Projecting(y), Wrote(z), z.id = y.id, y.id \in DOMAIN item' PROVE "raced" \in treeExcused'[y.id]
  <2>1. Busy(y)
    BY <1>3 DEF Projecting, Busy
  <2>2. y.id \in Items /\ y.id \in S!Live
    BY <1>1, <1>3, <2>1 DEF CallKnows, ItemsMove
  <2> QED
    BY <1>1, <1>3, <2>2 DEF CallsApart, ExcusesGrow
<1>4. (Projecting(y) /\ Wrote(z) /\ z.id = y.id /\ y.id \in S!Live => "raced" \in treeExcused[y.id])'
  BY <1>3 DEF Projecting, Wrote, S!Live
<1> QED
  BY <1>2, <1>4 DEF CallsApart

LEMMA TreeStep ==
    ASSUME TreeInv, NEW q \in TreeRequests, NEW z \in TreeCall, S!Set(q, z), TreeTyped', ItemsMove(q), LedgerMoves(q),
           ExcusesGrow, CallKnows(z)', ToldOrToCome',
           \A r \in TreeRequests \ {q} : CallsApart(z, treeReq[r])' /\ CallsApart(treeReq[r], z)'
    PROVE  TreeInv'
<1>1. treeReq \in [TreeRequests -> TreeCall] /\ treeReq' = [treeReq EXCEPT ![q] = z]
  BY DEF TreeInv, TreeTyped, S!Set
<1>2. treeReq'[q] = z /\ \A r \in TreeRequests : r # q => treeReq'[r] = treeReq[r]
  BY <1>1
<1>3. ASSUME NEW r \in TreeRequests PROVE CallKnows(treeReq[r])'
  <2>1. CASE r = q
    BY <1>2, <2>1 DEF CallKnows, SawRow, WroteRow, ToldStatus, EpicOpen
  <2>2. CASE r # q
    <3> PICK y : y = treeReq[r]
      OBVIOUS
    <3>1. CallKnows(y)'
      BY <2>2, OtherKnows
    <3>2. treeReq'[r] = y
      BY <1>2, <2>2
    <3> QED
      BY <3>1, <3>2
  <2> QED
    BY <2>1, <2>2
<1>4. ASSUME NEW r \in TreeRequests, NEW t \in TreeRequests, r # t PROVE CallsApart(treeReq[r], treeReq[t])'
  <2>1. CASE r = q
    BY <1>2, <1>4, <2>1
  <2>2. CASE t = q
    BY <1>2, <1>4, <2>2
  <2>3. CASE r # q /\ t # q
    <3> PICK y : y = treeReq[r]
      OBVIOUS
    <3> PICK x : x = treeReq[t]
      OBVIOUS
    <3>1. CallsApart(y, x)'
      BY <1>4, <2>3, OthersApart
    <3>2. treeReq'[r] = y /\ treeReq'[t] = x
      BY <1>2, <2>3
    <3> QED
      BY <3>1, <3>2
  <2> QED
    BY <2>1, <2>2, <2>3
<1> QED
  BY <1>3, <1>4 DEF TreeInv

\* A request that comes, or goes on, takes no item that is being made.
Alone(q, z) ==
    \A r \in TreeRequests \ {q} :
        /\ Making(z) /\ Busy(treeReq[r]) => treeReq[r].id # z.id
        /\ Busy(z) /\ Making(treeReq[r]) => z.id # treeReq[r].id

\* A step that leaves the items and the ledger alone.
LEMMA PlainTree ==
    ASSUME TreeInv, NEW q \in TreeRequests, NEW z \in TreeCall, S!Set(q, z), UNCHANGED <<item, ended, told>>,
           treeCame' \in 0..TreeCalls, ExcusesGrow,
           treeExcused' \in [Items -> SUBSET Whys],
           CallKnows(z)', Alone(q, z), ~ Projecting(z),
           Wrote(z) => Wrote(treeReq[q]) /\ z.id = treeReq[q].id,
           \A i \in S!Live : \A f \in FieldsOf(i) : Teller(treeReq[q], i, f) => Teller(z, i, f) \/ Amiss(i, f)'
    PROVE  TreeInv'
<1>1. treeReq \in [TreeRequests -> TreeCall] /\ treeReq' = [treeReq EXCEPT ![q] = z]
  BY DEF TreeInv, TreeTyped, S!Set
<1>2. treeReq'[q] = z /\ \A r \in TreeRequests : r # q => treeReq'[r] = treeReq[r]
  BY <1>1
<1>3. TreeTyped'
  BY <1>1 DEF TreeInv, TreeTyped, S!Live, S!Row, S!Statuses
<1>4. ItemsMove(q) /\ LedgerMoves(q)
  BY DEF ItemsMove, LedgerMoves, S!Live
<1>5. ASSUME NEW r \in TreeRequests \ {q} PROVE CallsApart(z, treeReq[r])' /\ CallsApart(treeReq[r], z)'
  <2> PICK y : y = treeReq[r]
    OBVIOUS
  <2>1. CallsApart(y, treeReq[q]) /\ CallKnows(y)
    BY DEF TreeInv
  <2>2. CallsApart(z, y)'
    BY DEF CallsApart, Alone, Making, Busy, Projecting
  <2>3. CallsApart(y, z)'
    <3>1. (Making(y) /\ Busy(z) => z.id # y.id)'
      BY DEF Alone, Making, Busy
    <3>2. ASSUME Projecting(y), Wrote(z), z.id = y.id, y.id \in DOMAIN item' PROVE "raced" \in treeExcused'[y.id]
      BY <2>1, <3>2 DEF CallsApart, CallKnows, Busy, Projecting, ExcusesGrow, S!Live
    <3>3. (Projecting(y) /\ Wrote(z) /\ z.id = y.id /\ y.id \in S!Live => "raced" \in treeExcused[y.id])'
      BY <3>2 DEF Projecting, Wrote, S!Live
    <3> QED
      BY <3>1, <3>3 DEF CallsApart
  <2> QED
    BY <1>2, <2>2, <2>3
<1>6. ToldOrToCome'
  <2> SUFFICES ASSUME NEW i \in DOMAIN item', NEW f \in FieldsOf(i)
               PROVE  (told[i][f] = item[i][f] \/ Amiss(i, f) \/ \E r \in TreeRequests : Teller(treeReq[r], i, f))'
    BY DEF ToldOrToCome, S!Live, FieldsOf, S!Fields
  <2>1. i \in S!Live /\ i \in Items
    BY DEF S!Live, TreeInv, TreeTyped
  <2>2. CASE told[i][f] = item[i][f]
    BY <2>2
  <2>3. CASE Amiss(i, f)
    BY <2>1, <2>3, AmissStays
  <2>4. ASSUME NEW r \in TreeRequests, Teller(treeReq[r], i, f)
        PROVE  Amiss(i, f)' \/ \E t \in TreeRequests : Teller(treeReq'[t], i, f)
    BY <1>2, <2>1, <2>4
  <2>5. ASSUME NEW t \in TreeRequests, Teller(treeReq'[t], i, f) PROVE Teller(treeReq[t], i, f)'
    BY <2>5 DEF Teller, Wrote, Projecting, TellsOf, S!Fields
  <2> QED
    BY <2>1, <2>2, <2>3, <2>4, <2>5 DEF TreeInv, ToldOrToCome
<1> QED
  BY <1>3, <1>4, <1>5, <1>6, TreeStep

LEMMA IdleTree ==
    ASSUME TreeBounds
    PROVE  S!Idle \in TreeCall /\ CallKnows(S!Idle)' /\ ~ Busy(S!Idle) /\ ~ Projecting(S!Idle) /\ ~ Wrote(S!Idle)
           /\ ~ Making(S!Idle)
<1>1. S!NewRow \in S!Row
  BY DEF S!NewRow, S!Row, S!Statuses, TreeBounds
<1>2. S!Idle \in TreeCall
  BY <1>1 DEF S!Idle, TreeCall, TreePatch
<1>3. S!Idle.at = "idle" /\ S!Idle.kind = ""
  BY DEF S!Idle
<1> QED
  BY <1>2, <1>3 DEF CallKnows, Busy, Projecting, Wrote, Making, Patching

-----------------------------------------------------------------------------
\* A request comes.
LEMMA Starts ==
    ASSUME TreeBounds, TreeInv, NEW q \in TreeRequests, NEW kind1 \in {"patch", "create"}, NEW i \in Items,
           NEW p \in TreePatches, NEW at1 \in {"parent", "before", "write"}, S!Start(q, kind1, i, p, at1)
    PROVE  \E z \in TreeCall :
              /\ S!Set(q, z) /\ z.at = at1 /\ z.kind = kind1 /\ z.id = i /\ z.wrote = S!NewRow
              /\ z.saw = IF i \in S!Live THEN item[i] ELSE S!NewRow
              /\ z.patch.parent = p.parent /\ z.patch.status = p.status
              /\ ~ Busy(treeReq[q]) /\ treeCame' \in 0..TreeCalls /\ UNCHANGED <<item, ended, told, treeExcused>>
<1> PICK z : z = [S!Idle EXCEPT !.at = at1, !.kind = kind1, !.id = i,
                           !.saw = IF i \in S!Live THEN item[i] ELSE @,
                           !.patch = [p EXCEPT !.text = IF @ = Keep THEN Keep ELSE treeCame + 1]]
  OBVIOUS
<1>1. S!Set(q, z) /\ ~ Busy(treeReq[q]) /\ UNCHANGED <<item, ended, told, treeExcused>>
  BY DEF S!Start, Busy
<1>2. treeCame \in 0..TreeCalls /\ treeCame < TreeCalls /\ treeCame' = treeCame + 1
  BY DEF S!Start, S!Come, TreeInv, TreeTyped
<1>3. treeCame' \in 0..TreeCalls
  BY <1>2 DEF TreeBounds
<1> PICK c : c = [p EXCEPT !.text = IF @ = Keep THEN Keep ELSE treeCame + 1]
  OBVIOUS
<1>4. p \in TreePatch
  BY DEF TreeBounds
<1>5. c \in TreePatch /\ c.parent = p.parent /\ c.status = p.status
  BY <1>2, <1>3, <1>4 DEF TreePatch
<1> PICK w : w = IF i \in S!Live THEN item[i] ELSE S!NewRow
  OBVIOUS
<1>6. w \in S!Row
  BY DEF TreeInv, TreeTyped, S!NewRow, S!Row, S!Statuses, TreeBounds
<1>7. S!Idle.saw = S!NewRow /\ S!Idle.wrote = S!NewRow
  BY DEF S!Idle
<1>8. z = [S!Idle EXCEPT !.at = at1, !.kind = kind1, !.id = i, !.saw = w, !.patch = c]
  BY <1>7
<1>9. S!Idle \in TreeCall
  BY IdleTree
<1>10. z \in TreeCall
  BY <1>5, <1>6, <1>8, <1>9 DEF TreeCall
<1>11. z.at = at1 /\ z.kind = kind1 /\ z.id = i /\ z.wrote = S!NewRow /\ z.saw = w /\ z.patch = c
  BY <1>7, <1>8, <1>9 DEF TreeCall
<1> QED
  BY <1>1, <1>3, <1>5, <1>10, <1>11

LEMMA KnowsStays ==
    ASSUME TreeInv, UNCHANGED <<item, ended, told>>, ExcusesGrow, NEW y \in TreeCall, CallKnows(y)
    PROVE  CallKnows(y)'
<1>1. S!Live \subseteq Items
  BY DEF TreeInv, TreeTyped
<1>2. Busy(y) => y.id \in Items
  BY DEF CallKnows
<1>3. (Busy(y) => y.id \in Items /\ (Patching(y) \/ Making(y) \/ Wrote(y) \/ Projecting(y)))'
  BY DEF CallKnows, Busy, Patching, Making, Wrote, Projecting
<1>4. (Patching(y) /\ y.id \notin Tasks => SawRow(y))'
  BY <1>2 DEF CallKnows, SawRow, Patching, Busy, ExcusesGrow, S!MayMove, S!Live
<1>5. (y.kind \in {"patch", "create"} /\ y.at \in {"before", "write"} /\ y.id \notin Tasks => EpicOpen(y))'
  BY <1>1, <1>2 DEF CallKnows, EpicOpen, Busy, ExcusesGrow, S!Live
<1>6. (Making(y) => y.id \notin S!Live /\ y.id \notin ended)'
  BY DEF CallKnows, Making, S!Live
<1>7. (Wrote(y) => WroteRow(y))'
  <2>1. Wrote(y) => Busy(y)
    BY DEF Wrote, Busy
  <2> QED
    BY <1>2, <2>1, AmissStays DEF CallKnows, WroteRow, Wrote, S!Live, S!Fields
<1>8. (Projecting(y) => ToldStatus(y))'
  BY <1>2 DEF CallKnows, ToldStatus, Projecting, Busy, ExcusesGrow, S!Live
<1>9. (Patching(y) \/ Making(y) => S!Named(y.patch.parent))'
  BY DEF CallKnows, Patching, Making, S!Named, S!Live
<1> QED
  BY <1>3, <1>4, <1>5, <1>6, <1>7, <1>8, <1>9 DEF CallKnows

LEMMA NoneGrow == ASSUME treeExcused' = treeExcused PROVE ExcusesGrow
  BY DEF ExcusesGrow

LEMMA LookTree ==
    ASSUME TreeBounds, TreeInv, NEW q \in TreeRequests, S!LookAt(q)
    PROVE  TreeInv'
<1>1. PICK i \in S!Live, p \in TreePatches :
        /\ S!Named(p.parent)
        /\ i \in Tasks \/ S!MayMove(item[i], p)
        /\ S!Start(q, "patch", i, p, IF i \in Tasks THEN "write"
                 ELSE IF p.parent \in {Keep, NoItem, item[i].parent} THEN "before" ELSE "parent")
  BY DEF S!LookAt
<1> PICK at1 : at1 = IF i \in Tasks THEN "write"
                 ELSE IF p.parent \in {Keep, NoItem, item[i].parent} THEN "before" ELSE "parent"
  OBVIOUS
<1>2. i \in Items /\ at1 \in {"parent", "before", "write"} /\ S!Live \subseteq Items
  BY DEF TreeInv, TreeTyped
<1>3. PICK z \in TreeCall :
              /\ S!Set(q, z) /\ z.at = at1 /\ z.kind = "patch" /\ z.id = i /\ z.wrote = S!NewRow
              /\ z.saw = IF i \in S!Live THEN item[i] ELSE S!NewRow
              /\ z.patch.parent = p.parent /\ z.patch.status = p.status
              /\ ~ Busy(treeReq[q]) /\ treeCame' \in 0..TreeCalls /\ UNCHANGED <<item, ended, told, treeExcused>>
  BY <1>1, <1>2, Starts
<1>4. CallKnows(z)
  <2>1. Busy(z) /\ Patching(z) /\ ~ Making(z) /\ ~ Wrote(z) /\ ~ Projecting(z)
    BY <1>2, <1>3 DEF Busy, Patching, Making, Wrote, Projecting
  <2>2. i \notin Tasks => SawRow(z)
    BY <1>1, <1>3 DEF SawRow, S!MayMove
  <2>3. z.at \in {"before", "write"} /\ i \notin Tasks => EpicOpen(z)
    BY <1>2, <1>3 DEF EpicOpen, TreeBounds
  <2> QED
    BY <1>1, <1>2, <1>3, <2>1, <2>2, <2>3 DEF CallKnows
<1>5. ~ Projecting(z) /\ ~ Wrote(z) /\ ~ Making(z)
  BY <1>2, <1>3 DEF Projecting, Wrote, Making
<1>6. Alone(q, z)
  BY <1>3, <1>5 DEF Alone, TreeInv, CallKnows
<1>7. ExcusesGrow
  BY <1>3, NoneGrow
<1>8. CallKnows(z)'
  BY <1>3, <1>4, <1>7, KnowsStays
<1>9. \A j, f : ~ Teller(treeReq[q], j, f)
  BY <1>3 DEF Teller, Busy, Wrote, Projecting
<1>10. treeExcused' \in [Items -> SUBSET Whys]
  BY <1>3 DEF TreeInv, TreeTyped
<1> QED
  BY <1>3, <1>5, <1>6, <1>7, <1>8, <1>9, <1>10, PlainTree

LEMMA CreateTree ==
    ASSUME TreeBounds, TreeInv, NEW q \in TreeRequests, S!Create(q)
    PROVE  TreeInv'
<1>1. PICK i \in Items \ (S!Live \cup ended), p \in TreePatches :
        /\ S!Named(p.parent)
        /\ p.text # Keep /\ \A r \in TreeRequests : treeReq[r].id # i
        /\ S!Start(q, "create", i, p, IF i \in Tasks \/ p.parent \in {Keep, NoItem} THEN "write" ELSE "parent")
  BY DEF S!Create
<1> PICK at1 : at1 = IF i \in Tasks \/ p.parent \in {Keep, NoItem} THEN "write" ELSE "parent"
  OBVIOUS
<1>2. i \in Items /\ at1 \in {"parent", "before", "write"} /\ at1 # "before" /\ S!Live \subseteq Items
  BY DEF TreeInv, TreeTyped
<1>3. PICK z \in TreeCall :
              /\ S!Set(q, z) /\ z.at = at1 /\ z.kind = "create" /\ z.id = i /\ z.wrote = S!NewRow
              /\ z.saw = IF i \in S!Live THEN item[i] ELSE S!NewRow
              /\ z.patch.parent = p.parent /\ z.patch.status = p.status
              /\ ~ Busy(treeReq[q]) /\ treeCame' \in 0..TreeCalls /\ UNCHANGED <<item, ended, told, treeExcused>>
  BY <1>1, <1>2, Starts
<1>4. CallKnows(z)
  <2>1. Busy(z) /\ Making(z) /\ ~ Patching(z) /\ ~ Wrote(z) /\ ~ Projecting(z)
    BY <1>2, <1>3 DEF Busy, Patching, Making, Wrote, Projecting
  <2>2. i \notin S!Live /\ i \notin ended
    BY <1>1, <1>3 DEF TreeBounds
  <2>3. z.at \in {"before", "write"} /\ i \notin Tasks => EpicOpen(z)
    BY <1>2, <1>3 DEF EpicOpen, TreeBounds
  <2> QED
    BY <1>1, <1>2, <1>3, <2>1, <2>2, <2>3 DEF CallKnows
<1>5. ~ Projecting(z) /\ ~ Wrote(z)
  BY <1>2, <1>3 DEF Projecting, Wrote
<1>6. Alone(q, z)
  BY <1>1, <1>3 DEF Alone
<1>7. ExcusesGrow
  BY <1>3, NoneGrow
<1>8. CallKnows(z)'
  BY <1>3, <1>4, <1>7, KnowsStays
<1>9. \A j, f : ~ Teller(treeReq[q], j, f)
  BY <1>3 DEF Teller, Busy, Wrote, Projecting
<1>10. treeExcused' \in [Items -> SUBSET Whys]
  BY <1>3 DEF TreeInv, TreeTyped
<1> QED
  BY <1>3, <1>5, <1>6, <1>7, <1>8, <1>9, <1>10, PlainTree

\* A request that goes back to rest without having told anything more.
LEMMA RestTree ==
    ASSUME TreeBounds, TreeInv, NEW q \in TreeRequests, S!Set(q, S!Idle), UNCHANGED <<item, ended, told, treeCame>>,
           ExcusesGrow,
           treeExcused' \in [Items -> SUBSET Whys],
           \A i \in S!Live : \A f \in FieldsOf(i) : Teller(treeReq[q], i, f) => Amiss(i, f)'
    PROVE  TreeInv'
<1>1. treeCame' \in 0..TreeCalls
  BY DEF TreeInv, TreeTyped
<1>2. Alone(q, S!Idle)
  BY IdleTree DEF Alone
<1> QED
  BY <1>1, <1>2, IdleTree, PlainTree

\* A step of a request, its fields.
LEMMA CallIs ==
    ASSUME TreeInv, NEW q \in TreeRequests
    PROVE  /\ treeReq[q] \in TreeCall /\ CallKnows(treeReq[q]) /\ S!Live \subseteq Items
           /\ Alone(q, treeReq[q])
  BY DEF TreeInv, TreeTyped, Alone, CallsApart

\* What an excuse adds.
LEMMA Excuses ==
    ASSUME TreeInv, NEW i \in Items, NEW why,
           why \subseteq Whys, S!Excuse(i, why)
    PROVE  /\ ExcusesGrow /\ treeExcused'[i] = treeExcused[i] \cup why
           /\ treeExcused' \in [Items -> SUBSET Whys]
  BY DEF TreeInv, TreeTyped, S!Excuse, ExcusesGrow

LEMMA CheckTree ==
    ASSUME TreeBounds, TreeInv, NEW q \in TreeRequests, S!CheckParent(q)
    PROVE  TreeInv'
<1> PICK y : y = treeReq[q]
  OBVIOUS
<1>1. y \in TreeCall /\ CallKnows(y) /\ S!Live \subseteq Items /\ Alone(q, y) /\ y.at = "parent" /\ y.id \in Items
      /\ y.kind \in {"patch", "create"} /\ UNCHANGED <<item, ended, told, treeCame>>
  BY CallIs DEF S!CheckParent, CallKnows, Busy, Patching, Making, Wrote, Projecting
<1>2. \A j, f : ~ Teller(y, j, f)
  BY <1>1 DEF Teller, Wrote, Projecting
<1>3. treeExcused \in [Items -> SUBSET Whys]
      /\ treeCame \in 0..TreeCalls
  BY DEF TreeInv, TreeTyped
<1>4. CASE S!Set(q, S!Idle) /\ UNCHANGED treeExcused
  BY <1>1, <1>2, <1>3, <1>4, NoneGrow, RestTree
<1> PICK z : z = [y EXCEPT !.at = IF y.kind = "create" THEN "write" ELSE "before"]
  OBVIOUS
<1>5. /\ z \in TreeCall /\ z.id = y.id /\ z.kind = y.kind /\ z.patch = y.patch /\ z.saw = y.saw
      /\ z.at = IF y.kind = "create" THEN "write" ELSE "before"
  BY <1>1 DEF TreeCall
<1>6. ~ Projecting(z) /\ ~ Wrote(z) /\ Busy(z) /\ (Making(z) <=> Making(y)) /\ (Patching(z) <=> Patching(y)) /\ Busy(y)
  BY <1>1, <1>5 DEF Projecting, Wrote, Busy, Making, Patching
<1>7. Alone(q, z)
  BY <1>1, <1>5, <1>6 DEF Alone
<1>8. ASSUME EpicOpen(z) PROVE CallKnows(z)
  <2>1. SawRow(y) => SawRow(z)
    BY <1>5 DEF SawRow, S!MayMove
  <2>2. Patching(z) /\ z.id \notin Tasks => SawRow(z)
    BY <1>1, <1>5, <1>6, <2>1 DEF CallKnows
  <2>3. Making(z) => z.id \notin S!Live /\ z.id \notin ended
    BY <1>1, <1>5, <1>6 DEF CallKnows
  <2>4. Patching(z) \/ Making(z)
    BY <1>1, <1>5 DEF Patching, Making
  <2> QED
    BY <1>1, <1>5, <1>6, <1>8, <2>2, <2>3, <2>4 DEF CallKnows
<1>9. CASE S!Set(q, z) /\ UNCHANGED treeExcused /\ ~ S!Refuses(y.patch.parent)
  <2>1. EpicOpen(z)
    BY <1>5, <1>9 DEF EpicOpen, S!Refuses
  <2>2. CallKnows(z)'
    BY <1>1, <1>5, <1>8, <1>9, <2>1, NoneGrow, KnowsStays
  <2> QED
    BY <1>1, <1>2, <1>3, <1>5, <1>6, <1>7, <1>9, <2>2, NoneGrow, PlainTree
<1>10. CASE S!Set(q, z) /\ S!Excuse(y.id, {"unchecked"})
  <2>1. /\ ExcusesGrow /\ treeExcused'[y.id] = treeExcused[y.id] \cup {"unchecked"}
        /\ treeExcused' \in [Items -> SUBSET Whys]
    BY <1>1, <1>10, Excuses DEF Whys
  <2>2. EpicOpen(z)'
    BY <1>5, <2>1 DEF EpicOpen
  <2>3. CallKnows(y)'
    BY <1>1, <2>1, KnowsStays
  <2>4. CallKnows(z)'
    BY <1>5, <1>6, <2>2, <2>3, <1>1 DEF CallKnows, SawRow, Busy, Projecting, Wrote, Making, Patching
  <2> QED
    BY <1>1, <1>2, <1>3, <1>5, <1>6, <1>7, <1>10, <2>1, <2>4, PlainTree
<1> QED
  BY <1>4, <1>9, <1>10 DEF S!CheckParent, S!Go

LEMMA BeforeTree ==
    ASSUME TreeBounds, TreeInv, NEW q \in TreeRequests, S!ReadBefore(q)
    PROVE  TreeInv'
<1> PICK y : y = treeReq[q]
  OBVIOUS
<1>1. /\ y \in TreeCall /\ CallKnows(y) /\ S!Live \subseteq Items /\ Alone(q, y) /\ y.at = "before" /\ y.id \in Items
      /\ UNCHANGED <<item, ended, told, treeCame, treeExcused>>
  BY CallIs DEF S!ReadBefore, CallKnows, Busy, Patching, Making, Wrote, Projecting
<1>2. treeExcused' \in [Items -> SUBSET Whys]
      /\ treeCame' \in 0..TreeCalls
  BY <1>1 DEF TreeInv, TreeTyped
<1> PICK t : t = IF y.id \in S!Live THEN item[y.id].text ELSE y.saw.text
  OBVIOUS
<1>3. t \in 0..TreeCalls
  <2>1. y.saw \in S!Row /\ (y.id \in S!Live => item[y.id] \in S!Row)
    BY <1>1 DEF TreeCall, TreeInv, TreeTyped
  <2> QED
    BY <2>1 DEF S!Row
<1> PICK w : w = [y.saw EXCEPT !.text = t]
  OBVIOUS
<1>4. w \in S!Row /\ w.parent = y.saw.parent /\ w.status = y.saw.status /\ w.text = t
  <2>1. y.saw \in S!Row
    BY <1>1 DEF TreeCall
  <2> QED
    BY <1>3, <2>1 DEF S!Row
<1> PICK z : z = [y EXCEPT !.at = "write", !.saw = w]
  OBVIOUS
<1>5. /\ z \in TreeCall /\ z.id = y.id /\ z.kind = y.kind /\ z.patch = y.patch /\ z.saw = w /\ z.at = "write"
  BY <1>1, <1>4 DEF TreeCall
<1>6. S!Set(q, z)
  BY DEF S!ReadBefore
<1>7. /\ y.kind = "patch" /\ ~ Projecting(z) /\ ~ Wrote(z) /\ ~ Making(z) /\ Patching(z) /\ Patching(y) /\ Busy(z) /\ Busy(y)
  BY <1>1, <1>5 DEF Projecting, Wrote, Busy, Making, Patching, CallKnows
<1>8. CallKnows(z)
  <2>1. y.id \notin Tasks => SawRow(y) /\ EpicOpen(y)
    BY <1>1, <1>7 DEF CallKnows
  <2>2. y.id \notin Tasks => SawRow(z)
    BY <1>4, <1>5, <2>1 DEF SawRow, S!MayMove
  <2>3. y.id \notin Tasks => EpicOpen(z)
    BY <1>4, <1>5, <2>1 DEF EpicOpen
  <2> QED
    BY <1>1, <1>5, <1>7, <2>2, <2>3 DEF CallKnows
<1>9. Alone(q, z)
  BY <1>1, <1>5, <1>7 DEF Alone
<1>10. \A j, f : ~ Teller(y, j, f)
  BY <1>1 DEF Teller, Wrote, Projecting
<1>11. ExcusesGrow
  BY <1>1, NoneGrow
<1>12. CallKnows(z)'
  BY <1>1, <1>5, <1>8, <1>11, KnowsStays
<1> QED
  BY <1>1, <1>2, <1>5, <1>6, <1>7, <1>9, <1>10, <1>11, <1>12, PlainTree

LEMMA AfterTree ==
    ASSUME TreeBounds, TreeInv, NEW q \in TreeRequests, S!ReadAfter(q)
    PROVE  TreeInv'
<1> PICK y : y = treeReq[q]
  OBVIOUS
<1>1. /\ y \in TreeCall /\ CallKnows(y) /\ S!Live \subseteq Items /\ Alone(q, y) /\ y.at = "after" /\ y.id \in Items
      /\ UNCHANGED <<item, ended, told, treeCame, treeExcused>>
  BY CallIs DEF S!ReadAfter, CallKnows, Busy, Patching, Making, Wrote, Projecting
<1>2. treeExcused' \in [Items -> SUBSET Whys]
      /\ treeCame' \in 0..TreeCalls
  BY <1>1 DEF TreeInv, TreeTyped
<1> PICK t : t = IF y.id \in S!Live THEN item[y.id].text ELSE y.wrote.text
  OBVIOUS
<1>3. t \in 0..TreeCalls
  <2>1. y.wrote \in S!Row /\ (y.id \in S!Live => item[y.id] \in S!Row)
    BY <1>1 DEF TreeCall, TreeInv, TreeTyped
  <2> QED
    BY <2>1 DEF S!Row
<1> PICK w : w = [y.wrote EXCEPT !.text = t]
  OBVIOUS
<1>4. w \in S!Row /\ \A f \in S!Fields : w[f] = IF f = "text" THEN t ELSE y.wrote[f]
  <2>1. y.wrote \in S!Row
    BY <1>1 DEF TreeCall
  <2> QED
    BY <1>3, <2>1 DEF S!Row, S!Fields
<1> PICK z : z = [y EXCEPT !.at = "append", !.wrote = w]
  OBVIOUS
<1>5. /\ z \in TreeCall /\ z.id = y.id /\ z.kind = y.kind /\ z.patch = y.patch /\ z.saw = y.saw /\ z.at = "append"
      /\ z.wrote = w
  BY <1>1, <1>4 DEF TreeCall
<1>6. S!Set(q, z)
  BY DEF S!ReadAfter
<1>7. /\ ~ Projecting(z) /\ Wrote(z) /\ ~ Making(z) /\ ~ Patching(z) /\ Wrote(y) /\ ~ Projecting(y) /\ Busy(z) /\ Busy(y)
  BY <1>1, <1>5 DEF Projecting, Wrote, Busy, Making, Patching, CallKnows
<1>8. CallKnows(z)
  <2>1. WroteRow(y)
    BY <1>1, <1>7 DEF CallKnows
  <2>2. ASSUME y.id \in S!Live PROVE item[y.id]["text"] = t
    <3>1. item[y.id] \in S!Row
      BY <2>2 DEF TreeInv, TreeTyped
    <3> QED
      BY <2>2, <3>1 DEF S!Row
  <2>3. WroteRow(z)
    BY <1>4, <1>5, <2>1, <2>2 DEF WroteRow
  <2> QED
    BY <1>1, <1>5, <1>7, <2>3 DEF CallKnows
<1>9. Alone(q, z)
  BY <1>1, <1>5, <1>7 DEF Alone
<1>10. ExcusesGrow
  BY <1>1, NoneGrow
<1>11. ASSUME NEW i \in S!Live, NEW f \in FieldsOf(i), Teller(y, i, f) PROVE Teller(z, i, f) \/ Amiss(i, f)'
  <2>1. y.id = i /\ f \in TellsOf(y) /\ f \in S!Fields /\ i \in Items
    BY <1>1, <1>7, <1>11 DEF Teller, FieldsOf, S!Fields
  <2>2. CASE y.wrote[f] = item[i][f]
    <3>1. f = "text" => item[i][f] = t
      <4>1. item[i] \in S!Row
        BY DEF TreeInv, TreeTyped
      <4> QED
        BY <2>1, <4>1 DEF S!Row
    <3>2. w[f] = y.wrote[f]
      BY <1>4, <2>1, <2>2, <3>1
    <3>3. f \in TellsOf(z)
      BY <1>5, <2>1, <3>2 DEF TellsOf
    <3>4. Teller(z, i, f)
      BY <1>5, <1>7, <2>1, <3>3 DEF Teller
    <3> QED
      BY <3>4
  <2>3. CASE Amiss(i, f)
    BY <1>10, <2>1, <2>3, AmissStays
  <2> QED
    BY <1>1, <1>7, <2>1, <2>2, <2>3 DEF CallKnows, WroteRow
<1>12. CallKnows(z)'
  BY <1>1, <1>5, <1>8, <1>10, KnowsStays
<1> QED
  BY <1>1, <1>2, <1>5, <1>6, <1>7, <1>9, <1>10, <1>11, <1>12, PlainTree

-----------------------------------------------------------------------------
\* A write of one item.
LEMMA OverlapIs ==
    ASSUME TreeInv, NEW q \in TreeRequests, NEW i \in Items, S!Excuse(i, S!Overlap(q, i))
    PROVE  /\ ExcusesGrow
           /\ treeExcused' \in [Items -> SUBSET Whys]
           /\ \A r \in TreeRequests \ {q} : Busy(treeReq[r]) =>
                 /\ treeReq[r].id = i => "raced" \in treeExcused'[i]
                 /\ treeReq[r].patch.parent = i => "late" \in treeExcused'[i]
<1>1. S!Overlap(q, i) \subseteq {"raced", "late"}
  BY DEF S!Overlap
<1>2. S!Overlap(q, i) \subseteq Whys
  BY <1>1 DEF Whys
<1>3. /\ ExcusesGrow /\ treeExcused'[i] = treeExcused[i] \cup S!Overlap(q, i)
      /\ treeExcused' \in [Items -> SUBSET Whys]
  BY <1>2, Excuses
<1>4. ASSUME NEW r \in TreeRequests \ {q}, Busy(treeReq[r])
      PROVE  /\ treeReq[r].id = i => "raced" \in S!Overlap(q, i)
             /\ treeReq[r].patch.parent = i => "late" \in S!Overlap(q, i)
  BY <1>4 DEF S!Overlap, Busy
<1> QED
  BY <1>3, <1>4

\* What a patch makes of a row.
LEMMA PatchedIs ==
    ASSUME NEW r \in S!Row, NEW p \in TreePatch
    PROVE  /\ S!Patched(r, p).parent = IF p.parent = Keep THEN r.parent ELSE p.parent
           /\ S!Patched(r, p).status = IF p.status = Keep THEN r.status ELSE p.status
           /\ S!Patched(r, p).text = IF p.text = Keep THEN r.text ELSE p.text
           /\ S!Patched(r, p) \in S!Row
<1>1. /\ S!Patched(r, p).parent = IF p.parent = Keep THEN r.parent ELSE p.parent
      /\ S!Patched(r, p).status = IF p.status = Keep THEN r.status ELSE p.status
      /\ S!Patched(r, p).text = IF p.text = Keep THEN r.text ELSE p.text
      /\ S!Patched(r, p) = [parent |-> IF p.parent = Keep THEN r.parent ELSE p.parent,
                            status |-> IF p.status = Keep THEN r.status ELSE p.status,
                            text |-> IF p.text = Keep THEN r.text ELSE p.text]
  BY DEF S!Patched, S!Fields, S!Row, TreePatch
<1> QED
  BY <1>1 DEF S!Row, TreePatch

LEMMA RowFields ==
    ASSUME NEW r \in S!Row, NEW s \in S!Row
    PROVE  /\ r["parent"] = r.parent /\ r["status"] = r.status /\ r["text"] = r.text
           /\ r.parent \in Items \cup {NoItem} /\ r.status \in S!Statuses /\ r.text \in 0..TreeCalls
  BY DEF S!Row

\* A field of an item that a step leaves alone is told as before, but for what the request was
\* still to tell.
LEMMA OthersToTell ==
    ASSUME TreeInv, NEW q \in TreeRequests, NEW z, S!Set(q, z), ExcusesGrow, NEW i \in S!Live, NEW f \in FieldsOf(i),
           told'[i][f] = told[i][f], item'[i][f] = item[i][f], ~ Teller(treeReq[q], i, f)
    PROVE  (told[i][f] = item[i][f] \/ Amiss(i, f) \/ \E r \in TreeRequests : Teller(treeReq[r], i, f))'
<1>1. treeReq \in [TreeRequests -> TreeCall] /\ treeReq' = [treeReq EXCEPT ![q] = z]
  BY DEF TreeInv, TreeTyped, S!Set
<1>2. \A r \in TreeRequests : r # q => treeReq'[r] = treeReq[r]
  BY <1>1
<1>3. i \in Items
  BY DEF TreeInv, TreeTyped
<1>4. CASE told[i][f] = item[i][f]
  BY <1>4
<1>5. CASE Amiss(i, f)
  BY <1>3, <1>5, AmissStays
<1>6. ASSUME NEW r \in TreeRequests, Teller(treeReq[r], i, f)
      PROVE  \E t \in TreeRequests : Teller(treeReq'[t], i, f)
  BY <1>2, <1>6
<1>7. ASSUME NEW t \in TreeRequests, Teller(treeReq'[t], i, f) PROVE Teller(treeReq[t], i, f)'
  BY <1>7 DEF Teller, Wrote, Projecting, TellsOf, S!Fields
<1> QED
  BY <1>4, <1>5, <1>6, <1>7 DEF TreeInv, ToldOrToCome

\* What nobody is about to tell is told, or amiss.
LEMMA LastTold ==
    ASSUME TreeInv, NEW q \in TreeRequests, NEW i \in S!Live, NEW f \in FieldsOf(i), ~ Teller(treeReq[q], i, f),
           \A r \in TreeRequests \ {q} : Busy(treeReq[r]) => treeReq[r].id # i
    PROVE  told[i][f] = item[i][f] \/ Amiss(i, f)
<1>1. ASSUME NEW r \in TreeRequests, Teller(treeReq[r], i, f) PROVE FALSE
  BY <1>1 DEF Teller, Wrote, Projecting, Busy
<1> QED
  BY <1>1 DEF TreeInv, ToldOrToCome

\* What a request that writes a row knows, and what it does.
LEMMA WriteIs ==
    ASSUME TreeBounds, TreeInv, NEW q \in TreeRequests, S!Write(q), NEW y, y = treeReq[q]
    PROVE  /\ y \in TreeCall /\ CallKnows(y) /\ y.at = "write" /\ y.kind = "patch" /\ y.id \in Items
           /\ S!Live \subseteq Items /\ Patching(y) /\ Busy(y) /\ ~ Wrote(y) /\ ~ Projecting(y) /\ ~ Making(y)
           /\ UNCHANGED <<ended, told, treeCame>>
           /\ \/ S!Set(q, S!Idle) /\ UNCHANGED <<item, treeExcused>>
              \/ /\ y.id \in S!Live
                 /\ \E new \in S!Row : \E z \in TreeCall :
                      /\ new = S!Patched(item[y.id], y.patch) /\ new.parent \in S!Live \cup {NoItem}
                      /\ item' = [item EXCEPT ![y.id] = new]
                      /\ S!Set(q, z) /\ z.at = "after" /\ z.id = y.id /\ z.kind = "patch" /\ z.saw = y.saw /\ z.wrote = new
                 /\ S!Excuse(y.id, S!Overlap(q, y.id))
<1>1. /\ y \in TreeCall /\ CallKnows(y) /\ y.at = "write" /\ y.kind = "patch" /\ y.id \in Items
      /\ S!Live \subseteq Items /\ Patching(y) /\ Busy(y) /\ ~ Wrote(y) /\ ~ Projecting(y) /\ ~ Making(y)
      /\ UNCHANGED <<ended, told, treeCame>>
  BY CallIs DEF S!Write, CallKnows, Busy, Patching, Making, Wrote, Projecting
<1>2. CASE S!Set(q, S!Idle) /\ UNCHANGED <<item, treeExcused>>
  BY <1>1, <1>2
<1>3. CASE y.id \in S!Live /\ S!ParentThere(S!Patched(item[y.id], y.patch).parent)
  <2> PICK new : new = S!Patched(item[y.id], y.patch)
    OBVIOUS
  <2>1. item[y.id] \in S!Row /\ y.patch \in TreePatch
    BY <1>1, <1>3 DEF TreeInv, TreeTyped, TreeCall
  <2>2. new \in S!Row
    BY <2>1, PatchedIs
  <2>3. new.parent \in S!Live \cup {NoItem}
    BY <1>3 DEF S!ParentThere
  <2> PICK z : z = [y EXCEPT !.at = "after", !.wrote = new]
    OBVIOUS
  <2>4. z \in TreeCall /\ z.at = "after" /\ z.id = y.id /\ z.kind = "patch" /\ z.saw = y.saw /\ z.wrote = new
    BY <1>1, <2>2 DEF TreeCall
  <2>5. item' = [item EXCEPT ![y.id] = new] /\ S!Set(q, z) /\ S!Excuse(y.id, S!Overlap(q, y.id))
    BY <1>3 DEF S!Write
  <2> QED
    BY <1>1, <1>3, <2>2, <2>3, <2>4, <2>5
<1> QED
  BY <1>2, <1>3 DEF S!Write

LEMMA WriteTree ==
    ASSUME TreeBounds, TreeInv, NEW q \in TreeRequests, S!Write(q)
    PROVE  TreeInv'
<1> PICK y : y = treeReq[q]
  OBVIOUS
<1>1. /\ y \in TreeCall /\ CallKnows(y) /\ y.at = "write" /\ y.kind = "patch" /\ y.id \in Items
      /\ S!Live \subseteq Items /\ Patching(y) /\ Busy(y) /\ ~ Wrote(y) /\ ~ Projecting(y) /\ ~ Making(y)
      /\ UNCHANGED <<ended, told, treeCame>>
  BY WriteIs
<1>2. \A j, f : ~ Teller(y, j, f)
  BY <1>1 DEF Teller
<1>3. CASE S!Set(q, S!Idle) /\ UNCHANGED <<item, treeExcused>>
  <2>1. treeExcused' \in [Items -> SUBSET Whys]
    BY <1>3 DEF TreeInv, TreeTyped
  <2> QED
    BY <1>1, <1>2, <1>3, <2>1, NoneGrow, RestTree
<1>4. ASSUME y.id \in S!Live, NEW new \in S!Row, NEW z \in TreeCall, new = S!Patched(item[y.id], y.patch),
             new.parent \in S!Live \cup {NoItem}, item' = [item EXCEPT ![y.id] = new],
             S!Set(q, z), z.at = "after", z.id = y.id, z.kind = "patch", z.saw = y.saw, z.wrote = new,
             S!Excuse(y.id, S!Overlap(q, y.id))
      PROVE  TreeInv'
  <2>1. /\ ExcusesGrow
        /\ treeExcused' \in [Items -> SUBSET Whys]
        /\ \A r \in TreeRequests \ {q} : Busy(treeReq[r]) =>
              /\ treeReq[r].id = y.id => "raced" \in treeExcused'[y.id]
              /\ treeReq[r].patch.parent = y.id => "late" \in treeExcused'[y.id]
    BY <1>1, <1>4, OverlapIs
  <2>2. item \in [S!Live -> S!Row]
    BY DEF TreeInv, TreeTyped
  <2>3. /\ DOMAIN item' = S!Live /\ item'[y.id] = new /\ \A j \in S!Live : j # y.id => item'[j] = item[j]
        /\ item' \in [S!Live -> S!Row]
    BY <1>4, <2>2
  <2>4. TreeTyped'
    <3>1. treeReq' \in [TreeRequests -> TreeCall]
      BY <1>4 DEF TreeInv, TreeTyped, S!Set
    <3>2. \A j \in S!Live : item'[j].parent \in S!Live \cup {NoItem}
      BY <1>4, <2>3 DEF TreeInv, TreeTyped
    <3> QED
      BY <1>1, <2>1, <2>3, <3>1, <3>2 DEF TreeInv, TreeTyped, S!Live, S!Row, S!Statuses
  <2>5. ItemsMove(q)
    BY <1>1, <2>1, <2>3 DEF ItemsMove
  <2>6. LedgerMoves(q)
    BY <1>1 DEF LedgerMoves
  <2>7. Wrote(z) /\ ~ Making(z) /\ ~ Patching(z) /\ ~ Projecting(z) /\ Busy(z)
    BY <1>4 DEF Wrote, Making, Patching, Projecting, Busy
  <2>8. CallKnows(z)'
    <3>1. WroteRow(z)'
      BY <1>4, <2>3 DEF WroteRow
    <3> QED
      BY <1>1, <1>4, <2>7, <3>1 DEF CallKnows, Wrote, Making, Patching, Projecting, Busy
  <2>9. ASSUME NEW r \in TreeRequests \ {q} PROVE CallsApart(z, treeReq[r])' /\ CallsApart(treeReq[r], z)'
    <3> PICK x : x = treeReq[r]
      OBVIOUS
    <3>1. CallsApart(x, y)
      BY DEF TreeInv
    <3>2. treeReq'[r] = x
      BY <1>4 DEF TreeInv, TreeTyped, S!Set
    <3>3. CallsApart(z, x)'
      BY <2>7 DEF CallsApart, Making, Projecting
    <3>4. Projecting(x) => Busy(x)
      BY DEF Projecting, Busy
    <3>5. (Making(x) /\ Busy(z) => z.id # x.id)'
      BY <1>1, <1>4, <3>1 DEF CallsApart, Making, Busy
    <3>6. (Projecting(x) /\ Wrote(z) /\ z.id = x.id /\ x.id \in S!Live => "raced" \in treeExcused[x.id])'
      BY <1>4, <2>1, <3>4 DEF Projecting, Wrote
    <3>7. CallsApart(x, z)'
      BY <3>5, <3>6 DEF CallsApart
    <3> QED
      BY <3>2, <3>3, <3>7
  <2>10. ToldOrToCome'
    <3> SUFFICES ASSUME NEW i \in S!Live, NEW f \in FieldsOf(i)
                 PROVE  (told[i][f] = item[i][f] \/ Amiss(i, f) \/ \E r \in TreeRequests : Teller(treeReq[r], i, f))'
      BY <2>3 DEF ToldOrToCome, S!Live, FieldsOf, S!Fields
    <3>1. CASE i # y.id
      BY <1>1, <1>2, <1>4, <2>1, <2>3, <3>1, OthersToTell
    <3>2. CASE i = y.id /\ "raced" \in treeExcused'[i]
      BY <3>2 DEF Amiss
    <3>3. CASE i = y.id /\ "raced" \notin treeExcused'[i]
      <4>1. told[i][f] = item[i][f] \/ Amiss(i, f)
        BY <1>2, <2>1, <3>3, LastTold
      <4>2. CASE Amiss(i, f)
        BY <1>1, <2>1, <3>3, <4>2, AmissStays
      <4>3. CASE f \in TellsOf(z)
        <5>1. Teller(z, i, f)
          BY <1>4, <2>7, <3>3, <4>3 DEF Teller
        <5>2. Teller(z, i, f)'
          BY <5>1 DEF Teller, Wrote, Projecting, TellsOf, S!Fields
        <5>3. treeReq'[q] = z
          BY <1>4 DEF TreeInv, TreeTyped, S!Set
        <5> QED
          BY <5>2, <5>3
      <4>4. CASE told[i][f] = item[i][f] /\ f \notin TellsOf(z)
        <5>1. i \notin Tasks /\ f \in S!Fields /\ y.saw[f] = new[f]
          BY <1>4, <3>3, <4>4 DEF TellsOf, FieldsOf, S!Fields
        <5>2. SawRow(y) /\ "raced" \notin treeExcused[i]
          BY <1>1, <2>1, <3>3, <5>1 DEF CallKnows, ExcusesGrow
        <5>3. y.saw \in S!Row /\ item[i] \in S!Row
          BY <1>1, <2>2 DEF TreeCall
        <5>4. /\ y.saw["parent"] = y.saw.parent /\ y.saw["status"] = y.saw.status /\ y.saw["text"] = y.saw.text
              /\ item[i]["parent"] = item[i].parent /\ item[i]["status"] = item[i].status /\ item[i]["text"] = item[i].text
          BY <5>3, RowFields
        <5>5. CASE y.saw[f] = item[i][f]
          BY <1>1, <2>3, <3>3, <4>4, <5>1, <5>5
        <5>6. CASE f = "parent" /\ "orphaned" \in treeExcused[i]
          <6>1. "orphaned" \in treeExcused'[i]
            BY <1>1, <2>1, <3>3, <5>6 DEF ExcusesGrow
          <6> QED
            BY <5>6, <6>1 DEF Amiss
        <5> QED
          BY <3>3, <5>1, <5>2, <5>4, <5>5, <5>6 DEF SawRow, S!Fields
      <4> QED
        BY <4>1, <4>2, <4>3, <4>4
    <3> QED
      BY <3>1, <3>2, <3>3
  <2> QED
    BY <1>4, <2>1, <2>4, <2>5, <2>6, <2>8, <2>9, <2>10, TreeStep
<1> QED
  BY <1>3, <1>4, WriteIs

LEMMA InsertIs ==
    ASSUME TreeBounds, TreeInv, NEW q \in TreeRequests, S!Insert(q), NEW y, y = treeReq[q]
    PROVE  /\ y \in TreeCall /\ CallKnows(y) /\ y.at = "write" /\ y.kind = "create" /\ y.id \in Items
           /\ S!Live \subseteq Items /\ Making(y) /\ Busy(y) /\ ~ Wrote(y) /\ ~ Projecting(y) /\ ~ Patching(y)
           /\ y.id \notin S!Live /\ y.id \notin ended
           /\ UNCHANGED <<ended, told, treeCame, treeExcused>>
           /\ \/ S!Set(q, S!Idle) /\ UNCHANGED item
              \/ \E new \in S!Row : \E z \in TreeCall :
                      /\ new.parent = (IF y.patch.parent = Keep THEN NoItem ELSE y.patch.parent)
                      /\ new.parent \in S!Live \cup {NoItem}
                      /\ item' = [j \in S!Live \cup {y.id} |-> IF j = y.id THEN new ELSE item[j]]
                      /\ S!Set(q, z) /\ z.at = "append" /\ z.id = y.id /\ z.kind = "create" /\ z.wrote = new
<1>1. /\ y \in TreeCall /\ CallKnows(y) /\ y.at = "write" /\ y.kind = "create" /\ y.id \in Items
      /\ S!Live \subseteq Items /\ Making(y) /\ Busy(y) /\ ~ Wrote(y) /\ ~ Projecting(y) /\ ~ Patching(y)
      /\ UNCHANGED <<ended, told, treeCame, treeExcused>>
  BY CallIs DEF S!Insert, CallKnows, Busy, Patching, Making, Wrote, Projecting
<1>2. y.id \notin S!Live /\ y.id \notin ended
  BY <1>1 DEF CallKnows
<1>3. CASE S!Set(q, S!Idle) /\ UNCHANGED item
  BY <1>1, <1>2, <1>3
<1> PICK base : base = [S!NewRow EXCEPT !.status = "initial"]
  OBVIOUS
<1> PICK new : new = S!Patched(base, y.patch)
  OBVIOUS
<1>4. CASE S!ParentThere(new.parent) /\ ~ (y.id \in Tasks /\ new.parent \in Tasks)
  <2>1. base \in S!Row /\ base.parent = NoItem /\ base.status = "initial"
    BY DEF S!NewRow, S!Row, S!Statuses, TreeBounds
  <2>6. y.patch \in TreePatch
    BY <1>1 DEF TreeCall
  <2>2. /\ new \in S!Row /\ new.parent = (IF y.patch.parent = Keep THEN NoItem ELSE y.patch.parent)
    BY <1>2, <2>1, <2>6, PatchedIs
  <2>3. new.parent \in S!Live \cup {NoItem}
    BY <1>4 DEF S!ParentThere
  <2> PICK z : z = [y EXCEPT !.at = "append", !.wrote = new]
    OBVIOUS
  <2>4. z \in TreeCall /\ z.at = "append" /\ z.id = y.id /\ z.kind = "create" /\ z.wrote = new
    BY <1>1, <2>2 DEF TreeCall
  <2>5. item' = [j \in S!Live \cup {y.id} |-> IF j = y.id THEN new ELSE item[j]] /\ S!Set(q, z)
    BY <1>4 DEF S!Insert
  <2> QED
    BY <1>1, <1>2, <2>2, <2>3, <2>4, <2>5
<1> QED
  BY <1>3, <1>4 DEF S!Insert

LEMMA InsertTree ==
    ASSUME TreeBounds, TreeInv, NEW q \in TreeRequests, S!Insert(q)
    PROVE  TreeInv'
<1> PICK y : y = treeReq[q]
  OBVIOUS
<1>1. /\ y \in TreeCall /\ CallKnows(y) /\ y.at = "write" /\ y.kind = "create" /\ y.id \in Items
      /\ S!Live \subseteq Items /\ Making(y) /\ Busy(y) /\ ~ Wrote(y) /\ ~ Projecting(y) /\ ~ Patching(y)
      /\ y.id \notin S!Live /\ y.id \notin ended
      /\ UNCHANGED <<ended, told, treeCame, treeExcused>>
  BY InsertIs
<1>2. \A j, f : ~ Teller(y, j, f)
  BY <1>1 DEF Teller
<1>3. ExcusesGrow
      /\ treeExcused' \in [Items -> SUBSET Whys]
  BY <1>1, NoneGrow DEF TreeInv, TreeTyped
<1>4. CASE S!Set(q, S!Idle) /\ UNCHANGED item
  BY <1>1, <1>2, <1>3, <1>4, RestTree
<1>5. ASSUME NEW new \in S!Row, NEW z \in TreeCall, new.parent \in S!Live \cup {NoItem},
             item' = [j \in S!Live \cup {y.id} |-> IF j = y.id THEN new ELSE item[j]],
             S!Set(q, z), z.at = "append", z.id = y.id, z.kind = "create", z.wrote = new
      PROVE  TreeInv'
  <2>1. /\ DOMAIN item' = S!Live \cup {y.id} /\ item'[y.id] = new /\ \A j \in S!Live : item'[j] = item[j]
        /\ item' \in [S!Live \cup {y.id} -> S!Row]
    BY <1>1, <1>5 DEF TreeInv, TreeTyped
  <2>2. treeReq' \in [TreeRequests -> TreeCall] /\ treeReq'[q] = z
        /\ \A r \in TreeRequests : r # q => treeReq'[r] = treeReq[r]
    BY <1>5 DEF TreeInv, TreeTyped, S!Set
  <2>3. TreeTyped'
    <3>1. \A j \in DOMAIN item' : item'[j].parent \in (DOMAIN item') \cup {NoItem}
      BY <1>5, <2>1 DEF TreeInv, TreeTyped
    <3>2. (DOMAIN item') \cap ended = {}
      BY <1>1, <2>1 DEF TreeInv, TreeTyped
    <3> QED
      BY <1>1, <1>3, <2>1, <2>2, <3>1, <3>2 DEF TreeInv, TreeTyped, S!Live, S!Row, S!Statuses
  <2>4. Alone(q, y)
    BY CallIs
  <2>5. ItemsMove(q)
    <3>1. ASSUME NEW r \in TreeRequests, Patching(treeReq[r]) \/ Making(treeReq[r])
          PROVE  treeReq[r].patch.parent # y.id
      <4>1. S!Named(treeReq[r].patch.parent)
        BY <3>1 DEF TreeInv, CallKnows
      <4> QED
        BY <1>1, <4>1 DEF S!Named, TreeBounds
    <3> QED
      BY <1>1, <1>5, <2>1, <2>4, <3>1 DEF ItemsMove, Alone
  <2>6. LedgerMoves(q)
    BY <1>1 DEF LedgerMoves
  <2>7. Wrote(z) /\ ~ Making(z) /\ ~ Patching(z) /\ ~ Projecting(z) /\ Busy(z)
    BY <1>5 DEF Wrote, Making, Patching, Projecting, Busy
  <2>8. CallKnows(z)'
    <3>1. WroteRow(z)'
      BY <1>5, <2>1 DEF WroteRow
    <3> QED
      BY <1>1, <1>5, <2>7, <3>1 DEF CallKnows, Wrote, Making, Patching, Projecting, Busy
  <2>9. ASSUME NEW r \in TreeRequests \ {q} PROVE CallsApart(z, treeReq[r])' /\ CallsApart(treeReq[r], z)'
    <3> PICK x : x = treeReq[r]
      OBVIOUS
    <3>1. Busy(x) => x.id # y.id
      BY <1>1, <2>4 DEF Alone
    <3>2. treeReq'[r] = x
      BY <2>2
    <3>3. CallsApart(z, x)'
      BY <2>7 DEF CallsApart, Making, Projecting
    <3>4. (Making(x) \/ Projecting(x)) => Busy(x)
      BY DEF Making, Projecting, Busy
    <3>5. CallsApart(x, z)'
      BY <1>5, <3>1, <3>4 DEF CallsApart, Making, Projecting
    <3> QED
      BY <3>2, <3>3, <3>5
  <2>10. ToldOrToCome'
    <3> SUFFICES ASSUME NEW i \in S!Live \cup {y.id}, NEW f \in FieldsOf(i)
                 PROVE  (told[i][f] = item[i][f] \/ Amiss(i, f) \/ \E r \in TreeRequests : Teller(treeReq[r], i, f))'
      BY <2>1 DEF ToldOrToCome, S!Live, FieldsOf, S!Fields
    <3>1. CASE i # y.id
      BY <1>1, <1>2, <1>3, <1>5, <2>1, <3>1, OthersToTell
    <3>2. CASE i = y.id
      <4>1. f \in TellsOf(z)
        BY <1>5, <3>2 DEF TellsOf, FieldsOf
      <4>2. Teller(z, i, f)
        BY <1>5, <2>7, <3>2, <4>1 DEF Teller
      <4>3. Teller(z, i, f)'
        BY <4>2 DEF Teller, Wrote, Projecting, TellsOf, S!Fields
      <4> QED
        BY <2>2, <4>3
    <3> QED
      BY <3>1, <3>2
  <2> QED
    BY <1>3, <1>5, <2>3, <2>5, <2>6, <2>8, <2>9, <2>10, TreeStep
<1> QED
  BY <1>4, <1>5, InsertIs

\* A row of the ledger that tells some fields of an item.
LEMMA ToldIs ==
    ASSUME TreeInv, NEW i \in Items, NEW fs, NEW t \in S!Row, NEW w,
           w = [f \in S!Fields |-> IF f \in fs THEN t[f] ELSE told[i][f]], told' = [told EXCEPT ![i] = w]
    PROVE  /\ told' \in [Items -> S!Row]
           /\ \A j \in Items : j # i => told'[j] = told[j]
           /\ \A f \in S!Fields : told'[i][f] = IF f \in fs THEN t[f] ELSE told[i][f]
<1>1. told \in [Items -> S!Row]
  BY DEF TreeInv, TreeTyped
<1>2. told[i] \in S!Row
  BY <1>1
<1>3. \A f \in S!Fields : w[f] = t[f] \/ w[f] = told[i][f]
  OBVIOUS
<1>4. w["parent"] \in Items \cup {NoItem} /\ w["status"] \in S!Statuses /\ w["text"] \in 0..TreeCalls
  BY <1>2, <1>3, RowFields DEF S!Fields
<1>5. w = [parent |-> w["parent"], status |-> w["status"], text |-> w["text"]]
  BY DEF S!Fields
<1>6. w \in S!Row
  BY <1>4, <1>5 DEF S!Row
<1> QED
  BY <1>1, <1>6

LEMMA FinishTree ==
    ASSUME TreeBounds, TreeInv, NEW q \in TreeRequests, S!Finish(q)
    PROVE  TreeInv'
<1> PICK y : y = treeReq[q]
  OBVIOUS
<1>1. /\ y \in TreeCall /\ CallKnows(y) /\ S!Live \subseteq Items /\ Alone(q, y) /\ y.at = "append" /\ y.id \in Items
      /\ S!Set(q, S!Idle) /\ UNCHANGED <<item, ended, treeCame>>
  BY CallIs DEF S!Finish, CallKnows, Busy, Patching, Making, Wrote, Projecting
<1>2. Wrote(y) /\ ~ Projecting(y) /\ Busy(y) /\ S!Tells(q) = TellsOf(y)
  BY <1>1 DEF S!Tells, TellsOf, CallKnows, Busy, Patching, Making, Wrote, Projecting
<1>3. \A i, f : Teller(y, i, f) => y.id = i /\ f \in TellsOf(y)
  BY <1>2 DEF Teller
<1>4. treeExcused \in [Items -> SUBSET Whys]
  BY DEF TreeInv, TreeTyped
<1>5. CASE TellsOf(y) = {} /\ UNCHANGED <<told, treeExcused>>
  BY <1>1, <1>3, <1>4, <1>5, NoneGrow, RestTree
<1>6. CASE S!Excuse(y.id, {"lost"}) /\ UNCHANGED told
  <2>1. /\ ExcusesGrow /\ treeExcused'[y.id] = treeExcused[y.id] \cup {"lost"}
        /\ treeExcused' \in [Items -> SUBSET Whys]
    BY <1>1, <1>6, Excuses DEF Whys
  <2>2. \A f : Amiss(y.id, f)'
    BY <2>1 DEF Amiss
  <2> QED
    BY <1>1, <1>3, <1>6, <2>1, <2>2, RestTree
<1>7. CASE S!Told(y.id, TellsOf(y), y.wrote) /\ UNCHANGED treeExcused
  <2>1. TellsOf(y) \in SUBSET S!Fields /\ y.wrote \in S!Row
    BY <1>1 DEF TellsOf, S!Fields, TreeCall
  <2>2. /\ told' \in [Items -> S!Row]
        /\ \A j \in Items : j # y.id => told'[j] = told[j]
        /\ \A f \in S!Fields : told'[y.id][f] = IF f \in TellsOf(y) THEN y.wrote[f] ELSE told[y.id][f]
    <3> PICK t : t = y.wrote
      OBVIOUS
    <3> PICK fs : fs = TellsOf(y)
      OBVIOUS
    <3> PICK i : i = y.id
      OBVIOUS
    <3> PICK w : w = [f \in S!Fields |-> IF f \in fs THEN t[f] ELSE told[i][f]]
      OBVIOUS
    <3>1. told' = [told EXCEPT ![i] = w] /\ t \in S!Row /\ i \in Items
      BY <1>1, <1>7, <2>1 DEF S!Told
    <3>2. /\ told' \in [Items -> S!Row]
          /\ \A j \in Items : j # i => told'[j] = told[j]
          /\ \A f \in S!Fields : told'[i][f] = IF f \in fs THEN t[f] ELSE told[i][f]
      BY ONLY TreeInv, <3>1, w = [f \in S!Fields |-> IF f \in fs THEN t[f] ELSE told[i][f]], ToldIs
    <3> QED
      BY <3>2
  <2>3. treeReq' \in [TreeRequests -> TreeCall] /\ treeReq'[q] = S!Idle
        /\ \A r \in TreeRequests : r # q => treeReq'[r] = treeReq[r]
    BY <1>1, IdleTree DEF TreeInv, TreeTyped, S!Set
  <2>4. TreeTyped'
    BY <1>1, <1>4, <1>7, <2>2, <2>3 DEF TreeInv, TreeTyped, S!Live, S!Row, S!Statuses
  <2>5. ItemsMove(q)
    BY <1>1 DEF ItemsMove, S!Live
  <2>6. ExcusesGrow
    BY <1>7, NoneGrow
  <2>7. LedgerMoves(q)
    <3> SUFFICES ASSUME NEW i \in S!Live, told'[i] # told[i], NEW r \in TreeRequests \ {q}, Projecting(treeReq[r]), treeReq[r].id = i
                 PROVE  "raced" \in treeExcused'[i]
      BY DEF LedgerMoves
    <3>1. i = y.id
      BY <1>1, <2>2
    <3>2. CallsApart(treeReq[r], y)
      BY DEF TreeInv
    <3> QED
      BY <1>2, <1>7, <3>1, <3>2 DEF CallsApart
  <2>8. ASSUME NEW r \in TreeRequests \ {q} PROVE CallsApart(S!Idle, treeReq[r])' /\ CallsApart(treeReq[r], S!Idle)'
    BY IdleTree DEF CallsApart, Making, Projecting, Busy, Wrote
  <2>9. ToldOrToCome'
    <3> SUFFICES ASSUME NEW i \in S!Live, NEW f \in FieldsOf(i)
                 PROVE  (told[i][f] = item[i][f] \/ Amiss(i, f) \/ \E r \in TreeRequests : Teller(treeReq[r], i, f))'
      BY <1>1 DEF ToldOrToCome, S!Live, FieldsOf, S!Fields
    <3>1. f \in S!Fields /\ i \in Items /\ item'[i][f] = item[i][f]
      BY <1>1 DEF FieldsOf, S!Fields
    <3>2. CASE i # y.id \/ f \notin TellsOf(y)
      <4>1. told'[i][f] = told[i][f]
        BY <2>2, <3>1, <3>2
      <4> QED
        BY <1>1, <1>3, <2>6, <3>1, <3>2, <4>1, OthersToTell
    <3>3. CASE i = y.id /\ f \in TellsOf(y)
      <4>1. told'[i][f] = y.wrote[f]
        BY <2>2, <3>1, <3>3
      <4>2. y.wrote[f] = item[i][f] \/ Amiss(i, f)
        BY <1>1, <1>2, <3>1, <3>3 DEF CallKnows, WroteRow
      <4> QED
        BY <2>6, <3>1, <4>1, <4>2, AmissStays
    <3> QED
      BY <3>2, <3>3
  <2> QED
    BY <1>1, <2>4, <2>5, <2>6, <2>7, <2>8, <2>9, IdleTree, TreeStep
<1> QED
  BY <1>2, <1>5, <1>6, <1>7 DEF S!Finish

LEMMA TransitionTree ==
    ASSUME TreeBounds, TreeInv, NEW q \in TreeRequests, S!Transition(q)
    PROVE  TreeInv'
<1>1. PICK i \in S!Live, s \in {"started", "terminal"} :
        /\ S!Told(i, {"status"}, [status |-> s])
        /\ S!Set(q, [S!Idle EXCEPT !.at = "project", !.kind = "transition", !.id = i, !.patch = [@ EXCEPT !.status = s]])
        /\ S!Excuse(i, S!Overlap(q, i))
  BY DEF S!Transition
<1>2. ~ Busy(treeReq[q]) /\ UNCHANGED <<item, ended>> /\ S!Live \subseteq Items /\ i \in Items /\ S!Come
  BY DEF S!Transition, Busy, TreeInv, TreeTyped
<1>3. \A j, f : ~ Teller(treeReq[q], j, f)
  BY <1>2 DEF Teller, Busy, Wrote, Projecting
<1>4. /\ ExcusesGrow
      /\ treeExcused' \in [Items -> SUBSET Whys]
      /\ \A r \in TreeRequests \ {q} : Busy(treeReq[r]) =>
            /\ treeReq[r].id = i => "raced" \in treeExcused'[i]
            /\ treeReq[r].patch.parent = i => "late" \in treeExcused'[i]
  BY <1>1, <1>2, OverlapIs
<1>5. treeCame' \in 0..TreeCalls
  BY <1>2 DEF S!Come, TreeInv, TreeTyped, TreeBounds
<1>6. /\ told' \in [Items -> S!Row]
      /\ \A j \in Items : j # i => told'[j] = told[j]
      /\ \A f \in S!Fields : told'[i][f] = IF f = "status" THEN s ELSE told[i][f]
  <2> PICK t : t = [parent |-> NoItem, status |-> s, text |-> 0]
    OBVIOUS
  <2>1. t \in S!Row /\ t["status"] = s
    BY <1>1 DEF S!Row, S!Statuses, TreeBounds
  <2> PICK w : w = [f \in S!Fields |-> IF f \in {"status"} THEN t[f] ELSE told[i][f]]
    OBVIOUS
  <2>2. w = [f \in S!Fields |-> IF f \in {"status"} THEN [status |-> s][f] ELSE told[i][f]]
    BY <2>1
  <2>3. told' = [told EXCEPT ![i] = w]
    BY <1>1, <2>2 DEF S!Told
  <2> QED
    BY <1>2, <2>1, <2>3, ToldIs
<1> PICK z : z = [S!Idle EXCEPT !.at = "project", !.kind = "transition", !.id = i, !.patch = [@ EXCEPT !.status = s]]
  OBVIOUS
<1>8. /\ z \in TreeCall /\ z.at = "project" /\ z.kind = "transition" /\ z.id = i
      /\ z.patch.parent = Keep /\ z.patch.text = Keep /\ z.patch.status = s
  <2> PICK p : p = [S!Idle.patch EXCEPT !.status = s]
    OBVIOUS
  <2>1. S!Idle.patch = [parent |-> Keep, status |-> Keep, text |-> Keep]
    BY DEF S!Idle
  <2>2. p \in TreePatch /\ p.parent = Keep /\ p.text = Keep /\ p.status = s
    BY <1>1, <2>1 DEF TreePatch, S!Statuses
  <2>3. z = [S!Idle EXCEPT !.at = "project", !.kind = "transition", !.id = i, !.patch = p]
    OBVIOUS
  <2> QED
    BY <1>2, <2>2, <2>3, IdleTree DEF TreeCall
<1>9. S!Set(q, z)
  BY <1>1
<1>10. Projecting(z) /\ ~ Wrote(z) /\ ~ Making(z) /\ ~ Patching(z) /\ Busy(z)
  BY <1>8 DEF Projecting, Wrote, Making, Patching, Busy
<1>11. treeReq' \in [TreeRequests -> TreeCall] /\ treeReq'[q] = z
       /\ \A r \in TreeRequests : r # q => treeReq'[r] = treeReq[r]
  BY <1>8, <1>9 DEF TreeInv, TreeTyped, S!Set
<1>12. TreeTyped'
  BY <1>2, <1>4, <1>5, <1>6, <1>11 DEF TreeInv, TreeTyped, S!Live, S!Row, S!Statuses
<1>13. ItemsMove(q)
  BY <1>2 DEF ItemsMove, S!Live
<1>14. LedgerMoves(q)
  BY <1>2, <1>4, <1>6 DEF LedgerMoves, Projecting, Busy
<1>15. CallKnows(z)'
  <2>1. s # Keep
    BY <1>1 DEF TreeBounds, S!Statuses
  <2>2. told'[i]["status"] = s
    BY <1>6 DEF S!Fields
  <2>3. ToldStatus(z)'
    BY <1>8, <2>1, <2>2 DEF ToldStatus
  <2> QED
    BY <1>2, <1>8, <1>10, <2>3 DEF CallKnows, Projecting, Wrote, Making, Patching, Busy
<1>16. ASSUME NEW r \in TreeRequests \ {q} PROVE CallsApart(z, treeReq[r])' /\ CallsApart(treeReq[r], z)'
  <2> PICK x : x = treeReq[r]
    OBVIOUS
  <2>1. CallKnows(x) /\ treeReq'[r] = x
    BY <1>11 DEF TreeInv
  <2>2. Making(x) => x.id # i
    BY <2>1 DEF CallKnows
  <2>3. Wrote(x) => Busy(x)
    BY DEF Wrote, Busy
  <2>4. (Projecting(z) /\ Wrote(x) /\ x.id = z.id /\ z.id \in S!Live => "raced" \in treeExcused[z.id])'
    BY <1>4, <1>8, <2>3 DEF Wrote
  <2>5. CallsApart(z, x)'
    BY <1>10, <2>4 DEF CallsApart, Making
  <2>6. CallsApart(x, z)'
    BY <1>8, <1>10, <2>2 DEF CallsApart, Making, Wrote
  <2> QED
    BY <2>1, <2>5, <2>6
<1>17. ToldOrToCome'
  <2> SUFFICES ASSUME NEW j \in S!Live, NEW f \in FieldsOf(j)
               PROVE  (told[j][f] = item[j][f] \/ Amiss(j, f) \/ \E r \in TreeRequests : Teller(treeReq[r], j, f))'
    BY <1>2 DEF ToldOrToCome, S!Live, FieldsOf, S!Fields
  <2>1. f \in S!Fields /\ j \in Items /\ item'[j][f] = item[j][f]
    BY <1>2 DEF FieldsOf, S!Fields
  <2>2. CASE j # i \/ f # "status"
    <3>1. told'[j][f] = told[j][f]
      BY <1>6, <2>1, <2>2
    <3> QED
      BY <1>3, <1>4, <1>9, <2>1, <3>1, OthersToTell
  <2>3. CASE j = i /\ f = "status"
    <3>1. Teller(z, j, f)
      BY <1>8, <1>10, <2>3 DEF Teller
    <3>2. Teller(z, j, f)'
      BY <3>1 DEF Teller, Wrote, Projecting, TellsOf, S!Fields
    <3> QED
      BY <1>11, <3>2
  <2> QED
    BY <2>2, <2>3
<1> QED
  BY <1>4, <1>8, <1>9, <1>12, <1>13, <1>14, <1>15, <1>16, <1>17, TreeStep

LEMMA ProjectIs ==
    ASSUME TreeBounds, TreeInv, NEW q \in TreeRequests, S!Project(q), NEW y, y = treeReq[q]
    PROVE  /\ y \in TreeCall /\ CallKnows(y) /\ Projecting(y) /\ Busy(y) /\ ~ Wrote(y) /\ y.id \in Items
           /\ S!Set(q, S!Idle) /\ S!Live \subseteq Items /\ UNCHANGED <<ended, told, treeCame>>
           /\ \/ y.id \notin S!Live /\ UNCHANGED <<item, treeExcused>>
              \/ S!Excuse(y.id, {"unprojected"}) /\ UNCHANGED item
              \/ /\ y.id \in S!Live
                 /\ \E new \in S!Row :
                      /\ new.parent = item[y.id].parent /\ new.status = y.patch.status /\ new.text = item[y.id].text
                      /\ item' = [item EXCEPT ![y.id] = new]
                 /\ S!Excuse(y.id, S!Overlap(q, y.id))
<1>1. /\ y \in TreeCall /\ CallKnows(y) /\ S!Live \subseteq Items /\ y.at = "project" /\ y.id \in Items
      /\ S!Set(q, S!Idle) /\ UNCHANGED <<ended, told, treeCame>>
  BY CallIs DEF S!Project, CallKnows, Busy
<1>2. Projecting(y) /\ Busy(y) /\ ~ Wrote(y)
  BY <1>1 DEF CallKnows, Busy, Patching, Making, Wrote, Projecting
<1>3. CASE y.id \notin S!Live /\ UNCHANGED <<item, treeExcused>>
  BY <1>1, <1>2, <1>3
<1>4. CASE S!Excuse(y.id, {"unprojected"}) /\ UNCHANGED item
  BY <1>1, <1>2, <1>4
<1>5. CASE y.id \in S!Live /\ item' = [item EXCEPT ![y.id] = S!Patched(@, y.patch)] /\ S!Excuse(y.id, S!Overlap(q, y.id))
  <2> PICK new : new = S!Patched(item[y.id], y.patch)
    OBVIOUS
  <2>1. item[y.id] \in S!Row /\ y.patch \in TreePatch
    BY <1>1, <1>5 DEF TreeInv, TreeTyped, TreeCall
  <2>2. y.patch.parent = Keep /\ y.patch.text = Keep /\ y.patch.status # Keep
    BY <1>1, <1>2 DEF CallKnows, ToldStatus
  <2>3. new \in S!Row /\ new.parent = item[y.id].parent /\ new.status = y.patch.status /\ new.text = item[y.id].text
    BY <2>1, <2>2, PatchedIs
  <2>4. item' = [item EXCEPT ![y.id] = new]
    BY <1>5
  <2> QED
    BY <1>1, <1>2, <1>5, <2>3, <2>4
<1> QED
  BY <1>3, <1>4, <1>5 DEF S!Project

LEMMA ProjectTree ==
    ASSUME TreeBounds, TreeInv, NEW q \in TreeRequests, S!Project(q)
    PROVE  TreeInv'
<1> PICK y : y = treeReq[q]
  OBVIOUS
<1>1. /\ y \in TreeCall /\ CallKnows(y) /\ Projecting(y) /\ Busy(y) /\ ~ Wrote(y) /\ y.id \in Items
      /\ S!Set(q, S!Idle) /\ S!Live \subseteq Items /\ UNCHANGED <<ended, told, treeCame>>
  BY ProjectIs
<1>2. \A i, f : Teller(y, i, f) => y.id = i /\ f = "status"
  BY <1>1 DEF Teller
<1>3. treeExcused \in [Items -> SUBSET Whys]
  BY DEF TreeInv, TreeTyped
<1>4. CASE y.id \notin S!Live /\ UNCHANGED <<item, treeExcused>>
  BY <1>1, <1>2, <1>3, <1>4, NoneGrow, RestTree
<1>5. CASE S!Excuse(y.id, {"unprojected"}) /\ UNCHANGED item
  <2>1. /\ ExcusesGrow /\ treeExcused'[y.id] = treeExcused[y.id] \cup {"unprojected"}
        /\ treeExcused' \in [Items -> SUBSET Whys]
    BY <1>1, <1>5, Excuses DEF Whys
  <2>2. Amiss(y.id, "status")'
    BY <2>1 DEF Amiss
  <2> QED
    BY <1>1, <1>2, <1>5, <2>1, <2>2, RestTree
<1>6. ASSUME y.id \in S!Live, NEW new \in S!Row, new.parent = item[y.id].parent, new.status = y.patch.status,
             new.text = item[y.id].text, item' = [item EXCEPT ![y.id] = new], S!Excuse(y.id, S!Overlap(q, y.id))
      PROVE  TreeInv'
  <2>1. /\ ExcusesGrow
        /\ treeExcused' \in [Items -> SUBSET Whys]
        /\ \A r \in TreeRequests \ {q} : Busy(treeReq[r]) =>
              /\ treeReq[r].id = y.id => "raced" \in treeExcused'[y.id]
              /\ treeReq[r].patch.parent = y.id => "late" \in treeExcused'[y.id]
    BY <1>1, <1>6, OverlapIs
  <2>2. item \in [S!Live -> S!Row]
    BY DEF TreeInv, TreeTyped
  <2>3. /\ DOMAIN item' = S!Live /\ item'[y.id] = new /\ \A j \in S!Live : j # y.id => item'[j] = item[j]
        /\ item' \in [S!Live -> S!Row]
    BY <1>6, <2>2
  <2>4. treeReq' \in [TreeRequests -> TreeCall] /\ treeReq'[q] = S!Idle
        /\ \A r \in TreeRequests : r # q => treeReq'[r] = treeReq[r]
    BY <1>1, IdleTree DEF TreeInv, TreeTyped, S!Set
  <2>5. TreeTyped'
    <3>1. \A j \in S!Live : item'[j].parent \in S!Live \cup {NoItem}
      BY <1>6, <2>3 DEF TreeInv, TreeTyped
    <3> QED
      BY <1>1, <2>1, <2>3, <2>4, <3>1 DEF TreeInv, TreeTyped, S!Live, S!Row, S!Statuses
  <2>6. ItemsMove(q)
    BY <1>1, <2>1, <2>3 DEF ItemsMove
  <2>7. LedgerMoves(q)
    BY <1>1 DEF LedgerMoves
  <2>8. ASSUME NEW r \in TreeRequests \ {q} PROVE CallsApart(S!Idle, treeReq[r])' /\ CallsApart(treeReq[r], S!Idle)'
    BY IdleTree DEF CallsApart, Making, Projecting, Busy, Wrote
  <2>9. ToldOrToCome'
    <3> SUFFICES ASSUME NEW i \in S!Live, NEW f \in FieldsOf(i)
                 PROVE  (told[i][f] = item[i][f] \/ Amiss(i, f) \/ \E r \in TreeRequests : Teller(treeReq[r], i, f))'
      BY <2>3 DEF ToldOrToCome, S!Live, FieldsOf, S!Fields
    <3>1. CASE i # y.id
      BY <1>1, <1>2, <2>1, <2>3, <3>1, OthersToTell
    <3>2. item[i] \in S!Row /\ f \in S!Fields
      BY <2>2 DEF FieldsOf, S!Fields
    <3>3. CASE i = y.id /\ f = "status"
      <4>1. item'[i]["status"] = y.patch.status
        BY <1>6, <2>3, <3>3, RowFields
      <4>2. told[i]["status"] = y.patch.status \/ "raced" \in treeExcused[i]
        BY <1>1, <3>3 DEF CallKnows, ToldStatus
      <4>3. "raced" \in treeExcused[i] => Amiss(i, f)'
        BY <1>1, <2>1, <3>3 DEF ExcusesGrow, Amiss
      <4> QED
        BY <1>1, <3>3, <4>1, <4>2, <4>3
    <3>4. CASE i = y.id /\ f # "status"
      <4>1. item'[i][f] = item[i][f]
        BY <1>6, <2>3, <3>2, <3>4, RowFields DEF S!Fields
      <4> QED
        BY <1>1, <1>2, <2>1, <3>4, <4>1, OthersToTell
    <3> QED
      BY <3>1, <3>3, <3>4
  <2> QED
    BY <1>1, <2>1, <2>5, <2>6, <2>7, <2>8, <2>9, IdleTree, TreeStep
<1> QED
  BY <1>4, <1>5, <1>6, ProjectIs

\* A removal of an item keeps what every request knows.
LEMMA RemovalKeeps ==
    ASSUME TreeInv, TreeTyped', treeReq' = treeReq, ExcusesGrow, ended \subseteq ended',
           DOMAIN item' \subseteq S!Live,
           ended' \subseteq ended \cup S!Live, S!Live \subseteq (DOMAIN item') \cup ended', told' = told,
           \A j \in DOMAIN item' : j \notin Tasks =>
               /\ item'[j].status = item[j].status /\ item'[j].text = item[j].text
               /\ \/ item'[j].parent = item[j].parent
                  \/ "orphaned" \in treeExcused'[j] /\ item[j].parent \in ended',
           \A j \in DOMAIN item' : item'[j].status = "terminal" => item[j].status = "terminal",
           \A j \in DOMAIN item' : \A f \in S!Fields : item'[j][f] = item[j][f] \/ Amiss(j, f)'
    PROVE  TreeInv'
<1>1. ASSUME NEW q \in TreeRequests PROVE CallKnows(treeReq[q])'
  <2> PICK y : y = treeReq[q]
    OBVIOUS
  <2>1. y \in TreeCall /\ CallKnows(y) /\ S!Live \subseteq Items /\ (Busy(y) => y.id \in Items)
    BY DEF TreeInv, TreeTyped, CallKnows
  <2>2. (Busy(y) => y.id \in Items /\ (Patching(y) \/ Making(y) \/ Wrote(y) \/ Projecting(y)))'
    BY <2>1 DEF CallKnows, Busy, Patching, Making, Wrote, Projecting
  <2>3. (Patching(y) /\ y.id \notin Tasks => SawRow(y))'
    <3> SUFFICES ASSUME Patching(y), y.id \notin Tasks PROVE SawRow(y)'
      BY DEF Patching
    <3>1. SawRow(y) /\ Busy(y) /\ y.id \in Items
      BY <2>1 DEF CallKnows, Busy, Patching
    <3>2. CASE y.id \notin DOMAIN item'
      BY <3>1, <3>2 DEF SawRow, S!MayMove, S!Live
    <3>3. CASE y.id \in DOMAIN item'
      BY <3>1, <3>3 DEF SawRow, S!MayMove, S!Live, ExcusesGrow
    <3> QED
      BY <3>2, <3>3
  <2>4. (y.kind \in {"patch", "create"} /\ y.at \in {"before", "write"} /\ y.id \notin Tasks => EpicOpen(y))'
    <3> SUFFICES ASSUME y.kind \in {"patch", "create"}, y.at \in {"before", "write"}, y.id \notin Tasks PROVE EpicOpen(y)'
      OBVIOUS
    <3>1. EpicOpen(y) /\ Busy(y) /\ y.id \in Items
      BY <2>1 DEF CallKnows, Busy
    <3> QED
      BY <2>1, <3>1 DEF EpicOpen, S!Live, ExcusesGrow
  <2>5. (Making(y) => y.id \notin S!Live /\ y.id \notin ended)'
    BY <2>1 DEF CallKnows, Making, S!Live
  <2>6. (Wrote(y) => WroteRow(y))'
    <3> SUFFICES ASSUME Wrote(y), y.id \in DOMAIN item', NEW f \in S!Fields
                 PROVE  y.wrote[f] = item'[y.id][f] \/ Amiss(y.id, f)'
      BY DEF Wrote, WroteRow, S!Live, S!Fields
    <3>1. Busy(y) /\ y.id \in S!Live /\ y.id \in Items
      BY <2>1 DEF Wrote, Busy
    <3>2. y.wrote[f] = item[y.id][f] \/ Amiss(y.id, f)
      BY <2>1, <3>1 DEF CallKnows, WroteRow
    <3> QED
      BY <3>1, <3>2, AmissStays
  <2>7. (Projecting(y) => ToldStatus(y))'
    <3>1. Projecting(y) => Busy(y)
      BY DEF Projecting, Busy
    <3> QED
      BY <2>1, <3>1 DEF CallKnows, ToldStatus, Projecting, S!Live, ExcusesGrow
  <2>8. CallKnows(y)'
    <3>1. (Patching(y) \/ Making(y) => S!Named(y.patch.parent))'
      BY <2>1 DEF CallKnows, Patching, Making, S!Named, S!Live
    <3> QED
      BY <2>2, <2>3, <2>4, <2>5, <2>6, <2>7, <3>1 DEF CallKnows
  <2> QED
    BY <2>8
<1>2. ASSUME NEW q \in TreeRequests, NEW r \in TreeRequests, q # r PROVE CallsApart(treeReq[q], treeReq[r])'
  <2>1. CallsApart(treeReq[q], treeReq[r]) /\ CallKnows(treeReq[q])
    BY <1>2 DEF TreeInv
  <2> PICK y : y = treeReq[q]
    OBVIOUS
  <2> PICK z : z = treeReq[r]
    OBVIOUS
  <2>2. (Making(y) /\ Busy(z) => z.id # y.id)'
    BY <2>1 DEF CallsApart, Making, Busy
  <2>3. ASSUME Projecting(y), Wrote(z), z.id = y.id, y.id \in DOMAIN item' PROVE "raced" \in treeExcused'[y.id]
    BY <2>1, <2>3 DEF CallsApart, CallKnows, Busy, Projecting, ExcusesGrow
  <2>4. (Projecting(y) /\ Wrote(z) /\ z.id = y.id /\ y.id \in S!Live => "raced" \in treeExcused[y.id])'
    BY <2>3 DEF Projecting, Wrote, S!Live
  <2>5. CallsApart(y, z)'
    BY <2>2, <2>4 DEF CallsApart
  <2> QED
    BY <2>5
<1>3. ToldOrToCome'
  <2> SUFFICES ASSUME NEW i \in DOMAIN item', NEW f \in FieldsOf(i)
               PROVE  (told[i][f] = item[i][f] \/ Amiss(i, f) \/ \E r \in TreeRequests : Teller(treeReq[r], i, f))'
    BY DEF ToldOrToCome, S!Live, FieldsOf, S!Fields
  <2>1. i \in S!Live /\ i \in Items /\ f \in S!Fields
    BY DEF TreeInv, TreeTyped, FieldsOf, S!Fields
  <2>2. CASE Amiss(i, f)'
    BY <2>2
  <2>3. CASE item'[i][f] = item[i][f] /\ told[i][f] = item[i][f]
    BY <2>3
  <2>4. CASE Amiss(i, f)
    BY <2>1, <2>4, AmissStays
  <2>5. ASSUME NEW r \in TreeRequests, Teller(treeReq[r], i, f) PROVE Teller(treeReq[r], i, f)'
    BY <2>5 DEF Teller, Wrote, Projecting, TellsOf, S!Fields
  <2> QED
    BY <2>1, <2>2, <2>3, <2>4, <2>5 DEF TreeInv, ToldOrToCome
<1> QED
  BY <1>1, <1>2, <1>3 DEF TreeInv

\* Removing a story, and what it does to the stories and tasks under it.
OrphansOf(i) ==
    /\ i \in S!Live \ Tasks
    /\ item' = [j \in S!Live \ {i} |-> IF item[j].parent = i THEN [item[j] EXCEPT !.parent = NoItem] ELSE item[j]]
    /\ ended' = ended \cup {i}
    /\ \A j \in Items : treeExcused'[j] = IF j \in S!Live /\ item[j].parent = i THEN treeExcused[j] \cup {"orphaned"}
                                          ELSE treeExcused[j]
    /\ treeExcused' \in [Items -> SUBSET Whys]

\* Marking a task.
MarksTask(i) ==
    /\ i \in S!Live \cap Tasks
    /\ item' = [item EXCEPT ![i].status = "deleted"]
    /\ ended' = ended
    /\ S!Excuse(i, {"deleted"})

LEMMA DeleteIs ==
    ASSUME TreeInv, S!Delete
    PROVE  /\ told' = told /\ treeReq' = treeReq /\ S!Come
           /\ \E i \in S!Live : MarksTask(i) \/ OrphansOf(i)
<1>1. PICK i \in S!Live :
          IF i \in Tasks
          THEN /\ item' = [item EXCEPT ![i].status = "deleted"]
               /\ S!Excuse(i, {"deleted"})
               /\ UNCHANGED ended
          ELSE LET kids == {j \in S!Live : item[j].parent = i}
               IN  /\ item' = [j \in S!Live \ {i} |-> IF j \in kids THEN [item[j] EXCEPT !.parent = NoItem] ELSE item[j]]
                   /\ ended' = ended \cup {i}
                   /\ treeExcused' = [j \in Items |-> IF j \in kids THEN treeExcused[j] \cup {"orphaned"} ELSE treeExcused[j]]
  BY DEF S!Delete
<1>2. told' = told /\ treeReq' = treeReq /\ S!Come
  BY DEF S!Delete
<1>3. CASE i \in Tasks
  BY <1>1, <1>2, <1>3 DEF MarksTask
<1>4. CASE i \notin Tasks
  <2>1. /\ item' = [j \in S!Live \ {i} |-> IF item[j].parent = i THEN [item[j] EXCEPT !.parent = NoItem] ELSE item[j]]
        /\ ended' = ended \cup {i}
        /\ treeExcused' = [j \in Items |-> IF j \in S!Live /\ item[j].parent = i THEN treeExcused[j] \cup {"orphaned"} ELSE treeExcused[j]]
    BY <1>1, <1>4
  <2>2. OrphansOf(i)
    BY <1>4, <2>1 DEF OrphansOf, TreeInv, TreeTyped, Whys
  <2> QED
    BY <1>2, <2>2
<1> QED
  BY <1>3, <1>4

LEMMA OrphanRow ==
    ASSUME NEW r \in S!Row
    PROVE  LET o == [r EXCEPT !.parent = NoItem]
           IN  /\ o \in S!Row /\ o.parent = NoItem /\ o.status = r.status /\ o.text = r.text
               /\ o["status"] = r["status"] /\ o["text"] = r["text"]
  BY DEF S!Row

LEMMA MarkedRow ==
    ASSUME NEW r \in S!Row
    PROVE  LET o == [r EXCEPT !.status = "deleted"]
           IN  /\ o \in S!Row /\ o.parent = r.parent /\ o.status = "deleted" /\ o.text = r.text
               /\ o["parent"] = r["parent"] /\ o["text"] = r["text"]
  BY DEF S!Row, S!Statuses

LEMMA DeleteTree ==
    ASSUME TreeBounds, TreeInv, S!Delete
    PROVE  TreeInv'
<1>1. told' = told /\ treeReq' = treeReq /\ S!Come
  BY DeleteIs
<1>2. treeCame' \in 0..TreeCalls
  BY <1>1 DEF S!Come, TreeInv, TreeTyped, TreeBounds
<1>3. item \in [S!Live -> S!Row] /\ S!Live \subseteq Items
  BY DEF TreeInv, TreeTyped
<1>4. ASSUME NEW i \in S!Live, MarksTask(i) PROVE TreeInv'
  <2> PICK o : o = [item[i] EXCEPT !.status = "deleted"]
    OBVIOUS
  <2>1. /\ o \in S!Row /\ o.parent = item[i].parent /\ o.status = "deleted" /\ o.text = item[i].text
        /\ o["parent"] = item[i]["parent"] /\ o["text"] = item[i]["text"]
    BY <1>3, MarkedRow
  <2>2. item' = [item EXCEPT ![i] = o] /\ ended' = ended /\ i \in Tasks /\ i \in Items
    BY <1>3, <1>4 DEF MarksTask
  <2>3. /\ DOMAIN item' = S!Live /\ item'[i] = o /\ \A j \in S!Live : j # i => item'[j] = item[j]
        /\ item' \in [S!Live -> S!Row]
    BY <1>3, <2>1, <2>2
  <2>4. /\ ExcusesGrow /\ treeExcused'[i] = treeExcused[i] \cup {"deleted"}
        /\ treeExcused' \in [Items -> SUBSET Whys]
    BY <1>4, <2>2, Excuses DEF MarksTask, Whys
  <2>5. TreeTyped'
    <3>1. \A j \in S!Live : item'[j].parent \in S!Live \cup {NoItem}
      BY <2>1, <2>3 DEF TreeInv, TreeTyped
    <3> QED
      BY <1>1, <1>2, <2>2, <2>3, <2>4, <3>1 DEF TreeInv, TreeTyped, S!Live, S!Row, S!Statuses
  <2>6. \A j \in DOMAIN item' : \A f \in S!Fields : item'[j][f] = item[j][f] \/ Amiss(j, f)'
    BY <2>1, <2>3, <2>4 DEF S!Fields, Amiss
  <2>7. \A j \in DOMAIN item' : j \notin Tasks => item'[j] = item[j]
    BY <2>2, <2>3
  <2>8. \A j \in DOMAIN item' : item'[j].status = "terminal" => item[j].status = "terminal"
    BY <2>1, <2>3
  <2> QED
    BY <1>1, <2>2, <2>3, <2>4, <2>5, <2>6, <2>7, <2>8, RemovalKeeps
<1>5. ASSUME NEW i \in S!Live, OrphansOf(i) PROVE TreeInv'
  <2>1. DOMAIN item' = S!Live \ {i} /\ ended' = ended \cup {i} /\ i \in Items
    BY <1>3, <1>5 DEF OrphansOf
  <2>2. ASSUME NEW j \in S!Live \ {i}, item[j].parent = i
        PROVE  /\ item'[j] \in S!Row /\ item'[j].parent = NoItem /\ item'[j].status = item[j].status
               /\ item'[j].text = item[j].text /\ item'[j]["status"] = item[j]["status"]
               /\ item'[j]["text"] = item[j]["text"] /\ "orphaned" \in treeExcused'[j]
    <3> PICK o : o = [item[j] EXCEPT !.parent = NoItem]
      OBVIOUS
    <3>1. /\ o \in S!Row /\ o.parent = NoItem /\ o.status = item[j].status /\ o.text = item[j].text
          /\ o["status"] = item[j]["status"] /\ o["text"] = item[j]["text"]
      BY <1>3, OrphanRow
    <3>2. item'[j] = o /\ "orphaned" \in treeExcused'[j]
      BY <1>3, <1>5, <2>2 DEF OrphansOf
    <3> QED
      BY <3>1, <3>2
  <2>3. ASSUME NEW j \in S!Live \ {i}, item[j].parent # i PROVE item'[j] = item[j]
    BY <1>5, <2>3 DEF OrphansOf
  <2>4. ExcusesGrow
    BY <1>5 DEF OrphansOf, ExcusesGrow
  <2>5. TreeTyped'
    <3>1. \A j \in DOMAIN item' : item'[j] \in S!Row
      BY <1>3, <2>1, <2>2, <2>3
    <3>2. item' \in [DOMAIN item' -> S!Row]
      BY <1>5, <3>1 DEF OrphansOf
    <3>3. \A j \in DOMAIN item' : item'[j].parent \in (DOMAIN item') \cup {NoItem}
      BY <2>1, <2>2, <2>3 DEF TreeInv, TreeTyped
    <3>4. (DOMAIN item') \cap ended' = {} /\ ended' \subseteq Items
      BY <2>1 DEF TreeInv, TreeTyped
    <3>5. treeExcused' \in [Items -> SUBSET Whys]
      BY <1>5 DEF OrphansOf
    <3> QED
      BY <1>1, <1>2, <1>3, <2>1, <3>2, <3>3, <3>4, <3>5 DEF TreeInv, TreeTyped, S!Live, S!Row, S!Statuses
  <2>6. \A j \in DOMAIN item' : \A f \in S!Fields : item'[j][f] = item[j][f] \/ Amiss(j, f)'
    BY <2>1, <2>2, <2>3 DEF S!Fields, Amiss
  <2>7. \A j \in DOMAIN item' : j \notin Tasks =>
               /\ item'[j].status = item[j].status /\ item'[j].text = item[j].text
               /\ \/ item'[j].parent = item[j].parent
                  \/ "orphaned" \in treeExcused'[j] /\ item[j].parent \in ended'
    BY <2>1, <2>2, <2>3
  <2>8. \A j \in DOMAIN item' : item'[j].status = "terminal" => item[j].status = "terminal"
    BY <2>1, <2>2, <2>3
  <2> QED
    BY <1>1, <2>1, <2>4, <2>5, <2>6, <2>7, <2>8, RemovalKeeps
<1> QED
  BY <1>4, <1>5, DeleteIs

LEMMA TreeBegins == ASSUME TreeBounds, S!Init PROVE TreeInv
<1>1. PICK W \in SUBSET Items :
        item \in [W -> [parent : (W \ Tasks) \cup {NoItem}, status : S!Statuses \ {"deleted"}, text : {0}]]
  BY DEF S!Init
<1>2. S!Live = W
  BY <1>1 DEF S!Live
<1>3. item \in [S!Live -> S!Row] /\ S!Live \subseteq Items /\ \A i \in S!Live : item[i].parent \in S!Live \cup {NoItem}
  <2>1. ASSUME NEW i \in W PROVE item[i] \in S!Row /\ item[i].parent \in W \cup {NoItem}
    BY <1>1 DEF S!Row, S!Statuses, TreeBounds
  <2> QED
    BY <1>1, <1>2, <2>1
<1>4. S!NewRow \in S!Row
  BY DEF S!NewRow, S!Row, S!Statuses, TreeBounds
<1>5. told \in [Items -> S!Row] /\ \A i \in S!Live : told[i] = item[i]
  BY <1>3, <1>4 DEF S!Init
<1>6. treeReq \in [TreeRequests -> TreeCall] /\ \A q \in TreeRequests : treeReq[q] = S!Idle
  BY IdleTree DEF S!Init
<1>7. /\ ended = {} /\ treeCame \in 0..TreeCalls
      /\ treeExcused \in [Items -> SUBSET Whys]
  BY DEF S!Init, TreeBounds
<1>8. TreeTyped
  BY <1>3, <1>5, <1>6, <1>7 DEF TreeTyped
<1>9. \A q \in TreeRequests : ~ Busy(treeReq[q]) /\ ~ Making(treeReq[q]) /\ ~ Projecting(treeReq[q])
        /\ treeReq[q].kind = "" /\ ~ Wrote(treeReq[q]) /\ ~ Patching(treeReq[q])
  <2>1. S!Idle.kind = "" /\ ~ Patching(S!Idle)
    BY DEF S!Idle, Patching
  <2> QED
    BY <1>6, <2>1, IdleTree
<1>10. (\A q \in TreeRequests : CallKnows(treeReq[q]))
       /\ (\A q, r \in TreeRequests : q # r => CallsApart(treeReq[q], treeReq[r]))
  BY <1>9 DEF CallKnows, CallsApart
<1>11. ToldOrToCome
  BY <1>5 DEF ToldOrToCome
<1> QED
  BY <1>8, <1>10, <1>11 DEF TreeInv

LEMMA TreeRests ==
    ASSUME TreeInv, UNCHANGED S!treeVars
    PROVE  TreeInv'
  BY DEF S!treeVars, TreeInv, TreeTyped, S!Live, S!Row, S!Statuses, CallKnows, CallsApart, ToldOrToCome, FieldsOf,
     S!Fields, Amiss, Teller, TellsOf, Wrote, Projecting, Making, Patching, Busy, SawRow, WroteRow, ToldStatus, EpicOpen,
     S!MayMove, S!Named

LEMMA TreeKept ==
    ASSUME TreeBounds, TreeInv, [S!Next]_(S!treeVars)
    PROVE  TreeInv'
<1>1. CASE UNCHANGED S!treeVars
  BY <1>1, TreeRests
<1>2. ASSUME NEW q \in TreeRequests,
             \/ S!LookAt(q) \/ S!Create(q) \/ S!CheckParent(q) \/ S!ReadBefore(q) \/ S!Write(q)
             \/ S!Insert(q) \/ S!ReadAfter(q) \/ S!Finish(q) \/ S!Transition(q) \/ S!Project(q)
      PROVE  TreeInv'
  BY <1>2, LookTree, CreateTree, CheckTree, BeforeTree, WriteTree, InsertTree, AfterTree, FinishTree, TransitionTree,
     ProjectTree
<1>3. CASE S!Delete
  BY <1>3, DeleteTree
<1> QED
  BY <1>1, <1>2, <1>3 DEF S!Next

\* What moves a story from under its epic, and what puts one under an epic.
FrozenStep ==
    \A i \in S!Live \ Tasks :
          i \in DOMAIN item' /\ item'[i].parent # item[i].parent /\ item[i].status # "initial" =>
              item[i].parent \in ended' \/ "raced" \in treeExcused'[i]
ClosedStep ==
    \A i \in S!Stories \cap DOMAIN item' :
          LET p == item'[i].parent
          IN  p \in S!Live /\ item[p].status = "terminal" /\ (i \in S!Live => item[i].parent # p) =>
                  "late" \in treeExcused'[p] \/ {"unchecked", "raced"} \cap treeExcused'[i] # {}

LEMMA SameParents ==
    ASSUME S!Live \subseteq DOMAIN item', DOMAIN item' \subseteq S!Live, \A i \in S!Live : item'[i].parent = item[i].parent
    PROVE  FrozenStep /\ ClosedStep
  BY DEF FrozenStep, ClosedStep

LEMMA WriteMoves ==
    ASSUME TreeBounds, TreeInv, NEW q \in TreeRequests, S!Write(q)
    PROVE  FrozenStep /\ ClosedStep
<1> PICK y : y = treeReq[q]
  OBVIOUS
<1>1. /\ y \in TreeCall /\ CallKnows(y) /\ y.at = "write" /\ y.kind = "patch" /\ y.id \in Items /\ Patching(y)
  BY WriteIs
<1>2. CASE UNCHANGED item
  BY <1>2, SameParents DEF S!Live
<1>3. ASSUME y.id \in S!Live, NEW new \in S!Row, new = S!Patched(item[y.id], y.patch),
             new.parent \in S!Live \cup {NoItem}, item' = [item EXCEPT ![y.id] = new],
             S!Excuse(y.id, S!Overlap(q, y.id))
      PROVE  FrozenStep /\ ClosedStep
  <2>1. ExcusesGrow
    BY <1>1, <1>3, OverlapIs
  <2>2. /\ item \in [S!Live -> S!Row] /\ S!Live \cap ended = {} /\ ended \subseteq Items /\ S!Live \subseteq Items
        /\ NoItem \notin Items
    BY DEF TreeInv, TreeTyped, TreeBounds
  <2>3. DOMAIN item' = S!Live /\ item'[y.id] = new /\ \A j \in S!Live : j # y.id => item'[j] = item[j]
    BY <1>3, <2>2
  <2>4. new.parent = IF y.patch.parent = Keep THEN item[y.id].parent ELSE y.patch.parent
    <3>1. item[y.id] \in S!Row /\ y.patch \in TreePatch
      BY <1>1, <1>3, <2>2 DEF TreeCall
    <3> QED
      BY <1>3, <3>1, PatchedIs
  <2>5. CASE y.id \in Tasks \/ new.parent = item[y.id].parent
    BY <2>3, <2>5 DEF FrozenStep, ClosedStep, S!Stories
  <2>6. CASE y.id \notin Tasks /\ new.parent # item[y.id].parent /\ "raced" \in treeExcused[y.id]
    <3>1. "raced" \in treeExcused'[y.id]
      BY <1>1, <2>1, <2>6 DEF ExcusesGrow
    <3> QED
      BY <2>3, <3>1 DEF FrozenStep, ClosedStep
  <2>7. CASE y.id \notin Tasks /\ new.parent # item[y.id].parent /\ "raced" \notin treeExcused[y.id]
    <3>1. SawRow(y) /\ EpicOpen(y) /\ y.patch.parent = new.parent /\ y.patch.parent # Keep
      BY <1>1, <2>4, <2>7 DEF CallKnows
    <3>2. /\ y.saw.status = item[y.id].status
          /\ y.saw.parent = item[y.id].parent \/ y.saw.parent \in ended
      BY <1>3, <2>7, <3>1 DEF SawRow
    <3>3. y.patch.parent # y.saw.parent
      BY <1>3, <2>2, <2>7, <3>1, <3>2
    <3>4. item[y.id].status = "initial"
      BY <3>1, <3>2, <3>3 DEF SawRow, S!MayMove
    <3>5. FrozenStep
      BY <2>3, <3>4 DEF FrozenStep
    <3>6. new.parent \in S!Live /\ item[new.parent].status = "terminal" =>
             "late" \in treeExcused[new.parent] \/ "unchecked" \in treeExcused[y.id]
      BY <3>1, <3>3 DEF EpicOpen
    <3>7. new.parent \in S!Live /\ item[new.parent].status = "terminal" =>
             "late" \in treeExcused'[new.parent] \/ "unchecked" \in treeExcused'[y.id]
      BY <1>1, <2>1, <2>2, <3>6 DEF ExcusesGrow
    <3>8. ClosedStep
      BY <2>3, <3>7 DEF ClosedStep
    <3> QED
      BY <3>5, <3>8
  <2> QED
    BY <2>5, <2>6, <2>7
<1> QED
  BY <1>2, <1>3, WriteIs

LEMMA InsertMoves ==
    ASSUME TreeBounds, TreeInv, NEW q \in TreeRequests, S!Insert(q)
    PROVE  FrozenStep /\ ClosedStep
<1> PICK y : y = treeReq[q]
  OBVIOUS
<1>1. /\ CallKnows(y) /\ y.at = "write" /\ y.kind = "create" /\ y.id \notin S!Live /\ UNCHANGED treeExcused
      /\ S!Live \subseteq Items /\ NoItem \notin Items
  BY InsertIs DEF TreeBounds
<1>2. CASE UNCHANGED item
  BY <1>2, SameParents DEF S!Live
<1>3. ASSUME NEW new \in S!Row, new.parent = (IF y.patch.parent = Keep THEN NoItem ELSE y.patch.parent),
             item' = [j \in S!Live \cup {y.id} |-> IF j = y.id THEN new ELSE item[j]]
      PROVE  FrozenStep /\ ClosedStep
  <2>1. DOMAIN item' = S!Live \cup {y.id} /\ item'[y.id] = new /\ \A j \in S!Live : item'[j] = item[j]
    BY <1>1, <1>3
  <2>2. FrozenStep
    BY <2>1 DEF FrozenStep
  <2>3. y.id \notin Tasks /\ new.parent \in S!Live /\ item[new.parent].status = "terminal" =>
          "late" \in treeExcused[new.parent] \/ "unchecked" \in treeExcused[y.id]
    BY <1>1, <1>3 DEF CallKnows, EpicOpen
  <2>4. ClosedStep
    BY <1>1, <2>1, <2>3 DEF ClosedStep, S!Stories
  <2> QED
    BY <2>2, <2>4
<1> QED
  BY <1>2, <1>3, InsertIs

LEMMA ProjectMoves ==
    ASSUME TreeBounds, TreeInv, NEW q \in TreeRequests, S!Project(q)
    PROVE  FrozenStep /\ ClosedStep
<1>1. CASE UNCHANGED item
  BY <1>1, SameParents DEF S!Live
<1>2. ASSUME NEW i \in S!Live, NEW new \in S!Row, new.parent = item[i].parent, item' = [item EXCEPT ![i] = new]
      PROVE  FrozenStep /\ ClosedStep
  <2>1. item \in [S!Live -> S!Row]
    BY DEF TreeInv, TreeTyped
  <2> QED
    BY <1>2, <2>1, SameParents
<1> QED
  BY <1>1, <1>2, ProjectIs

LEMMA DeleteMoves ==
    ASSUME TreeBounds, TreeInv, S!Delete
    PROVE  FrozenStep /\ ClosedStep
<1>1. item \in [S!Live -> S!Row] /\ S!Live \subseteq Items /\ NoItem \notin Items
  BY DEF TreeInv, TreeTyped, TreeBounds
<1>2. ASSUME NEW i \in S!Live, MarksTask(i) PROVE FrozenStep /\ ClosedStep
  <2> PICK o : o = [item[i] EXCEPT !.status = "deleted"]
    OBVIOUS
  <2>1. o.parent = item[i].parent
    BY <1>1, MarkedRow
  <2>2. item' = [item EXCEPT ![i] = o]
    BY <1>2 DEF MarksTask
  <2> QED
    BY <1>1, <2>1, <2>2, SameParents
<1>3. ASSUME NEW i \in S!Live, OrphansOf(i) PROVE FrozenStep /\ ClosedStep
  <2>1. DOMAIN item' = S!Live \ {i} /\ i \in ended'
    BY <1>3 DEF OrphansOf
  <2>2. ASSUME NEW j \in S!Live \ {i}, item[j].parent = i PROVE item'[j].parent = NoItem
    <3> PICK o : o = [item[j] EXCEPT !.parent = NoItem]
      OBVIOUS
    <3>1. o.parent = NoItem
      BY <1>1, OrphanRow
    <3> QED
      BY <1>3, <2>2, <3>1 DEF OrphansOf
  <2>3. ASSUME NEW j \in S!Live \ {i}, item[j].parent # i PROVE item'[j] = item[j]
    BY <1>3, <2>3 DEF OrphansOf
  <2>4. FrozenStep
    BY <2>1, <2>3 DEF FrozenStep
  <2>5. ClosedStep
    BY <1>1, <2>1, <2>2, <2>3 DEF ClosedStep
  <2> QED
    BY <2>4, <2>5
<1> QED
  BY <1>2, <1>3, DeleteIs

LEMMA TreeMoves ==
    ASSUME TreeBounds, TreeInv, [S!Next]_(S!treeVars)
    PROVE  FrozenStep /\ ClosedStep
<1>1. CASE UNCHANGED item
  BY <1>1, SameParents DEF S!Live
<1>2. ASSUME NEW q \in TreeRequests,
             \/ S!LookAt(q) \/ S!Create(q) \/ S!CheckParent(q) \/ S!ReadBefore(q)
             \/ S!ReadAfter(q) \/ S!Finish(q) \/ S!Transition(q)
      PROVE  UNCHANGED item
  BY <1>2 DEF S!LookAt, S!Create, S!Start, S!CheckParent, S!ReadBefore, S!ReadAfter, S!Finish, S!Transition
<1>3. ASSUME NEW q \in TreeRequests, S!Write(q) \/ S!Insert(q) \/ S!Project(q) PROVE FrozenStep /\ ClosedStep
  BY <1>3, WriteMoves, InsertMoves, ProjectMoves
<1>4. CASE S!Delete
  BY <1>4, DeleteMoves
<1>5. CASE UNCHANGED S!treeVars
  BY <1>1, <1>5 DEF S!treeVars
<1> QED
  BY <1>1, <1>2, <1>3, <1>4, <1>5 DEF S!Next

LEMMA TreeTells == ASSUME TreeInv PROVE S!LedgerTells
<1> SUFFICES ASSUME NEW i \in S!Live, ~ S!Busy(i), NEW f \in IF i \in Tasks THEN {"parent", "status"} ELSE S!Fields
             PROVE  \/ told[i][f] = item[i][f]
                    \/ {"raced", "lost"} \cap treeExcused[i] # {}
                    \/ f = "parent" /\ "orphaned" \in treeExcused[i]
                    \/ f = "status" /\ {"unprojected", "deleted"} \cap treeExcused[i] # {}
  BY DEF S!LedgerTells
<1>1. \A r \in TreeRequests : ~ Teller(treeReq[r], i, f)
  BY DEF S!Busy, Teller, Wrote, Projecting
<1>2. f \in FieldsOf(i)
  BY DEF FieldsOf
<1> QED
  BY <1>1, <1>2 DEF TreeInv, ToldOrToCome, Amiss

-----------------------------------------------------------------------------
(* The summary of a story.                                                 *)

SummaryBounds == Findings \in Nat

AWrite ==
    [at : {"idle", "write", "append", "dispatch", "review", "project"}, kind : {"", "patch", "append"},
     text : Texts, before : Texts]
AJob == [at : {"idle", "get", "list", "set"}, text : Texts, rows : Nat]
AReview == [at : {"idle", "append", "dispatch"}, left : Nat]

SummaryTyped ==
    /\ text \in Texts /\ rows \in Nat /\ found \in 0..Findings
    /\ writer \in [Writers -> AWrite]
    /\ job \in [Jobs -> AJob]
    /\ review \in [Reviews -> AReview]

\* What is under way and comes to start a summary, or comes to write the one there should be.
WriterOwes(y) == y.at \in {"append", "dispatch", "project"}
ReviewOwes(y) == y.at = "dispatch"
JobOwes(y) ==
    \/ y.at = "get"
    \/ y.at = "list" /\ y.text = text
    \/ y.at = "set" /\ y.text = text /\ y.rows = rows
Owed ==
    \/ \E w \in Writers : WriterOwes(writer[w])
    \/ \E v \in Reviews : ReviewOwes(review[v])
    \/ \E j \in Jobs : JobOwes(job[j])

Current == [text |-> text, rows |-> rows]
SummaryMade == Current \in made /\ (summary = Current \/ crossed)

SummaryInv == SummaryTyped /\ (unsummed \/ Owed \/ SummaryMade)

LEMMA RestIsTyped ==
    ASSUME text \in Texts
    PROVE  /\ U!NoWrite \in AWrite
           /\ U!NoJob \in AJob
           /\ U!NoReview \in AReview
           /\ U!NoWrite.at = "idle" /\ U!NoJob.at = "idle" /\ U!NoReview.at = "idle"
<1>1. (CHOOSE t \in Texts : TRUE) \in Texts
  OBVIOUS
<1> QED
  BY <1>1 DEF U!NoWrite, U!NoJob, U!NoReview, AWrite, AJob, AReview

LEMMA WriterTyped ==
    ASSUME SummaryTyped, NEW w \in Writers, NEW z \in AWrite, writer' = [writer EXCEPT ![w] = z], text' \in Texts,
           rows' = rows \/ rows' = rows + 1, UNCHANGED <<job, review, found>>
    PROVE  SummaryTyped'
<1>1. rows' \in Nat
  BY DEF SummaryTyped
<1>2. writer' \in [Writers -> AWrite]
  BY DEF SummaryTyped
<1> QED
  BY <1>1, <1>2 DEF SummaryTyped, AWrite, AJob, AReview

LEMMA FewerFindings ==
    ASSUME NEW m \in Nat, NEW f \in 0..m, NEW n \in 0..(m - f)
    PROVE  n \in Nat /\ f + n \in 0..m
  OBVIOUS

\* A step of one request that leaves the rows and the summary alone and owes what it owed.
LEMMA WriterMoves ==
    ASSUME SummaryInv, NEW w \in Writers, NEW z, writer' = [writer EXCEPT ![w] = z], SummaryTyped',
           WriterOwes(writer[w]) => WriterOwes(z),
           \A v \in Reviews : ReviewOwes(review[v]) => ReviewOwes(review'[v]),
           UNCHANGED <<text, rows, summary, job, made, crossed>>, unsummed => unsummed'
    PROVE  SummaryInv'
<1>1. \A x \in Writers : writer'[x] = IF x = w THEN z ELSE writer[x]
  BY DEF SummaryInv, SummaryTyped
<1>2. CASE unsummed
  BY <1>2 DEF SummaryInv
<1>3. CASE Owed
  <2>1. ASSUME NEW x \in Writers, WriterOwes(writer[x]) PROVE WriterOwes(writer'[x])
    BY <1>1, <2>1
  <2>2. Owed'
    BY <1>3, <2>1 DEF Owed, WriterOwes, ReviewOwes, JobOwes
  <2> QED
    BY <2>2 DEF SummaryInv
<1>4. CASE SummaryMade
  BY <1>4 DEF SummaryInv, SummaryMade, Current
<1> QED
  BY <1>2, <1>3, <1>4 DEF SummaryInv

LEMMA WriterOwesNow ==
    ASSUME SummaryInv, NEW w \in Writers, NEW z, writer' = [writer EXCEPT ![w] = z], WriterOwes(z), SummaryTyped'
    PROVE  SummaryInv'
<1>1. writer'[w] = z
  BY DEF SummaryInv, SummaryTyped
<1> QED
  BY <1>1 DEF SummaryInv, Owed, WriterOwes

LEMMA StoryStep ==
    ASSUME SummaryBounds, SummaryInv, NEW w \in Writers,
           \/ U!StartPatch(w) \/ U!Patch(w) \/ U!Append(w) \/ U!LedgerAppend(w) \/ U!Transition(w) \/ U!Project(w)
           \/ U!RunReviewers(w)
    PROVE  SummaryInv'
<1> PICK y : y = writer[w]
  OBVIOUS
<1>1. /\ y \in AWrite
      /\ text \in Texts /\ SummaryTyped
  BY DEF SummaryInv, SummaryTyped
<1>2. CASE U!StartPatch(w)
  <2>1. PICK t \in Texts : writer' = [writer EXCEPT ![w] = [at |-> "write", kind |-> "patch", text |-> t, before |-> text]]
    BY <1>2 DEF U!StartPatch
  <2>2. SummaryTyped'
    <3>1. [at |-> "write", kind |-> "patch", text |-> t, before |-> text] \in AWrite
      BY <1>1 DEF AWrite
    <3> QED
      BY <1>1, <1>2, <2>1, <3>1, WriterTyped DEF U!StartPatch
  <2>3. ~ WriterOwes(writer[w])
    BY <1>2 DEF U!StartPatch, WriterOwes
  <2> QED
    BY <1>2, <2>1, <2>2, <2>3, WriterMoves DEF U!StartPatch
<1>3. CASE U!Patch(w)
  <2> PICK z : z = [y EXCEPT !.at = IF y.text = y.before THEN "review" ELSE "append"]
    OBVIOUS
  <2>1. /\ writer' = [writer EXCEPT ![w] = z] /\ z.at = IF y.text = y.before THEN "review" ELSE "append"
        /\ z \in AWrite
    BY <1>1, <1>3 DEF U!Patch, U!Goes, SummaryTyped, AWrite
  <2>2. SummaryTyped'
    <3>1. text' \in Texts
      BY <1>1, <1>3 DEF U!Patch, AWrite
    <3> QED
      BY <1>1, <1>3, <2>1, <3>1, WriterTyped DEF U!Patch
  <2>3. CASE y.text # y.before
    BY <2>1, <2>2, <2>3, WriterOwesNow DEF WriterOwes
  <2>4. CASE y.text = y.before /\ y.text # text
    BY <1>3, <2>2, <2>4 DEF U!Patch, SummaryInv
  <2>5. CASE y.text = y.before /\ y.text = text
    <3>1. ~ WriterOwes(writer[w]) /\ UNCHANGED <<text, rows, summary, job, review, made, crossed>> /\ (unsummed => unsummed')
      BY <1>3, <2>5 DEF U!Patch, WriterOwes
    <3> QED
      BY <2>1, <2>2, <3>1, WriterMoves
  <2> QED
    BY <2>3, <2>4, <2>5
<1>4. CASE U!Append(w)
  <2> PICK z : z = [y EXCEPT !.at = "dispatch"]
    OBVIOUS
  <2>1. /\ writer' = [writer EXCEPT ![w] = z] /\ z.at = "dispatch"
        /\ z \in AWrite
    BY <1>1, <1>4 DEF U!Append, U!Goes, SummaryTyped, AWrite
  <2>2. SummaryTyped'
    BY <1>1, <1>4, <2>1, WriterTyped DEF U!Append
  <2> QED
    BY <2>1, <2>2, WriterOwesNow DEF WriterOwes
<1>5. CASE U!LedgerAppend(w)
  <2> PICK z : z = [U!NoWrite EXCEPT !.at = "dispatch", !.kind = "append"]
    OBVIOUS
  <2>1. /\ writer' = [writer EXCEPT ![w] = z] /\ z.at = "dispatch"
        /\ z \in AWrite
    BY <1>1, <1>5, RestIsTyped DEF U!LedgerAppend, AWrite
  <2>2. SummaryTyped'
    BY <1>1, <1>5, <2>1, WriterTyped DEF U!LedgerAppend
  <2> QED
    BY <2>1, <2>2, WriterOwesNow DEF WriterOwes
<1>6. CASE U!Transition(w)
  <2>1. PICK t \in Texts : writer' = [writer EXCEPT ![w] = [U!NoWrite EXCEPT !.at = "project", !.text = t]]
    BY <1>6 DEF U!Transition
  <2> PICK z : z = [U!NoWrite EXCEPT !.at = "project", !.text = t]
    OBVIOUS
  <2>2. /\ z.at = "project"
        /\ z \in AWrite
    BY <1>1, RestIsTyped DEF AWrite
  <2>3. SummaryTyped'
    BY <1>1, <1>6, <2>1, <2>2, WriterTyped DEF U!Transition
  <2> QED
    BY <2>1, <2>2, <2>3, WriterOwesNow DEF WriterOwes
<1>7. CASE U!Project(w)
  <2>1. y.at = "project"
    BY <1>1, <1>7 DEF U!Project, AWrite
  <2> PICK z : z = [y EXCEPT !.at = "dispatch"]
    OBVIOUS
  <2>2. /\ z.at = "dispatch"
        /\ z \in AWrite
    BY <1>1 DEF AWrite
  <2>3. CASE text' = writer[w].text /\ U!Goes(w, "dispatch") /\ UNCHANGED <<unsummed, summaryFails>>
    <3>1. writer' = [writer EXCEPT ![w] = z]
      BY <1>1, <2>3 DEF U!Goes, SummaryTyped
    <3>2. SummaryTyped'
      <4>1. text' \in Texts
        BY <1>1, <2>3 DEF AWrite
      <4> QED
        BY <1>1, <1>7, <2>2, <2>3, <3>1, <4>1, WriterTyped DEF U!Project
    <3> QED
      BY <2>2, <3>1, <3>2, WriterOwesNow DEF WriterOwes
  <2>4. CASE U!Misses /\ U!Rests(w) /\ UNCHANGED text
    <3>1. SummaryTyped'
      BY <1>1, <1>7, <2>4, RestIsTyped, WriterTyped DEF U!Project, U!Rests
    <3> QED
      BY <2>4, <3>1 DEF U!Misses, SummaryInv
  <2> QED
    BY <1>7, <2>1, <2>3, <2>4 DEF U!Project
<1>8. CASE U!RunReviewers(w)
  <2>1. PICK v \in Reviews, n \in 0..(Findings - found) :
          /\ review[v].at = "idle"
          /\ review' = [review EXCEPT ![v] = [at |-> "append", left |-> n]]
          /\ found' = found + n
    BY <1>8 DEF U!RunReviewers, U!Reviewers
  <2>2. n \in Nat /\ found' \in 0..Findings
    BY <1>1, <2>1, FewerFindings DEF SummaryTyped, SummaryBounds
  <2>3. writer' = [writer EXCEPT ![w] = U!NoWrite] /\ writer[w].at = "review"
        /\ UNCHANGED <<text, rows, summary, job, made, crossed, unsummed>>
    BY <1>8 DEF U!RunReviewers, U!Rests
  <2>4. SummaryTyped'
    BY <1>1, <2>1, <2>2, <2>3, RestIsTyped DEF SummaryTyped, AReview
  <2>5. \A x \in Reviews : ReviewOwes(review[x]) => ReviewOwes(review'[x])
    BY <1>1, <2>1 DEF SummaryTyped, ReviewOwes
  <2>6. ~ WriterOwes(writer[w])
    BY <2>3 DEF WriterOwes
  <2> QED
    BY <2>3, <2>4, <2>5, <2>6, WriterMoves
<1> QED
  BY <1>2, <1>3, <1>4, <1>5, <1>6, <1>7, <1>8

\* A goroutine is started.
LEMMA RegenerateOwes ==
    ASSUME SummaryInv, U!Regenerate,
           writer' \in [Writers -> AWrite],
           review' \in [Reviews -> AReview],
           UNCHANGED <<text, rows, found>>
    PROVE  SummaryInv'
<1>1. PICK j \in Jobs : job' = [job EXCEPT ![j] = [U!NoJob EXCEPT !.at = "get"]]
  BY DEF U!Regenerate
<1> PICK z : z = [U!NoJob EXCEPT !.at = "get"]
  OBVIOUS
<1>2. z \in AJob /\ z.at = "get"
  BY RestIsTyped DEF SummaryInv, SummaryTyped, AJob
<1>3. SummaryTyped' /\ job'[j] = z
  BY <1>1, <1>2 DEF SummaryInv, SummaryTyped
<1> QED
  BY <1>2, <1>3 DEF SummaryInv, Owed, JobOwes

LEMMA DispatchStep ==
    ASSUME SummaryInv, \/ \E w \in Writers : U!Dispatch(w)
                       \/ U!Ask
                       \/ \E v \in Reviews : U!FindingDispatch(v)
    PROVE  SummaryInv'
<1>1. SummaryTyped /\ text \in Texts
  BY DEF SummaryInv, SummaryTyped
<1>2. ASSUME NEW w \in Writers, U!Dispatch(w) PROVE SummaryInv'
  <2> PICK y : y = writer[w]
    OBVIOUS
  <2> PICK z : z = IF y.kind = "patch" THEN [y EXCEPT !.at = "review"] ELSE U!NoWrite
    OBVIOUS
  <2>1. z \in AWrite
    BY <1>1, RestIsTyped DEF SummaryTyped, AWrite
  <2>2. writer' = [writer EXCEPT ![w] = z]
    BY <1>2 DEF U!Dispatch, U!Goes, U!Rests
  <2> QED
    <3>1. writer' \in [Writers -> AWrite]
      BY <1>1, <2>1, <2>2 DEF SummaryTyped
    <3> QED
      BY <1>1, <1>2, <3>1, RegenerateOwes DEF U!Dispatch, SummaryTyped
<1>3. CASE U!Ask
  BY <1>1, <1>3, RegenerateOwes DEF U!Ask, SummaryTyped
<1>4. ASSUME NEW v \in Reviews, U!FindingDispatch(v) PROVE SummaryInv'
  <2>1. review' = [review EXCEPT ![v].at = "append"]
    BY <1>4 DEF U!FindingDispatch
  <2>2. review' \in [Reviews -> AReview]
    BY <1>1, <2>1 DEF SummaryTyped, AReview
  <2> QED
    BY <1>1, <1>4, <2>2, RegenerateOwes DEF U!FindingDispatch, SummaryTyped
<1> QED
  BY <1>2, <1>3, <1>4

LEMMA FindingStep ==
    ASSUME SummaryInv, NEW v \in Reviews, U!Finding(v)
    PROVE  SummaryInv'
<1> PICK y : y = review[v]
  OBVIOUS
<1>1. /\ SummaryTyped /\ text \in Texts /\ y \in AReview /\ y.at = "append"
      /\ UNCHANGED <<text, summary, writer, job, made, crossed, unsummed, found>>
  BY DEF SummaryInv, SummaryTyped, U!Finding
<1>2. CASE rows' = rows + 1 /\ review' = [review EXCEPT ![v].at = "dispatch", ![v].left = @ - 1] /\ y.left # 0
  <2> PICK z : z = [y EXCEPT !.at = "dispatch", !.left = @ - 1]
    OBVIOUS
  <2>1. z \in AReview /\ z.at = "dispatch"
    <3>1. y.left \in Nat /\ y.left - 1 \in Nat
      BY <1>1, <1>2 DEF AReview
    <3> QED
      BY <1>1, <3>1 DEF AReview
  <2>2. review' = [review EXCEPT ![v] = z]
    BY <1>1, <1>2 DEF SummaryTyped
  <2>3. SummaryTyped' /\ review'[v] = z
    <3>1. rows' \in Nat
      BY <1>1, <1>2 DEF SummaryTyped
    <3>2. review' \in [Reviews -> AReview] /\ review'[v] = z
      BY <1>1, <2>1, <2>2 DEF SummaryTyped
    <3> QED
      BY <1>1, <3>1, <3>2 DEF SummaryTyped, AWrite, AJob, AReview
  <2> QED
    BY <2>1, <2>3 DEF SummaryInv, Owed, ReviewOwes
<1>3. ASSUME NEW z \in AReview, review' = [review EXCEPT ![v] = z], rows' = rows
      PROVE  SummaryInv'
  <2>1. SummaryTyped'
    BY <1>1, <1>3 DEF SummaryTyped
  <2>2. \A x \in Reviews : ReviewOwes(review[x]) => ReviewOwes(review'[x])
    BY <1>1, <1>3 DEF SummaryTyped, ReviewOwes
  <2>3. Owed => Owed'
    BY <1>1, <1>3, <2>2 DEF Owed, WriterOwes, JobOwes, ReviewOwes
  <2>4. SummaryMade => SummaryMade'
    BY <1>1, <1>3 DEF SummaryMade, Current
  <2> QED
    BY <1>1, <2>1, <2>3, <2>4 DEF SummaryInv
<1>4. CASE review' = [review EXCEPT ![v] = U!NoReview] /\ rows' = rows
  BY <1>1, <1>3, <1>4, RestIsTyped
<1>5. CASE review' = [review EXCEPT ![v].left = @ - 1] /\ rows' = rows /\ y.left # 0
  <2> PICK z : z = [y EXCEPT !.left = @ - 1]
    OBVIOUS
  <2>1. z \in AReview
    <3>1. y.left \in Nat /\ y.left - 1 \in Nat
      BY <1>1, <1>5 DEF AReview
    <3> QED
      BY <1>1, <3>1 DEF AReview
  <2>2. review' = [review EXCEPT ![v] = z]
    BY <1>1, <1>5 DEF SummaryTyped
  <2> QED
    BY <1>3, <1>5, <2>1, <2>2
<1> QED
  BY <1>2, <1>4, <1>5 DEF U!Finding

LEMMA JobStep ==
    ASSUME SummaryInv, NEW j \in Jobs, U!GetStory(j) \/ U!ListLedger(j) \/ U!SetSummary(j) \/ U!JobFails(j)
    PROVE  SummaryInv'
<1> PICK y : y = job[j]
  OBVIOUS
<1>1. /\ SummaryTyped /\ text \in Texts /\ rows \in Nat /\ y \in AJob
      /\ UNCHANGED <<text, rows, writer, review, found>>
  BY DEF SummaryInv, SummaryTyped, U!GetStory, U!ListLedger, U!SetSummary, U!JobFails
<1>2. CASE U!JobFails(j)
  <2>1. SummaryTyped'
    BY <1>1, <1>2, RestIsTyped DEF U!JobFails, SummaryTyped
  <2> QED
    BY <1>2, <2>1 DEF U!JobFails, U!Misses, SummaryInv
<1>3. CASE U!GetStory(j)
  <2>1. SummaryTyped' /\ job'[j] = [at |-> "list", text |-> text, rows |-> 0]
    BY <1>1, <1>3 DEF U!GetStory, SummaryTyped, AJob
  <2>2. JobOwes(job[j])'
    BY <1>1, <2>1 DEF JobOwes
  <2> QED
    BY <2>1, <2>2 DEF SummaryInv, Owed
<1>4. ASSUME NEW z \in AJob, job' = [job EXCEPT ![j] = z],
             JobOwes(y) => JobOwes(z)
      PROVE  SummaryTyped' /\ (Owed => Owed')
  <2>1. SummaryTyped' /\ \A x \in Jobs : job'[x] = IF x = j THEN z ELSE job[x]
    BY <1>1, <1>4 DEF SummaryTyped
  <2>2. ASSUME NEW x \in Jobs, JobOwes(job[x]) PROVE JobOwes(job'[x])
    BY <1>4, <2>1, <2>2
  <2>3. ASSUME NEW x \in Jobs, JobOwes(job'[x]) PROVE JobOwes(job[x])'
    BY <1>1, <2>3 DEF JobOwes
  <2> QED
    BY <1>1, <2>1, <2>2, <2>3 DEF Owed, WriterOwes, ReviewOwes
<1>5. CASE U!ListLedger(j)
  <2> PICK z : z = [y EXCEPT !.at = "set", !.rows = rows]
    OBVIOUS
  <2>1. z \in AJob /\ z.at = "set" /\ z.text = y.text /\ z.rows = rows
    BY <1>1 DEF AJob
  <2>2. job' = [job EXCEPT ![j] = z] /\ y.at = "list" /\ UNCHANGED <<summary, made, crossed, unsummed>>
    BY <1>1, <1>5 DEF U!ListLedger, SummaryTyped
  <2>3. JobOwes(y) => JobOwes(z)
    BY <2>1, <2>2 DEF JobOwes
  <2>4. SummaryMade => SummaryMade'
    BY <1>1, <2>2 DEF SummaryMade, Current
  <2> QED
    BY <1>4, <2>1, <2>2, <2>3, <2>4 DEF SummaryInv
<1>6. CASE U!SetSummary(j)
  <2>1. /\ y.at = "set" /\ job' = [job EXCEPT ![j] = U!NoJob] /\ unsummed' = unsummed
        /\ summary' = [text |-> y.text, rows |-> y.rows] /\ made' = made \cup {[text |-> y.text, rows |-> y.rows]}
        /\ crossed' = ([text |-> y.text, rows |-> y.rows] # Current /\ (crossed \/ summary = Current))
    BY <1>6 DEF U!SetSummary, Current
  <2>2. Current' = Current
    BY <1>1 DEF Current
  <2>3. CASE [text |-> y.text, rows |-> y.rows] = Current
    <3>1. SummaryTyped'
      BY <1>1, <2>1, RestIsTyped DEF SummaryTyped
    <3>2. SummaryMade'
      BY <2>1, <2>2, <2>3 DEF SummaryMade
    <3> QED
      BY <3>1, <3>2 DEF SummaryInv
  <2>4. CASE [text |-> y.text, rows |-> y.rows] # Current
    <3>1. ~ JobOwes(y)
      BY <2>1, <2>4 DEF JobOwes, Current
    <3>2. SummaryTyped' /\ (Owed => Owed')
      BY <1>1, <1>4, <2>1, <3>1, RestIsTyped
    <3>3. SummaryMade => SummaryMade'
      BY <2>1, <2>2, <2>4 DEF SummaryMade
    <3> QED
      BY <2>1, <3>2, <3>3 DEF SummaryInv
  <2> QED
    BY <2>3, <2>4
<1> QED
  BY <1>2, <1>3, <1>5, <1>6

LEMMA SummaryKept ==
    ASSUME SummaryBounds, SummaryInv, [U!Next]_(U!summaryVars)
    PROVE  SummaryInv'
<1>1. CASE UNCHANGED U!summaryVars
  BY <1>1 DEF U!summaryVars, SummaryInv, SummaryTyped, Owed, WriterOwes, ReviewOwes, JobOwes, SummaryMade, Current
<1>2. CASE U!Next
  BY <1>2, StoryStep, DispatchStep, FindingStep, JobStep DEF U!Next
<1> QED
  BY <1>1, <1>2

LEMMA SummaryBegins == ASSUME SummaryBounds, U!Init PROVE SummaryInv
<1>1. SummaryTyped
  <2>1. text \in Texts /\ rows \in Nat /\ found \in 0..Findings
    BY DEF U!Init, SummaryBounds
  <2> QED
    BY <2>1, RestIsTyped DEF U!Init, SummaryTyped
<1>2. SummaryMade
  BY DEF U!Init, SummaryMade, Current
<1> QED
  BY <1>1, <1>2 DEF SummaryInv

LEMMA SummaryTold == ASSUME SummaryInv PROVE U!SummaryTells
<1>1. U!Quiet => ~ Owed
  BY DEF U!Quiet, Owed, WriterOwes, ReviewOwes, JobOwes
<1> QED
  BY <1>1 DEF SummaryInv, SummaryMade, Current, U!SummaryTells

\* The last ledger row that names a field of a story or a task carries what the field is, once
\* no request is at it, but for what is named as leaving no row; a story that has started stays
\* under its epic, and a finished epic gets no child; and when nothing is under way the summary
\* of a story was made from its row and from all its ledger rows.  For any items, any patches
\* and any number of requests, goroutines and reviewers.
THEOREM StoryIsTold == TreeBounds /\ SummaryBounds => (S!Spec /\ U!Spec => StoryTold)
<1> SUFFICES ASSUME TreeBounds, SummaryBounds PROVE S!Spec /\ U!Spec => StoryTold
  OBVIOUS
<1>1. S!Init => TreeInv
  BY TreeBegins
<1>2. TreeInv /\ [S!Next]_(S!treeVars) => TreeInv'
  BY TreeKept
<1>3. TreeInv => S!LedgerTells
  BY TreeTells
<1>4. TreeInv /\ [S!Next]_(S!treeVars) =>
        [\A i \in S!Live \ Tasks :
            i \in DOMAIN item' /\ item'[i].parent # item[i].parent /\ item[i].status # "initial" =>
                item[i].parent \in ended' \/ "raced" \in treeExcused'[i]]_(S!treeVars)
  BY TreeMoves DEF FrozenStep
<1>5. TreeInv /\ [S!Next]_(S!treeVars) =>
        [\A i \in S!Stories \cap DOMAIN item' :
            LET p == item'[i].parent
            IN  p \in S!Live /\ item[p].status = "terminal" /\ (i \in S!Live => item[i].parent # p) =>
                    "late" \in treeExcused'[p] \/ {"unchecked", "raced"} \cap treeExcused'[i] # {}]_(S!treeVars)
  BY TreeMoves DEF ClosedStep
<1>6. U!Init => SummaryInv
  BY SummaryBegins
<1>7. SummaryInv /\ [U!Next]_(U!summaryVars) => SummaryInv'
  BY SummaryKept
<1>8. SummaryInv => U!SummaryTells
  BY SummaryTold
<1> QED
  BY <1>1, <1>2, <1>3, <1>4, <1>5, <1>6, <1>7, <1>8, PTL
     DEF S!Spec, U!Spec, StoryTold, S!MembershipFrozen, S!FinishedEpicsClosed

-----------------------------------------------------------------------------
(* What the parts are bounded by, and all of them in one run.              *)

TreeCounted == treeFaults \in 0..TreeFaults

LEMMA TreeCounts ==
    ASSUME TreeFaults \in Nat, TreeCounted, [S!Next]_(S!treeVars)
    PROVE  TreeCounted'
<1>1. ASSUME S!Faulty PROVE treeFaults' \in 0..TreeFaults
  BY <1>1 DEF S!Faulty, TreeCounted
<1>2. ASSUME NEW q \in TreeRequests,
             \/ S!LookAt(q) \/ S!Create(q) \/ S!ReadBefore(q) \/ S!Write(q) \/ S!Insert(q) \/ S!ReadAfter(q)
             \/ S!Transition(q)
      PROVE  treeFaults' = treeFaults
  BY <1>2 DEF S!LookAt, S!Create, S!Start, S!ReadBefore, S!Write, S!Insert, S!ReadAfter, S!Transition
<1>3. ASSUME NEW q \in TreeRequests, S!CheckParent(q) \/ S!Finish(q) \/ S!Project(q)
      PROVE  treeFaults' = treeFaults \/ S!Faulty
  BY <1>3 DEF S!CheckParent, S!Finish, S!Project
<1>4. CASE S!Delete \/ UNCHANGED S!treeVars
  BY <1>4 DEF TreeCounted, S!Delete, S!treeVars
<1> QED
  BY <1>1, <1>2, <1>3, <1>4 DEF S!Next, TreeCounted

LEMMA TreeTypes == TreeBounds /\ TreeFaults \in Nat => (S!Spec => []S!TypeOK)
<1> SUFFICES ASSUME TreeBounds, TreeFaults \in Nat PROVE S!Spec => []S!TypeOK
  OBVIOUS
<1>1. S!Init => TreeInv /\ TreeCounted
  BY TreeBegins DEF S!Init, TreeCounted
<1>2. TreeInv /\ TreeCounted /\ [S!Next]_(S!treeVars) => TreeInv' /\ TreeCounted'
  BY TreeKept, TreeCounts
<1>3. TreeInv /\ TreeCounted => S!TypeOK
  BY DEF TreeInv, TreeCounted, TreeTyped, TreeCall, S!TypeOK
<1> QED
  BY <1>1, <1>2, <1>3, PTL DEF S!Spec

-----------------------------------------------------------------------------
SummaryCounted ==
    /\ summary \in U!Seen /\ made \subseteq U!Seen
    /\ writes \in 0..SummaryWrites /\ summaryFails \in 0..SummaryFails

LEMMA SummaryCounts ==
    ASSUME SummaryWrites \in Nat, SummaryFails \in Nat, SummaryInv, SummaryCounted, [U!Next]_(U!summaryVars)
    PROVE  SummaryCounted'
<1>1. ASSUME UNCHANGED <<summary, made>>, writes' = writes \/ (writes < SummaryWrites /\ writes' = writes + 1),
             summaryFails' = summaryFails \/ U!Fails
      PROVE  SummaryCounted'
  BY <1>1 DEF SummaryCounted, U!Fails
<1>2. ASSUME NEW w \in Writers,
             \/ U!StartPatch(w) \/ U!Patch(w) \/ U!Append(w) \/ U!Dispatch(w) \/ U!RunReviewers(w)
             \/ U!LedgerAppend(w) \/ U!Transition(w) \/ U!Project(w)
      PROVE  SummaryCounted'
  BY <1>1, <1>2 DEF U!StartPatch, U!Patch, U!Append, U!Dispatch, U!RunReviewers, U!LedgerAppend, U!Transition,
     U!Project
<1>3. CASE U!Ask \/ UNCHANGED U!summaryVars
  BY <1>1, <1>3 DEF U!Ask, U!summaryVars
<1>4. ASSUME NEW v \in Reviews, U!Finding(v) \/ U!FindingDispatch(v) PROVE SummaryCounted'
  BY <1>1, <1>4 DEF U!Finding, U!FindingDispatch
<1>5. ASSUME NEW j \in Jobs, U!GetStory(j) \/ U!ListLedger(j) \/ U!JobFails(j) PROVE SummaryCounted'
  BY <1>1, <1>5 DEF U!GetStory, U!ListLedger, U!JobFails
<1>6. ASSUME NEW j \in Jobs, U!SetSummary(j) PROVE SummaryCounted'
  <2>1. job[j] \in AJob
    BY DEF SummaryInv, SummaryTyped
  <2>2. [text |-> job[j].text, rows |-> job[j].rows] \in U!Seen
    BY <2>1 DEF AJob, U!Seen
  <2> QED
    BY <1>6, <2>2 DEF U!SetSummary, SummaryCounted
<1> QED
  BY <1>2, <1>3, <1>4, <1>5, <1>6 DEF U!Next

LEMMA SummaryTypes ==
    SummaryBounds /\ SummaryWrites \in Nat /\ SummaryFails \in Nat => (U!Spec => []U!TypeOK)
<1> SUFFICES ASSUME SummaryBounds, SummaryWrites \in Nat, SummaryFails \in Nat PROVE U!Spec => []U!TypeOK
  OBVIOUS
<1>1. U!Init => SummaryInv /\ SummaryCounted
  <2> SUFFICES ASSUME U!Init PROVE SummaryInv /\ SummaryCounted
    OBVIOUS
  <2>1. [text |-> text, rows |-> 1] \in U!Seen
    BY DEF U!Init, U!Seen
  <2>2. /\ summary = [text |-> text, rows |-> 1] /\ made = {summary} /\ writes = 0 /\ summaryFails = 0
    BY DEF U!Init
  <2>3. 0 \in 0..SummaryWrites /\ 0 \in 0..SummaryFails
    OBVIOUS
  <2>4. summary \in U!Seen /\ made \subseteq U!Seen
    BY <2>1, <2>2
  <2> QED
    BY <2>2, <2>3, <2>4, SummaryBegins DEF SummaryCounted
<1>2. SummaryInv /\ SummaryCounted /\ [U!Next]_(U!summaryVars) => SummaryInv' /\ SummaryCounted'
  BY SummaryKept, SummaryCounts
<1>3. SummaryInv /\ SummaryCounted => U!TypeOK
  BY DEF SummaryInv, SummaryTyped, SummaryCounted, AWrite, AJob, AReview, U!TypeOK
<1> QED
  BY <1>1, <1>2, <1>3, PTL DEF U!Spec

-----------------------------------------------------------------------------
ProjectsCounted == projectFails \in 0..HomeFails

LEMMA ProjectsCount ==
    ASSUME HomeFails \in Nat, ProjectsCounted, [P!Next]_(P!projectsVars)
    PROVE  ProjectsCounted'
<1>1. ASSUME NEW c \in HomeCallers, P!Create(c) \/ P!RemoveMount(c) \/ P!Restore(c)
      PROVE  projectFails' = projectFails
  BY <1>1 DEF P!Create, P!RemoveMount, P!Restore
<1>2. ASSUME NEW c \in HomeCallers, NEW q \in HomeRequests,
             P!StartUpdate(q, c) \/ P!StartMount(q, c) \/ P!StartArchive(q, c)
      PROVE  projectFails' = projectFails
  BY <1>2 DEF P!StartUpdate, P!StartMount, P!StartArchive
<1>3. ASSUME NEW q \in HomeRequests,
             \/ P!LookHome(q) \/ P!LookMount(q) \/ P!Rehome(q) \/ P!ReadRow(q) \/ P!WriteRow(q) \/ P!AddMount(q)
             \/ P!ListHomed(q) \/ P!ListMounts(q) \/ P!ClearMount(q) \/ P!Archive(q)
      PROVE  projectFails' = projectFails
  BY <1>3 DEF P!LookHome, P!LookMount, P!Rehome, P!ReadRow, P!WriteRow, P!AddMount, P!ListHomed, P!ListMounts,
     P!ClearMount, P!Archive
<1>4. ASSUME NEW q \in HomeRequests, P!Fail(q) PROVE projectFails' \in 0..HomeFails
  BY <1>4 DEF P!Fail, ProjectsCounted
<1>5. CASE P!SetDefault \/ UNCHANGED P!projectsVars
  BY <1>5 DEF ProjectsCounted, P!SetDefault, P!projectsVars
<1> QED
  BY <1>1, <1>2, <1>3, <1>4, <1>5 DEF P!Next, ProjectsCounted

-----------------------------------------------------------------------------
UploadBounds ==
    /\ BodiesApart
    /\ Artifacts # {}
    /\ UploadStarts \in Nat /\ UploadEdits \in Nat /\ UploadFails \in Nat

\* A command that is under way has something left to do.
HasWork(k) == k.at # "idle" => k.todo # {}

UploadCounted ==
    /\ library \in [Artifacts -> A!Bodies \cup {NoBody}]
    /\ headline \subseteq Artifacts /\ filed \subseteq Artifacts /\ torn \subseteq Artifacts
    /\ \A r \in Uploads : HasWork(upload[r])
    /\ starts \in 0..UploadStarts /\ edits \in 0..UploadEdits /\ uploadFails \in 0..UploadFails

LEMMA HeadIsArtifact ==
    ASSUME UploadBounds, UploadInv, UploadCounted, NEW r \in Uploads, upload[r].at # "idle"
    PROVE  A!Head(r) \in Artifacts
<1>1. upload[r].todo \in SUBSET Nat /\ upload[r].todo # {} /\ upload[r].todo \subseteq Artifacts
  BY DEF UploadBounds, BodiesApart, UploadInv, UploadTyped, Command, UploadCounted, HasWork
<1>2. \E n \in upload[r].todo : \A m \in upload[r].todo : n <= m
  BY <1>1, LeastExists
<1> QED
  BY <1>1, <1>2 DEF A!Head

LEMMA WorkMoves ==
    ASSUME UploadInv, UploadCounted,
           upload' = upload \/ \E r \in Uploads, k \in Command : upload' = [upload EXCEPT ![r] = k] /\ HasWork(k),
           UNCHANGED library \/ library' \in [Artifacts -> A!Bodies \cup {NoBody}],
           headline' \subseteq Artifacts, filed' \subseteq Artifacts, torn' \subseteq Artifacts,
           starts' \in 0..UploadStarts, edits' \in 0..UploadEdits, uploadFails' \in 0..UploadFails
    PROVE  UploadCounted'
<1>1. \A r \in Uploads : HasWork(upload'[r])
  BY DEF UploadInv, UploadTyped, UploadCounted
<1> QED
  BY <1>1 DEF UploadCounted, HasWork

LEMMA UploadCounts ==
    ASSUME UploadBounds, UploadInv, UploadCounted, [A!Next]_(A!uploadVars)
    PROVE  UploadCounted'
<1>1. /\ headline \subseteq Artifacts /\ filed \subseteq Artifacts /\ torn \subseteq Artifacts
      /\ starts \in 0..UploadStarts /\ edits \in 0..UploadEdits /\ uploadFails \in 0..UploadFails
  BY DEF UploadCounted
<1>2. ASSUME starts < UploadStarts, starts' = starts + 1 PROVE starts' \in 0..UploadStarts
  BY <1>1, <1>2 DEF UploadBounds
<1>3. ASSUME A!Fails PROVE uploadFails' \in 0..UploadFails
  BY <1>1, <1>3 DEF UploadBounds, A!Fails
<1>4. A!Idle \in Command /\ A!Idle.at = "idle" /\ HasWork(A!Idle)
  BY DEF A!Idle, Command, HasWork
<1>5. ASSUME NEW r \in Uploads PROVE upload[r] \in Command /\ HasWork(upload[r])
  BY DEF UploadInv, UploadTyped, UploadCounted
<1>6. CASE UNCHANGED A!uploadVars
  BY <1>1, <1>6, WorkMoves DEF A!uploadVars
<1>7. CASE A!Edit
  <2>1. edits' \in 0..UploadEdits
    BY <1>1, <1>7 DEF A!Edit, UploadBounds
  <2> QED
    BY <1>1, <1>7, <2>1, WorkMoves DEF A!Edit
<1>8. CASE A!Publish
  <2>1. library' \in [Artifacts -> A!Bodies \cup {NoBody}]
    BY <1>8 DEF A!Publish, UploadCounted, UploadInv, UploadTyped
  <2> QED
    BY <1>1, <1>2, <1>8, <2>1, WorkMoves DEF A!Publish
<1>9. ASSUME NEW r \in Uploads, NEW k \in Command, upload' = [upload EXCEPT ![r] = k], HasWork(k),
             UNCHANGED <<library, torn>>, headline' \subseteq Artifacts, filed' \subseteq Artifacts,
             starts' \in 0..UploadStarts, edits' = edits, uploadFails' \in 0..UploadFails
      PROVE  UploadCounted'
  BY <1>1, <1>9, WorkMoves
<1>10. ASSUME NEW r \in Uploads, A!StartUpload(r) PROVE UploadCounted'
  <2>1. PICK todo \in {Artifacts} \cup {{n} : n \in Artifacts} :
          upload' = [upload EXCEPT ![r] = [A!Idle EXCEPT !.at = "plan", !.todo = todo]]
    BY <1>10 DEF A!StartUpload
  <2> DEFINE k == [A!Idle EXCEPT !.at = "plan", !.todo = todo]
  <2>2. k \in Command /\ HasWork(k)
    BY DEF A!Idle, Command, HasWork, UploadBounds
  <2>3. UNCHANGED <<library, headline, filed, torn, edits, uploadFails>> /\ starts' \in 0..UploadStarts
    BY <1>2, <1>10 DEF A!StartUpload, A!Starts
  <2> HIDE DEF k
  <2> QED
    BY <1>1, <1>9, <2>1, <2>2, <2>3 DEF k
<1>11. ASSUME NEW r \in Uploads, A!StartCurate(r) PROVE UploadCounted'
  <2>1. PICK n \in Artifacts :
          upload' = [upload EXCEPT ![r] = [A!Idle EXCEPT !.at = "curate", !.todo = {n}, !.plan = row]]
    BY <1>11 DEF A!StartCurate
  <2>2. PICK plan \in [Artifacts -> A!Bodies \cup {NoBody, Empty}] : plan = row
    BY DEF UploadInv, UploadTyped
  <2> DEFINE k == [A!Idle EXCEPT !.at = "curate", !.todo = {n}, !.plan = plan]
  <2>3. k \in Command /\ HasWork(k)
    BY DEF A!Idle, Command, HasWork
  <2>4. upload' = [upload EXCEPT ![r] = k]
    BY <2>1, <2>2
  <2>5. UNCHANGED <<library, headline, filed, torn, edits, uploadFails>> /\ starts' \in 0..UploadStarts
    BY <1>2, <1>11 DEF A!StartCurate, A!Starts
  <2> HIDE DEF k
  <2> QED
    BY <1>1, <1>9, <2>3, <2>4, <2>5
<1>12. ASSUME NEW r \in Uploads, NEW c \in Command, c = upload[r], NEW k \in Command, k.todo = c.todo, c.at # "idle",
              upload' = [upload EXCEPT ![r] = k],
              UNCHANGED <<library, headline, torn, starts, edits>>, filed' \subseteq Artifacts,
              uploadFails' \in 0..UploadFails
       PROVE  UploadCounted'
  <2>1. HasWork(k)
    BY <1>5, <1>12 DEF HasWork
  <2> QED
    BY <1>1, <1>9, <1>12, <2>1
<1>13. ASSUME NEW r \in Uploads, A!Ends(r), UNCHANGED <<library, headline, torn, starts, edits>>, filed' \subseteq Artifacts,
              uploadFails' \in 0..UploadFails
       PROVE  UploadCounted'
  BY <1>1, <1>4, <1>9, <1>13 DEF A!Ends
<1>14. ASSUME NEW r \in Uploads, NEW at \in {"review", "write", "headline"}, A!Sets(r, at), upload[r].at # "idle",
              UNCHANGED <<library, headline, torn, starts, edits>>, filed' \subseteq Artifacts,
              uploadFails' \in 0..UploadFails
       PROVE  UploadCounted'
  <2>1. PICK c \in Command : c = upload[r]
    BY <1>5
  <2>2. [c EXCEPT !.at = at] \in Command /\ [c EXCEPT !.at = at].todo = c.todo
    BY DEF Command
  <2> QED
    BY <1>12, <1>14, <2>1, <2>2 DEF A!Sets
<1>15. ASSUME NEW r \in Uploads, A!Advances(r), UNCHANGED <<library, torn, starts, edits>>,
              headline' \subseteq Artifacts, filed' \subseteq Artifacts, uploadFails' \in 0..UploadFails
       PROVE  UploadCounted'
  <2>1. PICK c \in Command : c = upload[r]
    BY <1>5
  <2>2. PICK todo \in SUBSET Artifacts : todo = c.todo \ {A!Head(r)}
    BY DEF Command
  <2>3. upload' = [upload EXCEPT ![r] = IF todo = {} THEN A!Idle ELSE [c EXCEPT !.at = "filter", !.todo = todo]]
    BY <1>15, <2>1, <2>2 DEF A!Advances
  <2>4. [c EXCEPT !.at = "filter", !.todo = todo] \in Command
        /\ (todo # {} => HasWork([c EXCEPT !.at = "filter", !.todo = todo]))
    BY DEF Command, HasWork
  <2> QED
    BY <1>1, <1>4, <1>9, <1>15, <2>3, <2>4
<1>16. ASSUME NEW r \in Uploads, A!Plan(r) PROVE UploadCounted'
  <2>1. PICK c \in Command : c = upload[r]
    BY <1>5
  <2>2. PICK plan : plan = [n \in Artifacts |-> IF file[n] = Bad THEN Empty ELSE file[n]]
    OBVIOUS
  <2>3. plan \in [Artifacts -> A!Bodies \cup {NoBody, Empty}]
    BY <2>2 DEF UploadInv, UploadTyped
  <2> DEFINE k == [c EXCEPT !.at = "gate", !.plan = plan]
  <2>4. k \in Command /\ k.todo = c.todo
    BY <2>3 DEF Command
  <2>5. upload' = [upload EXCEPT ![r] = k]
    BY <1>16, <2>1, <2>2 DEF A!Plan, UploadInv, UploadTyped
  <2>6. UNCHANGED <<library, headline, filed, torn, starts, edits, uploadFails>> /\ c.at # "idle"
    BY <1>16, <2>1 DEF A!Plan
  <2> HIDE DEF k
  <2> QED
    BY <1>1, <1>12, <2>1, <2>4, <2>5, <2>6
<1>17. ASSUME NEW r \in Uploads, A!AskGate(r) PROVE UploadCounted'
  <2>1. PICK c \in Command : c = upload[r]
    BY <1>5
  <2>2. PICK gate \in BOOLEAN : upload' = [upload EXCEPT ![r].at = "filter", ![r].gate = gate]
    BY <1>17 DEF A!AskGate
  <2>3. /\ UNCHANGED <<library, headline, filed, torn, starts, edits>> /\ c.at # "idle"
        /\ uploadFails' \in 0..UploadFails
    BY <1>1, <1>3, <1>17, <2>1 DEF A!AskGate
  <2> DEFINE k == [c EXCEPT !.at = "filter", !.gate = gate]
  <2>4. k \in Command /\ k.todo = c.todo
    BY DEF Command
  <2>5. upload' = [upload EXCEPT ![r] = k]
    BY <2>1, <2>2 DEF UploadInv, UploadTyped
  <2> HIDE DEF k
  <2> QED
    BY <1>1, <1>12, <2>1, <2>3, <2>4, <2>5
<1>18. ASSUME NEW r \in Uploads, A!Filter(r) PROVE UploadCounted'
  <2>1. /\ UNCHANGED <<library, headline, filed, torn, starts, edits, uploadFails>> /\ upload[r].at # "idle"
        /\ A!Ends(r) \/ A!Sets(r, "review") \/ A!Sets(r, "write")
    BY <1>18 DEF A!Filter
  <2> QED
    BY <1>1, <1>13, <1>14, <2>1
<1>19. ASSUME NEW r \in Uploads, A!Review(r) PROVE UploadCounted'
  <2>1. /\ UNCHANGED <<library, headline, filed, torn, starts, edits, uploadFails>> /\ upload[r].at # "idle"
        /\ A!Ends(r) \/ A!Sets(r, "write")
    BY <1>19 DEF A!Review
  <2> QED
    BY <1>1, <1>13, <1>14, <2>1
<1>20. ASSUME NEW r \in Uploads, A!Write(r) PROVE UploadCounted'
  <2>1. upload[r].at # "idle"
    BY <1>20 DEF A!Write
  <2>2. A!Head(r) \in Artifacts
    BY <2>1, HeadIsArtifact
  <2>3. /\ UNCHANGED <<library, headline, torn, starts, edits>>
        /\ filed' \in {filed, filed \cup {A!Head(r)}}
        /\ uploadFails' = uploadFails \/ A!Fails
        /\ A!Ends(r) \/ A!Sets(r, "headline") \/ A!Advances(r)
    BY <1>20 DEF A!Write, A!Lands, A!LandsUntagged
  <2>4. filed' \subseteq Artifacts /\ uploadFails' \in 0..UploadFails /\ headline' \subseteq Artifacts
    BY <1>1, <1>3, <2>2, <2>3
  <2> QED
    BY <1>13, <1>14, <1>15, <2>1, <2>3, <2>4
<1>21. ASSUME NEW r \in Uploads, A!FillHeadline(r) PROVE UploadCounted'
  <2>1. A!Head(r) \in Artifacts
    BY <1>21, HeadIsArtifact DEF A!FillHeadline
  <2>2. /\ UNCHANGED <<library, torn, starts, edits, uploadFails>> /\ A!Advances(r)
        /\ filed' \in {filed, filed \cup {A!Head(r)}} /\ headline' \in {headline, headline \cup {A!Head(r)}}
    BY <1>21 DEF A!FillHeadline, A!Lands
  <2>3. filed' \subseteq Artifacts /\ headline' \subseteq Artifacts
    BY <1>1, <2>1, <2>2
  <2> QED
    BY <1>1, <1>15, <2>2, <2>3
<1>22. ASSUME NEW r \in Uploads, A!Curate(r) PROVE UploadCounted'
  <2>1. A!Head(r) \in Artifacts
    BY <1>22, HeadIsArtifact DEF A!Curate
  <2>2. /\ UNCHANGED <<library, headline, torn, starts, edits, uploadFails>> /\ A!Ends(r)
        /\ filed' \in {filed, filed \cup {A!Head(r)}}
    BY <1>22 DEF A!Curate, A!Lands
  <2>3. filed' \subseteq Artifacts
    BY <1>1, <2>1, <2>2
  <2> QED
    BY <1>1, <1>13, <2>2, <2>3
<1>23. CASE A!UploadFile
  <2>1. PICK n \in Artifacts : filed' \in {filed, filed \ {n}} /\ torn' \in {torn, torn \cup {n}}
    BY <1>23 DEF A!UploadFile
  <2>2. filed' \subseteq Artifacts /\ torn' \subseteq Artifacts
    BY <1>1, <2>1
  <2>3. uploadFails' = uploadFails \/ A!Fails
    BY <1>23 DEF A!UploadFile
  <2>4. starts' \in 0..UploadStarts /\ UNCHANGED <<upload, library, headline, edits>>
    BY <1>2, <1>23 DEF A!UploadFile
  <2> QED
    BY <1>1, <1>3, <2>2, <2>3, <2>4, WorkMoves
<1> QED
  BY <1>6, <1>7, <1>8, <1>10, <1>11, <1>16, <1>17, <1>18, <1>19, <1>20, <1>21, <1>22, <1>23 DEF A!Next

LEMMA UploadTypes == UploadBounds => (A!Spec => []A!TypeOK)
<1> SUFFICES ASSUME UploadBounds PROVE A!Spec => []A!TypeOK
  OBVIOUS
<1>1. A!Init => UploadInv /\ UploadCounted
  <2> SUFFICES ASSUME A!Init PROVE UploadCounted
    BY UploadBegins DEF UploadBounds
  <2>1. 0 \in 0..UploadStarts /\ 0 \in 0..UploadEdits /\ 0 \in 0..UploadFails
    BY DEF UploadBounds
  <2>2. \A r \in Uploads : HasWork(upload[r])
    BY DEF A!Init, A!Idle, HasWork
  <2> QED
    BY <2>1, <2>2 DEF A!Init, A!Bodies, UploadCounted
<1>2. UploadInv /\ UploadCounted /\ [A!Next]_(A!uploadVars) => UploadInv' /\ UploadCounted'
  BY UploadKept, UploadCounts DEF UploadBounds
<1>3. UploadInv /\ UploadCounted => A!TypeOK
  BY DEF UploadInv, UploadTyped, Command, UploadCounted, HasWork, A!TypeOK
<1> QED
  BY <1>1, <1>2, <1>3, PTL DEF A!Spec

LEMMA ProjectTypes == ProjectBounds /\ HomeFails \in Nat => (P!Spec => []P!TypeOK)
<1> SUFFICES ASSUME ProjectBounds, HomeFails \in Nat PROVE P!Spec => []P!TypeOK
  OBVIOUS
<1>1. P!Init => ProjectsInv /\ ProjectsCounted
  BY ProjectsBegin DEF P!Init, ProjectsCounted
<1>2. ProjectsInv /\ ProjectsCounted /\ [P!Next]_(P!projectsVars) => ProjectsInv' /\ ProjectsCounted'
  BY ProjectsStep, ProjectsCount
<1>3. ProjectsInv /\ ProjectsCounted => P!TypeOK
  BY DEF ProjectsInv, ProjectsTyped, Request, UpdateSteps, Archiving, ProjectsCounted, P!TypeOK
<1> QED
  BY <1>1, <1>2, <1>3, PTL DEF P!Spec

-----------------------------------------------------------------------------
\* Every step of the run is a step of one part, and leaves the others alone.
LEMMA RecordsStep ==
    ASSUME [MCNext]_allVars
    PROVE  /\ [Next]_vars /\ [S!Next]_(S!treeVars) /\ [U!Next]_(U!summaryVars) /\ [P!Next]_(P!projectsVars)
           /\ [V!Next]_(V!variablesVars) /\ [A!Next]_(A!uploadVars)
<1>1. /\ UNCHANGED treeVars => UNCHANGED S!treeVars
      /\ UNCHANGED summaryVars => UNCHANGED U!summaryVars
      /\ UNCHANGED projectsVars => UNCHANGED P!projectsVars
      /\ UNCHANGED variablesVars => UNCHANGED V!variablesVars
      /\ UNCHANGED uploadVars => UNCHANGED A!uploadVars
  BY DEF treeVars, summaryVars, projectsVars, variablesVars, uploadVars, S!treeVars, U!summaryVars, P!projectsVars,
     V!variablesVars, A!uploadVars
<1>2. CASE UNCHANGED allVars
  BY <1>1, <1>2 DEF allVars
<1>3. CASE MCNext
  BY <1>1, <1>3
     DEF MCNext, GateNext, TreeNext, SummaryNext, ProjectsNext, VariablesNext, UploadNext
<1> QED
  BY <1>2, <1>3

RecordBounds ==
    /\ TreeBounds /\ TreeFaults \in Nat
    /\ SummaryBounds /\ SummaryWrites \in Nat /\ SummaryFails \in Nat
    /\ ProjectBounds /\ HomeFails \in Nat
    /\ VariableBounds
    /\ UploadBounds

\* In the run that has them all, the parts are what their types say, the ledger and the summary
\* tell of the stories, the projects, their homes and their mounts are kept, the variables that
\* were set stand, and the artifacts have been judged.  For any values of the constants, within
\* the bounds of the parts.
THEOREM RecordsAreSound ==
    RecordBounds => (MCSpec => [](RecordTypes /\ VariablesKept /\ UploadsJudged) /\ StoryTold /\ ProjectsKept)
<1> SUFFICES ASSUME RecordBounds
             PROVE  MCSpec => [](RecordTypes /\ VariablesKept /\ UploadsJudged) /\ StoryTold /\ ProjectsKept
  OBVIOUS
<1>1. MCInit => Init /\ S!Init /\ U!Init /\ P!Init /\ V!Init /\ A!Init
  BY DEF MCInit
<1>2. [MCNext]_allVars =>
        /\ [Next]_vars /\ [S!Next]_(S!treeVars) /\ [U!Next]_(U!summaryVars) /\ [P!Next]_(P!projectsVars)
        /\ [V!Next]_(V!variablesVars) /\ [A!Next]_(A!uploadVars)
  BY RecordsStep
<1>3. MCSpec => Spec /\ S!Spec /\ U!Spec /\ P!Spec /\ V!Spec /\ A!Spec
  BY <1>1, <1>2, PTL DEF MCSpec, Spec, S!Spec, U!Spec, P!Spec, V!Spec, A!Spec
<1>4. /\ Spec => []TypeOK
      /\ S!Spec => []S!TypeOK
      /\ U!Spec => []U!TypeOK
      /\ P!Spec => []P!TypeOK
      /\ A!Spec => []A!TypeOK
  BY TypeCorrect, TreeTypes, SummaryTypes, ProjectTypes, UploadTypes DEF RecordBounds
<1>5. V!Spec => [](V!TypeOK /\ VariablesKept)
  BY VariablesStand DEF RecordBounds
<1>6. A!Spec => []UploadsJudged
  BY UploadsAreJudged DEF RecordBounds, UploadBounds
<1>7. S!Spec /\ U!Spec => StoryTold
  BY StoryIsTold DEF RecordBounds
<1>8. P!Spec => ProjectsKept
  BY ProjectsAreKept DEF RecordBounds
<1>9. TypeOK /\ S!TypeOK /\ U!TypeOK /\ P!TypeOK /\ V!TypeOK /\ A!TypeOK => RecordTypes
  BY DEF RecordTypes
<1> QED
  BY <1>3, <1>4, <1>5, <1>6, <1>7, <1>8, <1>9, PTL
=============================================================================
