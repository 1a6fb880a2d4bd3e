---------------------------- MODULE ClientProofs ----------------------------
(***************************************************************************)
(* The theorems about what the client leaves on a machine: the index of a  *)
(* clone's symbols (CodeIndex), the command on the PATH (Binary) and the   *)
(* files of an init (Scaffold), and what the parts of the client make of   *)
(* the run that composes them.                                             *)
(***************************************************************************)
EXTENDS RowsProofs

\* The index of a clone (CodeIndex).
IndexBounds ==
    /\ SourceFiles \in Seq(STRING) /\ SourceFiles # <<>>
    /\ \A i, j \in DOMAIN SourceFiles : SourceFiles[i] = SourceFiles[j] => i = j
    /\ 0 \notin SourceTexts /\ BadText \notin SourceTexts \cup {0} /\ NoText \notin SourceTexts \cup {0, BadText}
    /\ Indexings \in Nat /\ SourceEdits \in Nat /\ Cuts \in Nat

Parsed == UNION {[these -> SourceTexts] : these \in SUBSET X!Names}
IndexRun ==
    [at : {"idle", "walk", "write"}, n : 0..Len(SourceFiles) + 1, full : BOOLEAN,
     prior : [X!Names -> SourceTexts \cup {0}], changed : Parsed,
     seen : SUBSET X!Names, clean : SUBSET X!Names]

IndexTyped ==
    /\ source \in [X!Names -> SourceTexts \cup {BadText, NoText}]
    /\ hash \in [X!Names -> SourceTexts \cup {0}] /\ symbols \in [X!Names -> SourceTexts \cup {0}]
    /\ indexing \in [Requests -> IndexRun] /\ sound \in SUBSET X!Names
    /\ indexings \in 0..Indexings /\ sourceEdits \in 0..SourceEdits /\ indexCuts \in 0..Cuts

\* The files a run has been at.
Passed(k) == {SourceFiles[i] : i \in {j \in DOMAIN SourceFiles : j < k.n}}

\* What a run that nobody disturbed has of a file: nothing before it comes there, and then what
\* the file holds, unless the index has it already.
Gathered(k, f) ==
    /\ f \notin Passed(k) => f \notin k.seen /\ f \notin DOMAIN k.changed
    /\ f \in Passed(k) =>
          \/ f \notin k.seen /\ f \notin DOMAIN k.changed /\ source[f] \notin SourceTexts
          \/ f \in k.seen /\ f \notin DOMAIN k.changed /\ k.prior[f] = source[f]
          \/ f \in DOMAIN k.changed /\ k.changed[f] = source[f] /\ source[f] \in SourceTexts

\* What is clean of a run is so because no other wrote since it read the hashes.
IndexFits(k) ==
    /\ k.at = "walk" => k.n \in DOMAIN SourceFiles
    /\ k.at = "write" => k.n = Len(SourceFiles) + 1
    /\ k.at # "idle" /\ k.clean # {} => k.prior = hash
    /\ k.at # "idle" => \A f \in k.clean : Gathered(k, f)

IndexInv ==
    /\ IndexTyped /\ X!HashHonest /\ X!IndexCurrent
    /\ \A r \in Requests : IndexFits(indexing[r])

LEMMA IndexFilesIs ==
    ASSUME IndexBounds
    PROVE  /\ Len(SourceFiles) \in Nat /\ Len(SourceFiles) > 0 /\ DOMAIN SourceFiles = 1..Len(SourceFiles)
           /\ \A i \in DOMAIN SourceFiles : SourceFiles[i] \in X!Names
           /\ \A f \in X!Names : \E i \in DOMAIN SourceFiles : f = SourceFiles[i]
           /\ 0 \in 0..Len(SourceFiles) + 1 /\ 1 \in DOMAIN SourceFiles
<1>1. Len(SourceFiles) \in Nat /\ Len(SourceFiles) > 0 /\ DOMAIN SourceFiles = 1..Len(SourceFiles)
  BY EmptySeq, LenProperties DEF IndexBounds
<1> QED
  BY <1>1 DEF X!Names

LEMMA IndexIdle ==
    ASSUME IndexBounds
    PROVE  X!Idle \in IndexRun /\ X!Idle.at = "idle" /\ IndexFits(X!Idle)
<1>1. [f \in {} |-> X!None] \in Parsed
  BY DEF Parsed
<1>2. [f \in X!Names |-> X!None] \in [X!Names -> SourceTexts \cup {0}]
  BY DEF X!None
<1>3. X!Idle \in IndexRun
  BY <1>1, <1>2, IndexFilesIs DEF X!Idle, IndexRun
<1> QED
  BY <1>3 DEF X!Idle, IndexFits

LEMMA IndexInit ==
    ASSUME IndexBounds, X!Init
    PROVE  IndexInv
<1>1. IndexTyped
  BY IndexIdle DEF X!Init, IndexTyped, X!None, IndexBounds
<1>2. X!HashHonest /\ X!IndexCurrent
  BY DEF X!Init, X!HashHonest, X!IndexCurrent
<1>3. \A r \in Requests : indexing[r] = X!Idle
  BY DEF X!Init
<1> QED
  BY <1>1, <1>2, <1>3, IndexIdle DEF IndexInv

\* A step of one run that leaves files and index as they are.
LEMMA IndexKeeps ==
    ASSUME IndexInv, NEW r \in Requests, NEW k \in IndexRun, IndexFits(k),
           indexing' = [indexing EXCEPT ![r] = k], UNCHANGED <<source, hash, symbols, sound>>,
           indexings' \in 0..Indexings, UNCHANGED sourceEdits, indexCuts' \in 0..Cuts
    PROVE  IndexInv'
<1>1. IndexTyped'
  BY DEF IndexInv, IndexTyped
<1>2. X!HashHonest' /\ X!IndexCurrent'
  BY DEF IndexInv, X!HashHonest, X!IndexCurrent
<1>3. ASSUME NEW q \in Requests PROVE IndexFits(indexing[q])'
  <2>1. PICK c : c = indexing'[q] /\ IndexFits(c)
    BY DEF IndexInv, IndexTyped
  <2>2. IndexFits(c)'
    BY <2>1 DEF IndexFits, Gathered, Passed
  <2> QED
    BY <2>1, <2>2
<1> QED
  BY <1>1, <1>2, <1>3 DEF IndexInv

LEMMA IndexStart ==
    ASSUME IndexBounds, IndexInv, NEW r \in Requests, X!Start(r)
    PROVE  IndexInv'
<1>1. PICK full \in BOOLEAN, clean \in {X!Names, {}} :
        indexing' = [indexing EXCEPT ![r] = [X!Idle EXCEPT !.at = "walk", !.n = 1, !.full = full, !.prior = hash,
                                                           !.clean = clean]]
  BY Zenon DEF X!Start, X!Set
<1> DEFINE k == [X!Idle EXCEPT !.at = "walk", !.n = 1, !.full = full, !.prior = hash, !.clean = clean]
<1>2. k \in IndexRun
  <2>1. hash \in [X!Names -> SourceTexts \cup {0}] /\ clean \in SUBSET X!Names
    BY DEF IndexInv, IndexTyped
  <2>2. 1 \in 0..Len(SourceFiles) + 1
    BY IndexFilesIs
  <2>3. "walk" \in {"idle", "walk", "write"}
    OBVIOUS
  <2> QED
    BY <2>1, <2>2, <2>3, IndexIdle DEF IndexRun
<1>3. k.at = "walk" /\ k.n = 1 /\ k.prior = hash /\ k.seen = {} /\ DOMAIN k.changed = {} /\ k.clean \subseteq X!Names
  BY DEF X!Idle
<1> HIDE DEF k
<1>4. Passed(k) = {}
  BY <1>3, IndexFilesIs DEF Passed
<1>5. IndexFits(k)
  BY <1>3, <1>4, IndexFilesIs DEF IndexFits, Gathered
<1>6. indexings' \in 0..Indexings
  BY DEF X!Start, IndexInv, IndexTyped, IndexBounds
<1> QED
  BY <1>1, <1>2, <1>5, <1>6, IndexKeeps DEF X!Start, k, IndexInv, IndexTyped

\* What a step of the walk leaves of the run.
Walked(r, old, k, f, i) ==
    /\ old = indexing[r] /\ f = SourceFiles[i] /\ i = old.n /\ old.at = "walk"
    /\ indexing' = [indexing EXCEPT ![r] = k]
    /\ k.at = (IF i = Len(SourceFiles) THEN "write" ELSE "walk") /\ k.n = i + 1
    /\ k.prior = old.prior /\ k.clean = old.clean
    /\ \/ k.seen = old.seen /\ k.changed = old.changed /\ source[f] \notin SourceTexts
       \/ k.seen = old.seen \cup {f} /\ k.changed = old.changed /\ old.prior[f] = source[f]
       \/ /\ k.seen = old.seen \cup {f} /\ source[f] \in SourceTexts
          /\ DOMAIN k.changed = DOMAIN old.changed \cup {f} /\ k.changed[f] = source[f]
          /\ \A g \in DOMAIN old.changed \ {f} : k.changed[g] = old.changed[g]
LEMMA WalkIs ==
    ASSUME IndexBounds, IndexInv, NEW r \in Requests, X!Walk(r)
    PROVE  \E old, k \in IndexRun, f \in X!Names, i \in DOMAIN SourceFiles :
             Walked(r, old, k, f, i)
<1>1. PICK old \in IndexRun : old = indexing[r] /\ IndexFits(old)
  BY DEF IndexInv, IndexTyped
<1>2. old.at = "walk" /\ old.n \in DOMAIN SourceFiles
  BY <1>1 DEF X!Walk, IndexFits
<1> DEFINE i == old.n
           f == SourceFiles[i]
           at == IF i = Len(SourceFiles) THEN "write" ELSE "walk"
           on == [old EXCEPT !.n = @ + 1, !.at = at]
           kept == [old EXCEPT !.n = @ + 1, !.at = at, !.seen = @ \cup {f}]
           c == [g \in DOMAIN old.changed \cup {f} |-> IF g = f THEN source[f] ELSE old.changed[g]]
           new == [old EXCEPT !.n = @ + 1, !.at = at, !.seen = @ \cup {f}, !.changed = c]
<1>3. f \in X!Names /\ i + 1 \in 0..Len(SourceFiles) + 1 /\ at \in {"idle", "walk", "write"}
  BY <1>2, IndexFilesIs
<1>4. on \in IndexRun /\ kept \in IndexRun
  BY <1>3 DEF IndexRun
<1>5. source[f] \in SourceTexts => new \in IndexRun
  <2> SUFFICES ASSUME source[f] \in SourceTexts PROVE new \in IndexRun
    OBVIOUS
  <2>1. PICK these \in SUBSET X!Names : old.changed \in [these -> SourceTexts]
    BY DEF IndexRun, Parsed
  <2>2. c \in [these \cup {f} -> SourceTexts]
    BY <2>1
  <2>3. c \in Parsed
    BY <1>3, <2>2 DEF Parsed
  <2> HIDE DEF c
  <2> QED
    BY <1>3, <2>3 DEF IndexRun
<1>6. \/ source[f] = NoText /\ indexing' = [indexing EXCEPT ![r] = on]
      \/ old.prior[f] = source[f] /\ indexing' = [indexing EXCEPT ![r] = kept]
      \/ source[f] = BadText /\ indexing' = [indexing EXCEPT ![r] = on]
      \/ /\ source[f] # NoText /\ source[f] # BadText
         /\ indexing' = [indexing EXCEPT ![r] = new]
  BY <1>1, <1>2 DEF X!Walk, X!Set, X!Current, X!Extracted, IndexRun
<1>7. source[f] \in SourceTexts \cup {BadText, NoText} /\ BadText \notin SourceTexts /\ NoText \notin SourceTexts
  BY <1>3 DEF IndexInv, IndexTyped, IndexBounds
<1>8. on.at = at /\ on.n = i + 1 /\ on.prior = old.prior /\ on.clean = old.clean /\ on.seen = old.seen /\ on.changed = old.changed
  BY DEF IndexRun
<1>9. /\ kept.at = at /\ kept.n = i + 1 /\ kept.prior = old.prior /\ kept.clean = old.clean
      /\ kept.seen = old.seen \cup {f} /\ kept.changed = old.changed
  BY DEF IndexRun
<1>10. /\ new.at = at /\ new.n = i + 1 /\ new.prior = old.prior /\ new.clean = old.clean
       /\ new.seen = old.seen \cup {f} /\ new.changed = c
  BY DEF IndexRun
<1> HIDE DEF on, kept, new
<1> HIDE DEF c
<1>11. CASE source[f] \notin SourceTexts /\ indexing' = [indexing EXCEPT ![r] = on]
  <2>1. Walked(r, old, on, f, i)
    BY <1>1, <1>2, <1>8, <1>11 DEF Walked
  <2> QED
    BY <1>2, <1>3, <1>4, <2>1
<1>12. CASE old.prior[f] = source[f] /\ indexing' = [indexing EXCEPT ![r] = kept]
  <2>1. Walked(r, old, kept, f, i)
    BY <1>1, <1>2, <1>9, <1>12 DEF Walked
  <2> QED
    BY <1>2, <1>3, <1>4, <2>1
<1>13. CASE source[f] \in SourceTexts /\ indexing' = [indexing EXCEPT ![r] = new]
  <2>1. /\ DOMAIN new.changed = DOMAIN old.changed \cup {f} /\ new.changed[f] = source[f]
        /\ \A g \in DOMAIN old.changed \ {f} : new.changed[g] = old.changed[g]
    BY <1>10 DEF c
  <2>2. Walked(r, old, new, f, i)
    BY <1>1, <1>2, <1>10, <1>13, <2>1 DEF Walked
  <2> QED
    BY <1>2, <1>3, <1>5, <1>13, <2>2
<1> QED
  BY <1>6, <1>7, <1>11, <1>12, <1>13

LEMMA IndexWalk ==
    ASSUME IndexBounds, IndexInv, NEW r \in Requests, X!Walk(r)
    PROVE  IndexInv'
<1>1. PICK old, k \in IndexRun, f \in X!Names, i \in DOMAIN SourceFiles :
             Walked(r, old, k, f, i)
  BY WalkIs
<1> USE DEF Walked
<1>2. IndexFits(old)
  BY <1>1 DEF IndexInv
<1>3. Passed(k) = Passed(old) \cup {f} /\ f \notin Passed(old)
  <2>1. i \in Nat
    BY <1>1, IndexFilesIs
  <2>2. \A j \in DOMAIN SourceFiles : j < i + 1 <=> j < i \/ j = i
    BY <2>1, IndexFilesIs
  <2>3. \A j \in DOMAIN SourceFiles : SourceFiles[j] = f => j = i
    BY <1>1 DEF IndexBounds
  <2>4. ~ (i < i)
    BY <2>1
  <2> QED
    BY <1>1, <2>2, <2>3, <2>4 DEF Passed
<1>4. ASSUME NEW g \in k.clean PROVE Gathered(k, g)
  <2>1. Gathered(old, g) /\ Gathered(old, f) = Gathered(old, f)
    BY <1>1, <1>2, <1>4 DEF IndexFits
  <2>2. CASE g # f
    BY <1>1, <1>3, <2>1, <2>2 DEF Gathered
  <2>3. CASE g = f
    BY <1>1, <1>3, <2>1, <2>3 DEF Gathered
  <2> QED
    BY <2>2, <2>3
<1>5. k.at = "walk" => k.n \in DOMAIN SourceFiles
  BY <1>1, IndexFilesIs
<1>6. IndexFits(k)
  BY <1>1, <1>2, <1>4, <1>5 DEF IndexFits
<1> QED
  BY <1>1, <1>6, IndexKeeps DEF X!Walk, IndexInv, IndexTyped

LEMMA IndexCutOff ==
    ASSUME IndexBounds, IndexInv, NEW r \in Requests, X!CutOff(r)
    PROVE  IndexInv'
<1>1. indexing' = [indexing EXCEPT ![r] = X!Idle] /\ UNCHANGED <<source, hash, symbols, sound, indexings, sourceEdits>>
  BY DEF X!CutOff, X!Set
<1>2. indexCuts' \in 0..Cuts
  BY DEF X!CutOff, IndexInv, IndexTyped, IndexBounds
<1> QED
  BY <1>1, <1>2, IndexIdle, IndexKeeps DEF IndexInv, IndexTyped

\* The transaction: what a file is after it, by what the run has of it.
LEMMA IndexReconcile ==
    ASSUME IndexBounds, IndexInv, NEW r \in Requests, X!Reconcile(r)
    PROVE  IndexInv'
<1>1. PICK old \in IndexRun : old = indexing[r] /\ IndexFits(old) /\ old.at = "write" /\ old.n = Len(SourceFiles) + 1
  BY DEF IndexInv, IndexTyped, X!Reconcile, IndexFits
<1>2. \A f \in X!Names : f \in Passed(old)
  <2>1. \A j \in DOMAIN SourceFiles : j < old.n
    BY <1>1, IndexFilesIs
  <2> QED
    BY <2>1, IndexFilesIs DEF Passed
<1>3. /\ hash' = [f \in X!Names |-> X!Row(r, f, hash[f])]
      /\ symbols' = [f \in X!Names |-> X!Row(r, f, symbols[f])]
      /\ sound' = old.clean /\ indexing' = X!Others(r)
      /\ UNCHANGED <<source, indexings, sourceEdits, indexCuts>>
  BY <1>1 DEF X!Reconcile
<1>4. \A f \in X!Names : \A row : X!Row(r, f, row) =
         IF f \in DOMAIN old.changed THEN old.changed[f]
         ELSE IF old.prior[f] # 0 /\ f \notin old.seen THEN 0 ELSE row
  BY <1>1 DEF X!Row, X!Pruned, X!None
<1>5. \A f \in X!Names : f \in DOMAIN old.changed => old.changed[f] \in SourceTexts
  BY DEF IndexRun, Parsed
<1>6. hash' \in [X!Names -> SourceTexts \cup {0}] /\ symbols' \in [X!Names -> SourceTexts \cup {0}]
  <2>1. \A f \in X!Names : hash[f] \in SourceTexts \cup {0} /\ symbols[f] \in SourceTexts \cup {0}
    BY DEF IndexInv, IndexTyped
  <2>2. \A f \in X!Names : X!Row(r, f, hash[f]) \in SourceTexts \cup {0} /\ X!Row(r, f, symbols[f]) \in SourceTexts \cup {0}
    BY <1>4, <1>5, <2>1
  <2> QED
    BY <1>3, <2>2
<1>7. X!HashHonest'
  BY <1>3 DEF IndexInv, X!HashHonest
<1>8. ASSUME NEW f \in old.clean
      PROVE  IF source[f] \in SourceTexts THEN symbols'[f] = source[f] ELSE symbols'[f] = 0
  <2>1. f \in X!Names /\ Gathered(old, f) /\ f \in Passed(old) /\ old.prior[f] = hash[f] /\ hash[f] = symbols[f]
    BY <1>1, <1>2 DEF IndexFits, IndexRun, IndexInv, X!HashHonest
  <2>2. symbols'[f] = X!Row(r, f, symbols[f])
    BY <1>3, <2>1
  <2>3. source[f] \in SourceTexts \cup {BadText, NoText} /\ hash[f] \in SourceTexts \cup {0}
        /\ 0 \notin SourceTexts /\ BadText # 0 /\ NoText # 0
    BY <2>1 DEF IndexInv, IndexTyped, IndexBounds
  <2>4. symbols'[f] = IF f \in DOMAIN old.changed THEN old.changed[f]
                      ELSE IF old.prior[f] # 0 /\ f \notin old.seen THEN 0 ELSE symbols[f]
    BY <1>4, <2>1, <2>2
  <2> QED
    BY <2>1, <2>3, <2>4 DEF Gathered
<1>9. X!IndexCurrent'
  BY <1>3, <1>8 DEF X!IndexCurrent, X!None
<1>10. ASSUME NEW q \in Requests PROVE indexing'[q] \in IndexRun /\ IndexFits(indexing[q])'
  <2>1. CASE q = r
    <3>1. indexing'[q] = X!Idle
      BY <1>3, <2>1 DEF X!Others
    <3>2. IndexFits(X!Idle)'
      BY DEF IndexFits, X!Idle
    <3> QED
      BY <3>1, <3>2, IndexIdle
  <2>2. CASE q # r
    <3>1. PICK k \in IndexRun : k = indexing[q] /\ IndexFits(k)
      BY DEF IndexInv, IndexTyped
    <3> DEFINE c == [k EXCEPT !.clean = {}]
    <3>2. indexing'[q] = c
      BY <1>3, <2>2, <3>1 DEF X!Others
    <3>3. c \in IndexRun /\ c.at = k.at /\ c.n = k.n /\ c.clean = {}
      BY DEF IndexRun
    <3> HIDE DEF c
    <3>4. IndexFits(c)'
      BY <3>1, <3>3 DEF IndexFits
    <3> QED
      BY <3>2, <3>3, <3>4
  <2> QED
    BY <2>1, <2>2
<1>11. IndexTyped'
  <2>1. indexing' \in [Requests -> IndexRun]
    <3>1. indexing' = [q \in Requests |-> indexing'[q]]
      BY <1>3 DEF X!Others
    <3> QED
      BY <1>10, <3>1
  <2> QED
    BY <1>3, <1>6, <2>1 DEF IndexInv, IndexTyped, IndexRun
<1> QED
  BY <1>7, <1>9, <1>10, <1>11 DEF IndexInv

LEMMA IndexEdit ==
    ASSUME IndexBounds, IndexInv, X!Edit
    PROVE  IndexInv'
<1>1. PICK f \in X!Names, text \in SourceTexts \cup {BadText, NoText} :
        /\ source' = [source EXCEPT ![f] = text] /\ sound' = sound \ {f}
        /\ indexing' = [q \in Requests |-> [indexing[q] EXCEPT !.clean = @ \ {f}]]
  BY DEF X!Edit
<1>2. UNCHANGED <<hash, symbols, indexings, indexCuts>> /\ sourceEdits' \in 0..SourceEdits
  BY DEF X!Edit, IndexInv, IndexTyped, IndexBounds
<1>3. source' \in [X!Names -> SourceTexts \cup {BadText, NoText}] /\ \A g \in X!Names : g # f => source'[g] = source[g]
  BY <1>1 DEF IndexInv, IndexTyped
<1>4. X!HashHonest' /\ X!IndexCurrent'
  BY <1>1, <1>2, <1>3 DEF IndexInv, IndexTyped, X!HashHonest, X!IndexCurrent
<1>5. ASSUME NEW q \in Requests PROVE indexing'[q] \in IndexRun /\ IndexFits(indexing[q])'
  <2>1. PICK k \in IndexRun : k = indexing[q] /\ IndexFits(k)
    BY DEF IndexInv, IndexTyped
  <2> DEFINE c == [k EXCEPT !.clean = @ \ {f}]
  <2>2. indexing'[q] = c
    BY <1>1, <2>1
  <2>3. /\ c \in IndexRun /\ c.at = k.at /\ c.n = k.n /\ c.prior = k.prior /\ c.seen = k.seen /\ c.changed = k.changed
        /\ c.clean = k.clean \ {f} /\ k.clean \subseteq X!Names
    BY DEF IndexRun
  <2> HIDE DEF c
  <2>4. \A g \in c.clean : c.at # "idle" => Gathered(c, g)'
    BY <1>3, <2>1, <2>3 DEF IndexFits, Gathered, Passed
  <2>5. IndexFits(c)'
    BY <1>2, <2>1, <2>3, <2>4 DEF IndexFits
  <2> QED
    BY <2>2, <2>3, <2>5
<1>6. IndexTyped'
  <2>1. indexing' \in [Requests -> IndexRun]
    BY <1>1, <1>5
  <2> QED
    BY <1>1, <1>2, <1>3, <2>1 DEF IndexInv, IndexTyped
<1> QED
  BY <1>4, <1>5, <1>6 DEF IndexInv

LEMMA IndexStep ==
    ASSUME IndexBounds, IndexInv, [X!Next]_X!codeIndexVars
    PROVE  IndexInv'
<1>1. CASE UNCHANGED X!codeIndexVars
  <2>1. UNCHANGED <<source, hash, symbols, indexing, sound, indexings, sourceEdits, indexCuts>>
    BY <1>1 DEF X!codeIndexVars
  <2> QED
    BY <2>1 DEF IndexInv, IndexTyped, X!HashHonest, X!IndexCurrent, IndexFits, Gathered, Passed
<1> QED
  BY <1>1, IndexStart, IndexWalk, IndexReconcile, IndexCutOff, IndexEdit DEF X!Next

\* The symbols of a clone's files are theirs: a hash is that of the text its symbols are of, and
\* an undisturbed run leaves what the files declare, for any files, runs and edits.
THEOREM SymbolsAreSound ==
    IndexBounds => (X!Spec => [](X!TypeOK /\ X!HashHonest /\ X!IndexCurrent))
<1> SUFFICES ASSUME IndexBounds PROVE X!Spec => [](X!TypeOK /\ X!HashHonest /\ X!IndexCurrent)
  OBVIOUS
<1>1. X!Init => IndexInv
  BY IndexInit
<1>2. IndexInv /\ [X!Next]_X!codeIndexVars => IndexInv'
  BY IndexStep
<1>3. IndexInv => X!TypeOK /\ X!HashHonest /\ X!IndexCurrent
  <2> SUFFICES ASSUME IndexInv PROVE X!TypeOK
    BY DEF IndexInv
  <2>1. \A r \in Requests : indexing[r].at \in {"idle", "walk", "write"} /\ indexing[r].n \in 0..Len(SourceFiles) + 1
    BY DEF IndexInv, IndexTyped, IndexRun
  <2> QED
    BY <2>1 DEF IndexInv, IndexTyped, X!TypeOK, X!None
<1> QED
  BY <1>1, <1>2, <1>3, PTL DEF X!Spec

-----------------------------------------------------------------------------
\* The command on the machine (Binary).
BinaryBounds ==
    /\ Preferred \in PathDirs /\ Local \notin PathDirs
    /\ LastRelease \in Nat /\ 1 <= LastRelease /\ LastRelease < C!Broken
    /\ Installed \subseteq [C!Names -> [is : {"none", "file", "link"}, v : 0..LastRelease, to : C!Names]]
    /\ Commands \in Nat

PathEntry == [is : {"none", "file", "link"}, v : 0..LastRelease, to : C!Names]
BinaryRun ==
    [at : {"idle", "get", "place", "sweep", "resolve", "unlink", "link"}, kind : {"", "install", "update"},
     name : C!Names, had : 0..LastRelease, tag : 0..LastRelease, got : 0..LastRelease \cup {C!Broken},
     force : BOOLEAN]

BinaryTyped ==
    /\ entry \in [C!Names -> PathEntry] /\ latest \in 1..LastRelease /\ binaryRun \in [Requests -> BinaryRun]
    /\ clashed \in SUBSET C!Names /\ stood \in BOOLEAN /\ halved \in BOOLEAN
    /\ binaryStarts \in 0..Commands /\ binaryFaults \in 0..2

Gets(k) == k.at \in {"get", "place"}

\* A run has in hand what may be replaced by what it got; what an update ran from is a file, and
\* it links to no other than that, which is on the PATH and not the command.
BinaryFits(k, e, h) ==
    /\ Gets(k) => k.kind \in {"install", "update"} /\ IF k.kind = "update" THEN k.tag > k.had ELSE k.had = 0 \/ k.force
    /\ k.at = "place" => k.got \in {k.tag, C!Broken}
    /\ k.at \in {"sweep", "resolve", "unlink", "link"} => k.kind = "update"
    /\ k.at \in {"unlink", "link"} => k.name.dir \in PathDirs /\ (~h => k.name # C!Global)
    /\ k.kind = "update" /\ ~h => e[k.name].is = "file"

Stands(e, runs, s, h) ==
    s /\ ~h => C!OnPath(e) \/ (e[C!Global].is = "none" /\ \E r \in Requests : runs[r].at = "link")

\* A name that no two runs had in hand is in the hand of one, and as it found it.
HandsApart ==
    \A r \in Requests : Gets(binaryRun[r]) /\ binaryRun[r].name \notin clashed =>
        /\ \A q \in Requests \ {r} : Gets(binaryRun[q]) => binaryRun[q].name # binaryRun[r].name
        /\ entry[binaryRun[r].name].is = "file" => entry[binaryRun[r].name].v = binaryRun[r].had

BinaryInv ==
    /\ BinaryTyped /\ HandsApart /\ Stands(entry, binaryRun, stood, halved)
    /\ \A r \in Requests : BinaryFits(binaryRun[r], entry, halved)

LEMMA BinaryNames ==
    ASSUME BinaryBounds
    PROVE  /\ C!Global \in C!Names /\ C!Global = C!Canonical(Preferred)
           /\ \A d \in PathDirs : C!Canonical(d) \in C!Names
           /\ \A n \in C!Names : C!Swept(n) => \A d \in PathDirs : n # C!Canonical(d)
           /\ C!None \in PathEntry /\ C!None.is = "none" /\ C!None.v = 0
           /\ \A n \in C!Names : C!Link(n) \in PathEntry /\ C!Link(n).is = "link" /\ C!Link(n).to = n /\ C!Link(n).v = 0
           /\ \A v \in 0..LastRelease : C!File(v) \in PathEntry /\ C!File(v).is = "file" /\ C!File(v).v = v
<1>1. C!Global \in C!Names /\ C!Global = C!Canonical(Preferred) /\ \A d \in PathDirs : C!Canonical(d) \in C!Names
  BY DEF BinaryBounds, C!Global, C!Names
<1>2. \A d, b \in PathDirs : C!Legacy(b) # C!Canonical(d)
  BY DEF C!Legacy, C!Canonical
<1>3. \A n \in C!Names : C!Swept(n) => \A d \in PathDirs : n # C!Canonical(d)
  BY <1>2 DEF C!Swept
<1>4. 0 \in 0..LastRelease
  BY DEF BinaryBounds
<1>5. C!None \in PathEntry /\ C!None.is = "none" /\ C!None.v = 0
  BY <1>1, <1>4 DEF C!None, PathEntry
<1>6. \A n \in C!Names : C!Link(n) \in PathEntry /\ C!Link(n).is = "link" /\ C!Link(n).to = n /\ C!Link(n).v = 0
  BY <1>4 DEF C!Link, PathEntry
<1>7. \A v \in 0..LastRelease : C!File(v) \in PathEntry /\ C!File(v).is = "file" /\ C!File(v).v = v
  BY <1>1 DEF C!File, PathEntry
<1> QED
  BY <1>1, <1>3, <1>5, <1>6, <1>7

LEMMA BinaryIdle ==
    ASSUME BinaryBounds
    PROVE  C!Idle \in BinaryRun /\ C!Idle.at = "idle" /\ C!Idle.kind = ""
<1>1. 0 \in 0..LastRelease /\ C!Global \in C!Names
  BY BinaryNames DEF BinaryBounds
<1> QED
  BY <1>1 DEF C!Idle, BinaryRun

LEMMA IdleFits ==
    ASSUME BinaryBounds, NEW e, NEW h
    PROVE  BinaryFits(C!Idle, e, h) /\ ~Gets(C!Idle)
  BY BinaryIdle DEF BinaryFits, Gets

LEMMA BinaryInit ==
    ASSUME BinaryBounds, C!Init
    PROVE  BinaryInv
<1>1. /\ entry \in Installed /\ latest = 1 /\ binaryRun = [r \in Requests |-> C!Idle] /\ clashed = {}
      /\ stood = C!OnPath(entry) /\ halved = FALSE /\ binaryStarts = 0 /\ binaryFaults = 0
  BY DEF C!Init
<1>2. C!Idle \in BinaryRun /\ ~Gets(C!Idle) /\ BinaryFits(C!Idle, entry, halved)
  BY BinaryIdle, IdleFits
<1>3. BinaryTyped
  <2>1. entry \in [C!Names -> PathEntry] /\ binaryRun \in [Requests -> BinaryRun] /\ clashed \in SUBSET C!Names
    BY <1>1, <1>2 DEF BinaryBounds, PathEntry
  <2>2. latest \in 1..LastRelease /\ binaryStarts \in 0..Commands /\ binaryFaults \in 0..2
    BY <1>1 DEF BinaryBounds
  <2>3. stood \in BOOLEAN /\ halved \in BOOLEAN
    BY <1>1 DEF C!OnPath
  <2> QED
    BY <2>1, <2>2, <2>3 DEF BinaryTyped
<1>4. HandsApart /\ \A r \in Requests : BinaryFits(binaryRun[r], entry, halved)
  BY <1>1, <1>2 DEF HandsApart
<1>5. Stands(entry, binaryRun, stood, halved)
  BY <1>1 DEF Stands
<1> QED
  BY <1>3, <1>4, <1>5 DEF BinaryInv

\* The command is found as before where files stay files, and the links of the PATH lead to what
\* they led to or are files now.
LEMMA PathKept ==
    ASSUME BinaryBounds, NEW e \in [C!Names -> PathEntry], NEW f \in [C!Names -> PathEntry],
           \A n \in C!Names : e[n].is = "file" => f[n].is = "file",
           \A d \in PathDirs : f[C!Canonical(d)] = e[C!Canonical(d)] \/ f[C!Canonical(d)].is = "file",
           C!OnPath(e)
    PROVE  C!OnPath(f)
<1>1. PICK d \in PathDirs : C!Leads(e, C!Canonical(d))
  BY DEF C!OnPath
<1>2. C!Canonical(d) \in C!Names /\ e[C!Canonical(d)].to \in C!Names
  BY BinaryNames DEF PathEntry
<1>3. C!Leads(f, C!Canonical(d))
  BY <1>1, <1>2 DEF C!Leads, C!Resolved
<1> QED
  BY <1>3 DEF C!OnPath

-----------------------------------------------------------------------------
\* A step of one run that leaves the names as they are.
LEMMA BinaryTurns ==
    ASSUME BinaryInv, NEW r \in Requests, NEW k \in BinaryRun, binaryRun' = [binaryRun EXCEPT ![r] = k],
           UNCHANGED <<entry, stood>>, halved' \in BOOLEAN, halved => halved',
           binaryRun[r].at = "link" => halved' \/ entry[C!Global].is # "none",
           BinaryFits(k, entry, halved'), latest' \in 1..LastRelease,
           clashed \subseteq clashed', clashed' \in SUBSET C!Names,
           binaryStarts' \in 0..Commands, binaryFaults' \in 0..2,
           Gets(k) /\ k.name \notin clashed' =>
               /\ \A q \in Requests \ {r} : Gets(binaryRun[q]) => binaryRun[q].name # k.name
               /\ entry[k.name].is = "file" => entry[k.name].v = k.had
    PROVE  BinaryInv'
<1>1. BinaryTyped'
  BY DEF BinaryInv, BinaryTyped
<1>2. /\ binaryRun'[r] = k
      /\ \A q \in Requests \ {r} : binaryRun'[q] = binaryRun[q]
  BY DEF BinaryInv, BinaryTyped
<1>3. ASSUME NEW q \in Requests PROVE BinaryFits(binaryRun[q], entry, halved)'
  <2>1. CASE q = r
    BY <1>2, <2>1 DEF BinaryFits, Gets
  <2>2. CASE q # r
    <3>1. binaryRun'[q] = binaryRun[q] /\ BinaryFits(binaryRun[q], entry, halved)
      BY <1>2, <2>2 DEF BinaryInv
    <3> QED
      BY <3>1 DEF BinaryFits, Gets
  <2> QED
    BY <2>1, <2>2
<1>4. HandsApart'
  <2>1. ASSUME NEW q \in Requests, Gets(binaryRun'[q]), binaryRun'[q].name \notin clashed'
        PROVE  /\ \A p \in Requests \ {q} : Gets(binaryRun'[p]) => binaryRun'[p].name # binaryRun'[q].name
               /\ entry[binaryRun'[q].name].is = "file" => entry[binaryRun'[q].name].v = binaryRun'[q].had
    <3>1. CASE q = r
      BY <1>2, <2>1, <3>1
    <3>2. CASE q # r
      <4>1. binaryRun'[q] = binaryRun[q] /\ Gets(binaryRun[q]) /\ binaryRun[q].name \notin clashed
        BY <1>2, <2>1, <3>2
      <4>2. /\ \A p \in Requests \ {q} : Gets(binaryRun[p]) => binaryRun[p].name # binaryRun[q].name
            /\ entry[binaryRun[q].name].is = "file" => entry[binaryRun[q].name].v = binaryRun[q].had
        BY <4>1 DEF BinaryInv, HandsApart
      <4>3. Gets(k) => k.name # binaryRun[q].name
        BY <2>1, <3>2, <4>1
      <4> QED
        BY <1>2, <4>1, <4>2, <4>3
    <3> QED
      BY <3>1, <3>2
  <2> QED
    BY <2>1 DEF HandsApart, Gets
<1>5. Stands(entry, binaryRun, stood, halved)'
  <2>1. Stands(entry, binaryRun, stood, halved)
    BY DEF BinaryInv
  <2>2. stood /\ ~halved' => C!OnPath(entry) \/ (entry[C!Global].is = "none" /\ \E q \in Requests : binaryRun'[q].at = "link")
    <3> SUFFICES ASSUME stood, ~halved', ~C!OnPath(entry)
                 PROVE  entry[C!Global].is = "none" /\ \E q \in Requests : binaryRun'[q].at = "link"
      OBVIOUS
    <3>1. entry[C!Global].is = "none" /\ \E q \in Requests : binaryRun[q].at = "link"
      BY <2>1 DEF Stands
    <3>2. PICK q \in Requests : binaryRun[q].at = "link"
      BY <3>1
    <3>3. q # r
      BY <3>1, <3>2
    <3> QED
      BY <1>2, <3>1, <3>2, <3>3
  <2> QED
    BY <2>2 DEF Stands, C!OnPath, C!Leads, C!Resolved
<1> QED
  BY <1>1, <1>3, <1>4, <1>5 DEF BinaryInv

\* A step that changes names: a file comes to be only in the hand of the run.
LEMMA BinaryChanges ==
    ASSUME BinaryInv, NEW r \in Requests, NEW k \in BinaryRun, binaryRun' = [binaryRun EXCEPT ![r] = k],
           NEW e \in [C!Names -> PathEntry], entry' = e, stood' \in BOOLEAN, halved' \in BOOLEAN, halved => halved',
           UNCHANGED <<latest, clashed, binaryStarts, binaryFaults>>,
           ~Gets(k), BinaryFits(k, e, halved'), Stands(e, binaryRun', stood', halved'),
           \A q \in Requests \ {r} : binaryRun[q].kind = "update" /\ ~halved' => e[binaryRun[q].name].is = "file",
           \A n \in C!Names : e[n].is = "file" =>
               e[n] = entry[n] \/ (binaryRun[r].at = "place" /\ binaryRun[r].name = n)
    PROVE  BinaryInv'
<1>1. BinaryTyped'
  BY DEF BinaryInv, BinaryTyped
<1>2. /\ binaryRun'[r] = k
      /\ \A q \in Requests \ {r} : binaryRun'[q] = binaryRun[q]
  BY DEF BinaryInv, BinaryTyped
<1>3. ASSUME NEW q \in Requests PROVE BinaryFits(binaryRun[q], entry, halved)'
  <2>1. CASE q = r
    BY <1>2, <2>1 DEF BinaryFits, Gets
  <2>2. CASE q # r
    <3>1. binaryRun'[q] = binaryRun[q] /\ BinaryFits(binaryRun[q], entry, halved)
      BY <1>2, <2>2 DEF BinaryInv
    <3>2. binaryRun[q].kind = "update" /\ ~halved' => e[binaryRun[q].name].is = "file"
      BY <2>2
    <3> QED
      BY <3>1, <3>2 DEF BinaryFits, Gets
  <2> QED
    BY <2>1, <2>2
<1>4. HandsApart'
  <2>1. ASSUME NEW q \in Requests, Gets(binaryRun'[q]), binaryRun'[q].name \notin clashed
        PROVE  /\ \A p \in Requests \ {q} : Gets(binaryRun'[p]) => binaryRun'[p].name # binaryRun'[q].name
               /\ e[binaryRun'[q].name].is = "file" => e[binaryRun'[q].name].v = binaryRun'[q].had
    <3>1. q # r /\ binaryRun'[q] = binaryRun[q]
      BY <1>2, <2>1
    <3>2. /\ \A p \in Requests \ {q} : Gets(binaryRun[p]) => binaryRun[p].name # binaryRun[q].name
          /\ entry[binaryRun[q].name].is = "file" => entry[binaryRun[q].name].v = binaryRun[q].had
      BY <2>1, <3>1 DEF BinaryInv, HandsApart
    <3>3. binaryRun[q].name \in C!Names
      BY DEF BinaryInv, BinaryTyped, BinaryRun
    <3>4. ~(binaryRun[r].at = "place" /\ binaryRun[r].name = binaryRun[q].name)
      BY <3>1, <3>2 DEF Gets
    <3> QED
      BY <1>2, <3>1, <3>2, <3>3, <3>4
  <2> QED
    BY <2>1 DEF HandsApart, Gets
<1>5. Stands(entry, binaryRun, stood, halved)'
  BY DEF Stands, C!OnPath, C!Leads, C!Resolved
<1> QED
  BY <1>1, <1>3, <1>4, <1>5 DEF BinaryInv

LEMMA BinaryRunIs ==
    ASSUME BinaryInv, NEW r \in Requests
    PROVE  /\ binaryRun[r] \in BinaryRun /\ BinaryFits(binaryRun[r], entry, halved)
           /\ latest \in 1..LastRelease /\ clashed \in SUBSET C!Names /\ halved \in BOOLEAN /\ stood \in BOOLEAN
           /\ entry \in [C!Names -> PathEntry] /\ binaryStarts \in 0..Commands /\ binaryFaults \in 0..2
           /\ Stands(entry, binaryRun, stood, halved)
  BY DEF BinaryInv, BinaryTyped

LEMMA BinaryPublish ==
    ASSUME BinaryBounds, BinaryInv, C!Publish
    PROVE  BinaryInv'
<1>1. UNCHANGED <<entry, binaryRun, clashed, stood, halved, binaryStarts>> /\ latest' \in 1..LastRelease
  BY DEF C!Publish
<1>2. binaryFaults' \in 0..2
  BY DEF C!Publish, C!Fault, BinaryInv, BinaryTyped
<1>3. BinaryTyped'
  BY <1>1, <1>2 DEF BinaryInv, BinaryTyped
<1>4. HandsApart' /\ Stands(entry, binaryRun, stood, halved)'
  BY <1>1 DEF BinaryInv, HandsApart, Gets, Stands, C!OnPath, C!Leads, C!Resolved
<1>5. ASSUME NEW r \in Requests PROVE BinaryFits(binaryRun[r], entry, halved)'
  <2>1. BinaryFits(binaryRun[r], entry, halved)
    BY DEF BinaryInv
  <2> QED
    BY <1>1, <2>1 DEF BinaryFits, Gets
<1> QED
  BY <1>3, <1>4, <1>5 DEF BinaryInv

\* A name that comes into a hand and has not clashed is in no other.
LEMMA ClashIs ==
    ASSUME BinaryInv, NEW r \in Requests, NEW n \in C!Names
    PROVE  /\ clashed \subseteq C!Clash(r, n) /\ C!Clash(r, n) \in SUBSET C!Names
           /\ n \notin C!Clash(r, n) => \A q \in Requests \ {r} : Gets(binaryRun[q]) => binaryRun[q].name # n
<1>1. clashed \in SUBSET C!Names
  BY BinaryRunIs
<1>2. \A q \in Requests : Gets(binaryRun[q]) => C!InHand(q) = {binaryRun[q].name}
  BY DEF C!InHand, Gets
<1> QED
  BY <1>1, <1>2 DEF C!Clash

LEMMA BinaryInstall ==
    ASSUME BinaryBounds, BinaryInv, NEW r \in Requests, C!Install(r)
    PROVE  BinaryInv'
<1>1. PICK d \in {Preferred, Local}, tag \in 1..latest, force \in BOOLEAN : \E had :
        /\ had = IF C!Leads(entry, C!Canonical(d)) /\ entry[C!Resolved(entry, C!Canonical(d))].v # C!Broken
                 THEN entry[C!Resolved(entry, C!Canonical(d))].v ELSE 0
        /\ C!MayInstall(had, tag, force)
        /\ binaryRun' = [binaryRun EXCEPT ![r] =
                            [at |-> "get", kind |-> "install", name |-> C!Canonical(d), had |-> had, tag |-> tag,
                             got |-> 0, force |-> force]]
        /\ clashed' = C!Clash(r, C!Canonical(d))
  BY DEF C!Install, C!Set
<1>0. PICK had :
        /\ had = IF C!Leads(entry, C!Canonical(d)) /\ entry[C!Resolved(entry, C!Canonical(d))].v # C!Broken
                 THEN entry[C!Resolved(entry, C!Canonical(d))].v ELSE 0
        /\ C!MayInstall(had, tag, force)
        /\ binaryRun' = [binaryRun EXCEPT ![r] =
                            [at |-> "get", kind |-> "install", name |-> C!Canonical(d), had |-> had, tag |-> tag,
                             got |-> 0, force |-> force]]
        /\ clashed' = C!Clash(r, C!Canonical(d))
  BY <1>1
<1> DEFINE n == C!Canonical(d)
           k == [at |-> "get", kind |-> "install", name |-> n, had |-> had, tag |-> tag, got |-> 0, force |-> force]
<1>2. /\ binaryRun[r].at = "idle" /\ binaryStarts' = binaryStarts + 1 /\ binaryStarts < Commands
      /\ UNCHANGED <<entry, latest, stood, halved, binaryFaults>>
  BY DEF C!Install
<1>3. /\ latest \in 1..LastRelease /\ entry \in [C!Names -> PathEntry] /\ halved \in BOOLEAN
      /\ binaryStarts \in 0..Commands /\ binaryFaults \in 0..2
  BY BinaryRunIs
<1>4. n \in C!Names
  BY DEF C!Names, BinaryBounds
<1>5. had \in 0..LastRelease /\ (entry[n].is = "file" => had = entry[n].v)
  <2>1. C!Resolved(entry, n) \in C!Names
    BY <1>3, <1>4 DEF C!Resolved, PathEntry
  <2>2. entry[C!Resolved(entry, n)].v \in 0..LastRelease
    BY <1>3, <2>1 DEF PathEntry
  <2>3. entry[n].is = "file" => C!Leads(entry, n) /\ C!Resolved(entry, n) = n
    BY DEF C!Leads, C!Resolved
  <2>4. entry[C!Resolved(entry, n)].v # C!Broken
    BY <2>2 DEF BinaryBounds
  <2> HIDE DEF n
  <2> QED
    BY <1>0, <2>2, <2>3, <2>4 DEF BinaryBounds, n
<1>6. tag \in 0..LastRelease /\ 0 \in 0..LastRelease
  BY <1>3 DEF BinaryBounds
<1>7. had = 0 \/ force
  BY <1>0 DEF C!MayInstall
<1> HIDE DEF n
<1>8. k \in BinaryRun /\ k.at = "get" /\ k.name = n /\ k.had = had
  BY <1>4, <1>5, <1>6 DEF BinaryRun
<1>9. BinaryFits(k, entry, halved')
  BY <1>7 DEF BinaryFits, Gets
<1>10. binaryRun' = [binaryRun EXCEPT ![r] = k] /\ clashed' = C!Clash(r, n)
  BY <1>0 DEF n
<1> HIDE DEF k
<1>11. /\ clashed \subseteq clashed' /\ clashed' \in SUBSET C!Names
       /\ n \notin clashed' => \A q \in Requests \ {r} : Gets(binaryRun[q]) => binaryRun[q].name # n
  BY <1>4, <1>10, ClashIs
<1>12. binaryStarts' \in 0..Commands
  BY <1>2, <1>3 DEF BinaryBounds
<1>13. latest' \in 1..LastRelease /\ binaryFaults' \in 0..2 /\ halved' \in BOOLEAN /\ (halved => halved')
  BY <1>2, <1>3
<1>14. UNCHANGED <<entry, stood>> /\ binaryRun[r].at # "link"
  BY <1>2
<1> QED
  BY <1>5, <1>8, <1>9, <1>10, <1>11, <1>12, <1>13, <1>14, BinaryTurns

LEMMA BinaryUpdate ==
    ASSUME BinaryBounds, BinaryInv, NEW r \in Requests, C!Update(r)
    PROVE  BinaryInv'
<1>1. PICK n \in C!Names : entry[n].is = "file" /\ \E cur :
        /\ cur = entry[n].v
        /\ binaryRun' = [binaryRun EXCEPT ![r] =
                            [at |-> IF C!IsNewer(cur, latest) THEN "get" ELSE "sweep", kind |-> "update", name |-> n,
                             had |-> cur, tag |-> latest, got |-> 0, force |-> FALSE]]
        /\ clashed' = IF C!IsNewer(cur, latest) THEN C!Clash(r, n) ELSE clashed
  BY DEF C!Update, C!Set
<1>0. PICK cur :
        /\ cur = entry[n].v
        /\ binaryRun' = [binaryRun EXCEPT ![r] =
                            [at |-> IF C!IsNewer(cur, latest) THEN "get" ELSE "sweep", kind |-> "update", name |-> n,
                             had |-> cur, tag |-> latest, got |-> 0, force |-> FALSE]]
        /\ clashed' = IF C!IsNewer(cur, latest) THEN C!Clash(r, n) ELSE clashed
  BY <1>1
<1> DEFINE k == [at |-> IF C!IsNewer(cur, latest) THEN "get" ELSE "sweep", kind |-> "update", name |-> n,
                 had |-> cur, tag |-> latest, got |-> 0, force |-> FALSE]
<1>2. /\ binaryRun[r].at = "idle" /\ binaryStarts' = binaryStarts + 1 /\ binaryStarts < Commands
      /\ UNCHANGED <<entry, latest, stood, halved, binaryFaults>>
  BY DEF C!Update
<1>3. /\ latest \in 1..LastRelease /\ entry \in [C!Names -> PathEntry] /\ halved \in BOOLEAN
      /\ binaryStarts \in 0..Commands /\ binaryFaults \in 0..2 /\ clashed \in SUBSET C!Names
  BY BinaryRunIs
<1>4. cur \in 0..LastRelease /\ latest \in 0..LastRelease /\ 0 \in 0..LastRelease
  BY <1>1, <1>0, <1>3 DEF PathEntry, BinaryBounds
<1>5. k \in BinaryRun /\ k.name = n /\ k.had = cur /\ k.kind = "update" /\ k.tag = latest
  BY <1>4 DEF BinaryRun
<1>6. Gets(k) <=> latest > cur
  BY DEF Gets, C!IsNewer
<1>7. k.at \in {"get", "sweep"}
  OBVIOUS
<1>8. binaryRun' = [binaryRun EXCEPT ![r] = k]
  BY <1>1, <1>0
<1> HIDE DEF k
<1>9. BinaryFits(k, entry, halved')
  BY <1>1, <1>0, <1>5, <1>6, <1>7 DEF BinaryFits
<1>10. /\ clashed \subseteq clashed' /\ clashed' \in SUBSET C!Names
       /\ Gets(k) /\ n \notin clashed' => \A q \in Requests \ {r} : Gets(binaryRun[q]) => binaryRun[q].name # n
  BY <1>1, <1>0, <1>3, <1>6, ClashIs DEF C!IsNewer
<1>12. binaryStarts' \in 0..Commands
  BY <1>2, <1>3 DEF BinaryBounds
<1>13. latest' \in 1..LastRelease /\ binaryFaults' \in 0..2 /\ halved' \in BOOLEAN /\ (halved => halved')
  BY <1>2, <1>3
<1>14. UNCHANGED <<entry, stood>> /\ binaryRun[r].at # "link" /\ entry[k.name].v = k.had
  BY <1>1, <1>0, <1>2, <1>5
<1> QED
  BY <1>5, <1>8, <1>9, <1>10, <1>12, <1>13, <1>14, BinaryTurns

LEMMA BinaryDownload ==
    ASSUME BinaryBounds, BinaryInv, NEW r \in Requests, C!Download(r)
    PROVE  BinaryInv'
<1>1. PICK got \in {binaryRun[r].tag, C!Broken} :
        binaryRun' = [binaryRun EXCEPT ![r] = [binaryRun[r] EXCEPT !.at = "place", !.got = got]]
  BY DEF C!Download, C!Set
<1> DEFINE k == [binaryRun[r] EXCEPT !.at = "place", !.got = got]
<1>2. binaryRun[r].at = "get" /\ UNCHANGED <<entry, latest, clashed, stood, halved, binaryStarts>>
  BY DEF C!Download
<1>3. /\ binaryRun[r] \in BinaryRun /\ BinaryFits(binaryRun[r], entry, halved) /\ latest \in 1..LastRelease
      /\ clashed \in SUBSET C!Names /\ halved \in BOOLEAN /\ binaryStarts \in 0..Commands /\ binaryFaults \in 0..2
  BY BinaryRunIs
<1>4. binaryFaults' \in 0..2
  BY <1>3 DEF C!Download, C!Fault
<1>5. /\ k \in BinaryRun /\ k.at = "place" /\ k.got = got /\ k.kind = binaryRun[r].kind /\ k.name = binaryRun[r].name
      /\ k.had = binaryRun[r].had /\ k.tag = binaryRun[r].tag /\ k.force = binaryRun[r].force
  BY <1>3 DEF BinaryRun
<1>6. binaryRun' = [binaryRun EXCEPT ![r] = k]
  BY <1>1
<1> HIDE DEF k
<1>7. BinaryFits(k, entry, halved')
  BY <1>2, <1>3, <1>5 DEF BinaryFits, Gets
<1>8. k.name \notin clashed =>
        /\ \A q \in Requests \ {r} : Gets(binaryRun[q]) => binaryRun[q].name # k.name
        /\ entry[k.name].is = "file" => entry[k.name].v = k.had
  BY <1>2, <1>5 DEF BinaryInv, HandsApart, Gets
<1> QED
  BY <1>2, <1>3, <1>4, <1>5, <1>6, <1>7, <1>8, BinaryTurns

\* A run that ends without a write.
LEMMA BinaryEnds ==
    ASSUME BinaryBounds, BinaryInv, NEW r \in Requests, C!Discard(r) \/ C!CutOff(r)
    PROVE  BinaryInv'
<1>1. binaryRun' = [binaryRun EXCEPT ![r] = C!Idle] /\ UNCHANGED <<entry, latest, clashed, stood, binaryStarts>>
  BY DEF C!Discard, C!CutOff, C!Set
<1>2. /\ latest \in 1..LastRelease /\ clashed \in SUBSET C!Names /\ halved \in BOOLEAN
      /\ binaryStarts \in 0..Commands /\ binaryFaults \in 0..2
  BY BinaryRunIs
<1>3. /\ halved' \in BOOLEAN /\ (halved => halved')
      /\ (binaryRun[r].at = "link" => halved')
  BY <1>2 DEF C!Discard, C!CutOff
<1>4. binaryFaults' \in 0..2
  BY <1>2 DEF C!Discard, C!CutOff, C!Fault
<1>5. C!Idle \in BinaryRun /\ BinaryFits(C!Idle, entry, halved') /\ ~Gets(C!Idle)
  BY BinaryIdle, IdleFits
<1> QED
  BY <1>1, <1>2, <1>3, <1>4, <1>5, BinaryTurns

LEMMA BinaryResolve ==
    ASSUME BinaryBounds, BinaryInv, NEW r \in Requests, C!Resolve(r)
    PROVE  BinaryInv'
<1>1. /\ binaryRun[r].at = "resolve"
      /\ UNCHANGED <<entry, latest, clashed, stood, halved, binaryStarts, binaryFaults>>
  BY DEF C!Resolve
<1>2. /\ binaryRun[r] \in BinaryRun /\ BinaryFits(binaryRun[r], entry, halved) /\ latest \in 1..LastRelease
      /\ clashed \in SUBSET C!Names /\ halved \in BOOLEAN /\ binaryStarts \in 0..Commands /\ binaryFaults \in 0..2
  BY BinaryRunIs
<1>3. CASE binaryRun' = [binaryRun EXCEPT ![r] = C!Idle]
  <2>1. C!Idle \in BinaryRun /\ BinaryFits(C!Idle, entry, halved') /\ ~Gets(C!Idle)
    BY BinaryIdle, IdleFits
  <2> QED
    BY <1>1, <1>2, <1>3, <2>1, BinaryTurns
<1>4. CASE /\ binaryRun' = [binaryRun EXCEPT ![r] = [binaryRun[r] EXCEPT !.at = "unlink"]]
           /\ binaryRun[r].name.dir \in PathDirs
           /\ \A d \in PathDirs : C!Resolved(entry, C!Canonical(d)) # binaryRun[r].name
  <2> DEFINE k == [binaryRun[r] EXCEPT !.at = "unlink"]
  <2>1. k \in BinaryRun /\ k.at = "unlink" /\ k.kind = binaryRun[r].kind /\ k.name = binaryRun[r].name
    BY <1>2 DEF BinaryRun
  <2>2. binaryRun[r].kind = "update"
    BY <1>1, <1>2 DEF BinaryFits
  <2>3. ~halved => binaryRun[r].name # C!Global
    <3>1. C!Resolved(entry, C!Global) # binaryRun[r].name
      BY <1>4, BinaryNames DEF BinaryBounds
    <3>2. ~halved => entry[binaryRun[r].name].is = "file"
      BY <1>2, <2>2 DEF BinaryFits
    <3> QED
      BY <3>1, <3>2 DEF C!Resolved
  <2>4. binaryRun' = [binaryRun EXCEPT ![r] = k]
    BY <1>4
  <2> HIDE DEF k
  <2>5. BinaryFits(k, entry, halved') /\ ~Gets(k)
    BY <1>1, <1>2, <1>4, <2>1, <2>2, <2>3 DEF BinaryFits, Gets
  <2> QED
    BY <1>1, <1>2, <2>1, <2>4, <2>5, BinaryTurns
<1> QED
  BY <1>3, <1>4 DEF C!Resolve, C!Set, C!Go, C!Repairs

LEMMA BinaryPlace ==
    ASSUME BinaryBounds, BinaryInv, NEW r \in Requests, C!Place(r)
    PROVE  BinaryInv'
<1>1. /\ binaryRun[r].at = "place" /\ binaryRun[r].got = binaryRun[r].tag
      /\ entry' = [entry EXCEPT ![binaryRun[r].name] = C!File(binaryRun[r].got)]
      /\ stood' = (stood \/ C!OnPath(entry'))
      /\ UNCHANGED <<latest, clashed, halved, binaryStarts, binaryFaults>>
  BY DEF C!Place, C!Verified, C!Enter
<1>2. /\ binaryRun[r] \in BinaryRun /\ BinaryFits(binaryRun[r], entry, halved)
      /\ entry \in [C!Names -> PathEntry] /\ halved \in BOOLEAN /\ stood \in BOOLEAN
      /\ Stands(entry, binaryRun, stood, halved)
  BY BinaryRunIs
<1>3. PICK n \in C!Names, tag \in 0..LastRelease : n = binaryRun[r].name /\ tag = binaryRun[r].tag
  BY <1>2 DEF BinaryRun
<1>4. C!File(tag) \in PathEntry /\ C!File(tag).is = "file"
  BY BinaryNames
<1>5. PICK e \in [C!Names -> PathEntry] : e = [entry EXCEPT ![n] = C!File(tag)]
  BY <1>2, <1>4
<1>6. /\ entry' = e /\ e[n].is = "file"
      /\ \A m \in C!Names : m # n => e[m] = entry[m]
  BY <1>1, <1>2, <1>3, <1>4, <1>5
<1>7. PICK k \in BinaryRun :
        /\ binaryRun' = [binaryRun EXCEPT ![r] = k]
        /\ k.at # "link" /\ ~Gets(k) /\ BinaryFits(k, e, halved')
  <2>1. CASE binaryRun[r].kind = "update"
    <3> DEFINE k == [binaryRun[r] EXCEPT !.at = "sweep"]
    <3>1. k \in BinaryRun /\ k.at = "sweep" /\ k.kind = "update" /\ k.name = n
      BY <1>2, <1>3, <2>1 DEF BinaryRun
    <3>2. binaryRun' = [binaryRun EXCEPT ![r] = k]
      BY <2>1 DEF C!Place, C!Go, C!Set
    <3> HIDE DEF k
    <3>3. ~Gets(k) /\ BinaryFits(k, e, halved')
      BY <1>6, <3>1 DEF BinaryFits, Gets
    <3> QED
      BY <3>1, <3>2, <3>3
  <2>2. CASE binaryRun[r].kind # "update"
    <3>1. binaryRun' = [binaryRun EXCEPT ![r] = C!Idle]
      BY <2>2 DEF C!Place, C!Set
    <3> QED
      BY <3>1, BinaryIdle, IdleFits
  <2> QED
    BY <2>1, <2>2
<1>8. stood' \in BOOLEAN
  BY <1>1, <1>2 DEF C!OnPath
<1>9. \A m \in C!Names : entry[m].is = "file" => e[m].is = "file"
  BY <1>6
<1>10. C!OnPath(entry) => C!OnPath(e)
  <2>1. \A d \in PathDirs : e[C!Canonical(d)] = entry[C!Canonical(d)] \/ e[C!Canonical(d)].is = "file"
    BY <1>6, BinaryNames
  <2> QED
    BY <1>2, <1>9, <2>1, PathKept
<1>11. e[C!Global].is = "file" => C!OnPath(e)
  BY BinaryNames DEF C!OnPath, C!Leads, C!Resolved, BinaryBounds
<1>12. \A q \in Requests : binaryRun[q].at = "link" => binaryRun'[q].at = "link"
  BY <1>1, <1>7 DEF BinaryInv, BinaryTyped
<1>13. Stands(e, binaryRun', stood', halved')
  <2>1. stood' = (stood \/ C!OnPath(e)) /\ halved' = halved
    BY <1>1, <1>6
  <2>2. e[C!Global] = entry[C!Global] \/ e[C!Global].is = "file"
    BY <1>6, BinaryNames
  <2> QED
    BY <1>2, <1>10, <1>11, <1>12, <2>1, <2>2 DEF Stands
<1>14. \A q \in Requests \ {r} : binaryRun[q].kind = "update" /\ ~halved' => e[binaryRun[q].name].is = "file"
  <2> SUFFICES ASSUME NEW q \in Requests, binaryRun[q].kind = "update", ~halved
               PROVE  e[binaryRun[q].name].is = "file"
    BY <1>1
  <2>1. entry[binaryRun[q].name].is = "file" /\ binaryRun[q].name \in C!Names
    BY BinaryRunIs DEF BinaryFits, BinaryRun
  <2> QED
    BY <1>9, <2>1
<1>15. \A m \in C!Names : e[m].is = "file" => e[m] = entry[m] \/ (binaryRun[r].at = "place" /\ binaryRun[r].name = m)
  BY <1>1, <1>3, <1>6
<1>16. UNCHANGED <<latest, clashed, binaryStarts, binaryFaults>> /\ halved' \in BOOLEAN /\ (halved => halved')
  BY <1>1, <1>2
<1> QED
  BY <1>6, <1>7, <1>8, <1>13, <1>14, <1>15, <1>16, BinaryChanges

LEMMA BinarySweep ==
    ASSUME BinaryBounds, BinaryInv, NEW r \in Requests, C!Sweep(r)
    PROVE  BinaryInv'
<1>1. /\ binaryRun[r].at = "sweep" /\ binaryRun' = [binaryRun EXCEPT ![r] = [binaryRun[r] EXCEPT !.at = "resolve"]]
      /\ UNCHANGED <<latest, clashed, stood, halved, binaryStarts, binaryFaults>>
  BY DEF C!Sweep, C!Go, C!Set
<1>2. /\ binaryRun[r] \in BinaryRun /\ BinaryFits(binaryRun[r], entry, halved)
      /\ entry \in [C!Names -> PathEntry] /\ halved \in BOOLEAN /\ stood \in BOOLEAN
      /\ Stands(entry, binaryRun, stood, halved)
  BY BinaryRunIs
<1> DEFINE e == [n \in C!Names |->
          IF C!Swept(n) /\ entry[n].is = "link" /\ (entry[n].to # binaryRun[r].name \/ ~ C!Leads(entry, n))
          THEN C!None ELSE entry[n]]
<1>3. entry' = e /\ e \in [C!Names -> PathEntry]
  BY <1>2, BinaryNames DEF C!Sweep
<1>4. \A n \in C!Names : e[n] = entry[n] \/ (C!Swept(n) /\ entry[n].is = "link" /\ e[n] = C!None)
  OBVIOUS
<1> HIDE DEF e
<1> DEFINE k == [binaryRun[r] EXCEPT !.at = "resolve"]
<1>5. k \in BinaryRun /\ k.at = "resolve" /\ k.kind = binaryRun[r].kind /\ k.name = binaryRun[r].name
  BY <1>2 DEF BinaryRun
<1>6. binaryRun' = [binaryRun EXCEPT ![r] = k]
  BY <1>1
<1> HIDE DEF k
<1>7. \A m \in C!Names : entry[m].is = "file" => e[m].is = "file"
  BY <1>4
<1>8. ~Gets(k) /\ BinaryFits(k, e, halved')
  <2>1. k.name \in C!Names
    BY <1>5 DEF BinaryRun
  <2> QED
    BY <1>1, <1>2, <1>5, <1>7, <2>1 DEF BinaryFits, Gets
<1>9. \A d \in PathDirs : e[C!Canonical(d)] = entry[C!Canonical(d)]
  BY <1>4, BinaryNames
<1>10. C!OnPath(entry) => C!OnPath(e)
  BY <1>2, <1>3, <1>7, <1>9, PathKept
<1>11. \A q \in Requests : binaryRun[q].at = "link" => binaryRun'[q].at = "link"
  BY <1>1, <1>6 DEF BinaryInv, BinaryTyped
<1>12. Stands(e, binaryRun', stood', halved')
  <2>1. e[C!Global] = entry[C!Global]
    BY <1>9, BinaryNames DEF BinaryBounds
  <2> QED
    BY <1>1, <1>2, <1>10, <1>11, <2>1 DEF Stands
<1>13. \A q \in Requests \ {r} : binaryRun[q].kind = "update" /\ ~halved' => e[binaryRun[q].name].is = "file"
  <2> SUFFICES ASSUME NEW q \in Requests, binaryRun[q].kind = "update", ~halved
               PROVE  e[binaryRun[q].name].is = "file"
    BY <1>1
  <2>1. entry[binaryRun[q].name].is = "file" /\ binaryRun[q].name \in C!Names
    BY BinaryRunIs DEF BinaryFits, BinaryRun
  <2> QED
    BY <1>7, <2>1
<1>14. \A m \in C!Names : e[m].is = "file" => e[m] = entry[m]
  BY <1>4, BinaryNames
<1>16. /\ UNCHANGED <<latest, clashed, binaryStarts, binaryFaults>>
       /\ halved' \in BOOLEAN /\ (halved => halved') /\ stood' \in BOOLEAN
  BY <1>1, <1>2
<1> QED
  BY <1>3, <1>5, <1>6, <1>8, <1>12, <1>13, <1>14, <1>16, BinaryChanges

LEMMA BinaryUnlink ==
    ASSUME BinaryBounds, BinaryInv, NEW r \in Requests, C!Unlink(r)
    PROVE  BinaryInv'
<1>1. /\ binaryRun[r].at = "unlink" /\ binaryRun' = [binaryRun EXCEPT ![r] = [binaryRun[r] EXCEPT !.at = "link"]]
      /\ entry' = [entry EXCEPT ![C!Global] = C!None]
      /\ halved' = (halved \/ \E q \in Requests \ {r} : binaryRun[q].kind = "update" /\ binaryRun[q].name = C!Global)
      /\ UNCHANGED <<latest, clashed, stood, binaryStarts, binaryFaults>>
  BY DEF C!Unlink, C!Go, C!Set
<1>2. /\ binaryRun[r] \in BinaryRun /\ BinaryFits(binaryRun[r], entry, halved)
      /\ entry \in [C!Names -> PathEntry] /\ halved \in BOOLEAN /\ stood \in BOOLEAN
  BY BinaryRunIs
<1>3. PICK e \in [C!Names -> PathEntry] : e = [entry EXCEPT ![C!Global] = C!None]
  BY <1>2, BinaryNames
<1>4. /\ entry' = e /\ e[C!Global].is = "none"
      /\ \A m \in C!Names : m # C!Global => e[m] = entry[m]
  BY <1>1, <1>2, <1>3, BinaryNames
<1> DEFINE k == [binaryRun[r] EXCEPT !.at = "link"]
<1>5. k \in BinaryRun /\ k.at = "link" /\ k.kind = binaryRun[r].kind /\ k.name = binaryRun[r].name
  BY <1>2 DEF BinaryRun
<1>6. binaryRun' = [binaryRun EXCEPT ![r] = k]
  BY <1>1
<1> HIDE DEF k
<1>7. /\ binaryRun[r].kind = "update" /\ binaryRun[r].name.dir \in PathDirs
      /\ ~halved => binaryRun[r].name # C!Global /\ entry[binaryRun[r].name].is = "file"
  BY <1>1, <1>2 DEF BinaryFits
<1>8. ~Gets(k) /\ BinaryFits(k, e, halved')
  <2>1. k.name \in C!Names
    BY <1>5 DEF BinaryRun
  <2> QED
    BY <1>1, <1>4, <1>5, <1>7, <2>1 DEF BinaryFits, Gets
<1>9. Stands(e, binaryRun', stood', halved')
  <2>1. binaryRun'[r].at = "link"
    BY <1>5, <1>6 DEF BinaryInv, BinaryTyped
  <2> QED
    BY <1>4, <2>1 DEF Stands
<1>10. \A q \in Requests \ {r} : binaryRun[q].kind = "update" /\ ~halved' => e[binaryRun[q].name].is = "file"
  <2> SUFFICES ASSUME NEW q \in Requests \ {r}, binaryRun[q].kind = "update", ~halved'
               PROVE  e[binaryRun[q].name].is = "file"
    OBVIOUS
  <2>1. ~halved /\ binaryRun[q].name # C!Global
    BY <1>1
  <2>2. entry[binaryRun[q].name].is = "file" /\ binaryRun[q].name \in C!Names
    BY <2>1, BinaryRunIs DEF BinaryFits, BinaryRun
  <2> QED
    BY <1>4, <2>1, <2>2
<1>11. \A m \in C!Names : e[m].is = "file" => e[m] = entry[m]
  BY <1>4
<1>12. halved' \in BOOLEAN /\ (halved => halved')
  BY <1>1
<1>16. UNCHANGED <<latest, clashed, binaryStarts, binaryFaults>> /\ stood' \in BOOLEAN
  BY <1>1, <1>2
<1> QED
  BY <1>4, <1>5, <1>6, <1>8, <1>9, <1>10, <1>11, <1>12, <1>16, BinaryChanges

LEMMA BinaryMakeLink ==
    ASSUME BinaryBounds, BinaryInv, NEW r \in Requests, C!MakeLink(r)
    PROVE  BinaryInv'
<1>1. /\ binaryRun[r].at = "link" /\ binaryRun' = [binaryRun EXCEPT ![r] = C!Idle]
      /\ UNCHANGED <<latest, clashed, halved, binaryStarts, binaryFaults>>
  BY DEF C!MakeLink, C!Set
<1>2. /\ binaryRun[r] \in BinaryRun /\ BinaryFits(binaryRun[r], entry, halved)
      /\ entry \in [C!Names -> PathEntry] /\ halved \in BOOLEAN /\ stood \in BOOLEAN
      /\ latest \in 1..LastRelease /\ clashed \in SUBSET C!Names
      /\ binaryStarts \in 0..Commands /\ binaryFaults \in 0..2
  BY BinaryRunIs
<1>3. C!Idle \in BinaryRun /\ ~Gets(C!Idle)
  BY BinaryIdle, IdleFits
<1>4. CASE entry[C!Global].is # "none"
  <2>1. UNCHANGED <<entry, stood>>
    BY <1>4 DEF C!MakeLink
  <2> QED
    BY <1>1, <1>2, <1>3, <1>4, <2>1, IdleFits, BinaryTurns
<1>5. CASE entry[C!Global].is = "none"
  <2>1. /\ entry' = [entry EXCEPT ![C!Global] = C!Link(binaryRun[r].name)]
        /\ stood' = (stood \/ C!OnPath(entry'))
    BY <1>5 DEF C!MakeLink, C!Enter
  <2>2. PICK n \in C!Names : n = binaryRun[r].name
    BY <1>2 DEF BinaryRun
  <2>3. C!Link(n) \in PathEntry /\ C!Link(n).is = "link" /\ C!Link(n).to = n
    BY BinaryNames
  <2>4. PICK e \in [C!Names -> PathEntry] : e = [entry EXCEPT ![C!Global] = C!Link(n)]
    BY <1>2, <2>3, BinaryNames
  <2>5. /\ entry' = e /\ e[C!Global].is = "link" /\ e[C!Global].to = n
        /\ \A m \in C!Names : m # C!Global => e[m] = entry[m]
    BY <1>2, <2>1, <2>2, <2>3, <2>4, BinaryNames
  <2>6. ~halved => n # C!Global /\ entry[n].is = "file"
    BY <1>1, <1>2, <2>2 DEF BinaryFits
  <2>7. ~halved => C!OnPath(e)
    <3>1. ~halved => C!Leads(e, C!Global)
      BY <2>5, <2>6 DEF C!Leads, C!Resolved
    <3> QED
      BY <3>1, BinaryNames DEF C!OnPath, BinaryBounds
  <2>8. stood' \in BOOLEAN
    BY <1>2, <2>1 DEF C!OnPath
  <2>9. Stands(e, binaryRun', stood', halved') /\ BinaryFits(C!Idle, e, halved')
    BY <1>1, <2>7, IdleFits DEF Stands
  <2>10. \A q \in Requests \ {r} : binaryRun[q].kind = "update" /\ ~halved' => e[binaryRun[q].name].is = "file"
    <3> SUFFICES ASSUME NEW q \in Requests \ {r}, binaryRun[q].kind = "update", ~halved
                 PROVE  e[binaryRun[q].name].is = "file"
      BY <1>1
    <3>1. entry[binaryRun[q].name].is = "file" /\ binaryRun[q].name \in C!Names
      BY BinaryRunIs DEF BinaryFits, BinaryRun
    <3> QED
      BY <1>5, <2>5, <3>1
  <2>11. \A m \in C!Names : e[m].is = "file" => e[m] = entry[m]
    BY <2>5
  <2> QED
    BY <1>1, <1>2, <1>3, <2>5, <2>8, <2>9, <2>10, <2>11, BinaryChanges
<1> QED
  BY <1>4, <1>5

LEMMA BinaryStep ==
    ASSUME BinaryBounds, BinaryInv, C!Next
    PROVE  BinaryInv'
<1>1. CASE C!Publish
  BY <1>1, BinaryPublish
<1>2. ASSUME NEW r \in Requests,
             \/ C!Install(r) \/ C!Update(r) \/ C!Download(r) \/ C!Place(r) \/ C!Discard(r)
             \/ C!Sweep(r) \/ C!Resolve(r) \/ C!Unlink(r) \/ C!MakeLink(r) \/ C!CutOff(r)
      PROVE  BinaryInv'
  BY <1>2, BinaryInstall, BinaryUpdate, BinaryDownload, BinaryPlace, BinaryEnds, BinarySweep, BinaryResolve,
     BinaryUnlink, BinaryMakeLink
<1> QED
  BY <1>1, <1>2 DEF C!Next

LEMMA BinaryStutters ==
    ASSUME BinaryInv, UNCHANGED binaryVars
    PROVE  BinaryInv'
<1>1. UNCHANGED <<entry, latest, binaryRun, clashed, stood, halved, binaryStarts, binaryFaults>>
  BY DEF binaryVars
<1>2. BinaryTyped'
  BY <1>1 DEF BinaryInv, BinaryTyped
<1>3. HandsApart' /\ Stands(entry, binaryRun, stood, halved)'
  BY <1>1 DEF BinaryInv, HandsApart, Gets, Stands, C!OnPath, C!Leads, C!Resolved
<1>4. ASSUME NEW r \in Requests PROVE BinaryFits(binaryRun[r], entry, halved)'
  <2>1. BinaryFits(binaryRun[r], entry, halved)
    BY DEF BinaryInv
  <2> QED
    BY <1>1, <2>1 DEF BinaryFits, Gets
<1> QED
  BY <1>2, <1>3, <1>4 DEF BinaryInv

LEMMA BinarySound ==
    ASSUME BinaryInv
    PROVE  C!TypeOK /\ C!CommandStands
<1>1. C!TypeOK
  <2>1. \A n \in C!Names : entry[n].is \in {"none", "file", "link"} /\ entry[n].to \in C!Names
    BY DEF BinaryInv, BinaryTyped, PathEntry
  <2>2. ASSUME NEW r \in Requests
        PROVE  /\ binaryRun[r].at \in {"idle", "get", "place", "sweep", "resolve", "unlink", "link"}
               /\ binaryRun[r].name \in C!Names /\ binaryRun[r].tag \in 0..LastRelease
    BY DEF BinaryInv, BinaryTyped, BinaryRun
  <2> QED
    BY <2>1, <2>2 DEF BinaryInv, BinaryTyped, C!TypeOK
<1>2. C!CommandStands
  BY DEF BinaryInv, Stands, C!CommandStands
<1> QED
  BY <1>1, <1>2

\* What a step may make of a name.
LEMMA BinaryReplaces ==
    ASSUME BinaryBounds, BinaryInv, BinaryInv', C!Next, NEW n \in C!Names, entry'[n] # entry[n]
    PROVE  /\ entry'[n].v # C!Broken
           /\ entry'[n].is = "link" => entry'[n].to.dir # Local
           /\ entry'[n].is = "file" /\ n \notin clashed /\ entry[n].is = "file" =>
                 \E r \in Requests : /\ binaryRun[r].at = "place" /\ binaryRun[r].name = n
                                     /\ IF binaryRun[r].kind = "update" THEN entry'[n].v > entry[n].v
                                        ELSE binaryRun[r].force \/ entry[n].v = 0
<1>1. entry'[n].v # C!Broken
  BY DEF BinaryInv, BinaryTyped, PathEntry, BinaryBounds
<1>2. PICK r \in Requests : C!Place(r) \/ C!Sweep(r) \/ C!Unlink(r) \/ C!MakeLink(r)
  <2>1. ~C!Publish
    BY DEF C!Publish
  <2>2. \A r \in Requests :
          ~(C!Install(r) \/ C!Update(r) \/ C!Download(r) \/ C!Discard(r) \/ C!Resolve(r) \/ C!CutOff(r))
    BY DEF C!Install, C!Update, C!Download, C!Discard, C!Resolve, C!CutOff
  <2> QED
    BY <2>1, <2>2 DEF C!Next
<1>3. /\ binaryRun[r] \in BinaryRun /\ BinaryFits(binaryRun[r], entry, halved) /\ entry \in [C!Names -> PathEntry]
  BY BinaryRunIs
<1>4. CASE C!Place(r)
  <2>1. /\ binaryRun[r].at = "place" /\ binaryRun[r].got = binaryRun[r].tag
        /\ entry' = [entry EXCEPT ![binaryRun[r].name] = C!File(binaryRun[r].got)]
    BY <1>4 DEF C!Place, C!Verified, C!Enter
  <2>2. PICK tag \in 0..LastRelease : tag = binaryRun[r].tag
    BY <1>3 DEF BinaryRun
  <2>3. C!File(tag).is = "file" /\ C!File(tag).v = tag
    BY BinaryNames
  <2>4. n = binaryRun[r].name /\ entry'[n] = C!File(tag)
    BY <1>3, <2>1, <2>2
  <2>5. n \notin clashed /\ entry[n].is = "file" => entry[n].v = binaryRun[r].had
    BY <2>1, <2>4 DEF BinaryInv, HandsApart, Gets
  <2>6. IF binaryRun[r].kind = "update" THEN binaryRun[r].tag > binaryRun[r].had
        ELSE binaryRun[r].had = 0 \/ binaryRun[r].force
    BY <1>3, <2>1 DEF BinaryFits, Gets
  <2>7. n \notin clashed /\ entry[n].is = "file" =>
            IF binaryRun[r].kind = "update" THEN entry'[n].v > entry[n].v ELSE binaryRun[r].force \/ entry[n].v = 0
    BY <2>2, <2>3, <2>4, <2>5, <2>6
  <2>8. entry'[n].is # "link"
    BY <2>3, <2>4
  <2> QED
    BY <1>1, <2>1, <2>4, <2>7, <2>8
<1>5. CASE C!Sweep(r)
  <2>1. entry'[n] = C!None
    BY <1>5 DEF C!Sweep
  <2> QED
    BY <1>1, <2>1, BinaryNames
<1>6. CASE C!Unlink(r)
  <2>1. entry'[n] = C!None
    BY <1>3, <1>6 DEF C!Unlink
  <2> QED
    BY <1>1, <2>1, BinaryNames
<1>7. CASE C!MakeLink(r)
  <2>1. binaryRun[r].at = "link" /\ entry' = [entry EXCEPT ![C!Global] = C!Link(binaryRun[r].name)]
    BY <1>7 DEF C!MakeLink, C!Enter
  <2>2. PICK m \in C!Names : m = binaryRun[r].name
    BY <1>3 DEF BinaryRun
  <2>3. entry'[n] = C!Link(m)
    BY <1>3, <2>1, <2>2
  <2>4. C!Link(m).is = "link" /\ C!Link(m).to = m
    BY BinaryNames
  <2>5. m.dir \in PathDirs
    BY <1>3, <2>1, <2>2 DEF BinaryFits
  <2> QED
    BY <1>1, <2>3, <2>4, <2>5 DEF BinaryBounds
<1> QED
  BY <1>2, <1>4, <1>5, <1>6, <1>7

\* A command that stood on the PATH stands (CommandStands), but between the removal of a link and
\* the new one or after a run that was cut off there: whatever installs and updates meet or
\* download in part, on any directories of the PATH and any machine.
THEOREM CommandStays == BinaryBounds => (C!Spec => [](C!TypeOK /\ C!CommandStands))
<1> SUFFICES ASSUME BinaryBounds PROVE C!Spec => [](C!TypeOK /\ C!CommandStands)
  OBVIOUS
<1>1. C!Init => BinaryInv
  BY BinaryInit
<1>2. BinaryInv /\ [C!Next]_C!binaryVars => BinaryInv'
  BY BinaryStep, BinaryStutters DEF C!binaryVars, binaryVars
<1>3. BinaryInv => C!TypeOK /\ C!CommandStands
  BY BinarySound
<1> QED
  BY <1>1, <1>2, <1>3, PTL DEF C!Spec

\* What replaces what on the PATH (Replaced): only what was downloaded whole, an update nothing
\* by an older release, an install without --force no release, and no link leads to a build.
THEOREM ReleasesReplace == BinaryBounds => (C!Spec => C!Replaced)
<1> SUFFICES ASSUME BinaryBounds PROVE C!Spec => C!Replaced
  OBVIOUS
<1>1. C!Init => BinaryInv
  BY BinaryInit
<1>2. BinaryInv /\ [C!Next]_C!binaryVars => BinaryInv'
  BY BinaryStep, BinaryStutters DEF C!binaryVars, binaryVars
<1>3. BinaryInv /\ BinaryInv' /\ [C!Next]_C!binaryVars =>
        [entry' # entry => \A n \in C!Names : entry'[n] # entry[n] =>
           /\ entry'[n].v # C!Broken
           /\ entry'[n].is = "link" => entry'[n].to.dir # Local
           /\ entry'[n].is = "file" /\ n \notin clashed /\ entry[n].is = "file" =>
                 \E r \in Requests : /\ binaryRun[r].at = "place" /\ binaryRun[r].name = n
                                     /\ IF binaryRun[r].kind = "update" THEN entry'[n].v > entry[n].v
                                        ELSE binaryRun[r].force \/ entry[n].v = 0]_C!binaryVars
  BY BinaryReplaces
<1> QED
  BY <1>1, <1>2, <1>3, PTL DEF C!Spec, C!Replaced

-----------------------------------------------------------------------------
\* The files of a repository (Scaffold).
InstalledHooks == {Hooks[i] : i \in DOMAIN Hooks}
TomlKey == [how : {"not", "note", "set", "own"}, within : BOOLEAN, times : Nat]
TomlFile == [is : {"none", "file"}, table : STRING \cup {"", "auth", "other"}, own : BOOLEAN, key : [S!Keys -> TomlKey]]
McpFile == [is : {"none", "file", "torn"}, own : BOOLEAN, url : STRING \cup {"", "local", "set", "own"}]
SettingsFile == [is : {"none", "file", "torn"}, own : BOOLEAN, hooks : SUBSET InstalledHooks]
IgnoreFile == [own : BOOLEAN, block : BOOLEAN]
PrinciplesFile == [own : BOOLEAN, starter : BOOLEAN]
Content == TomlFile \cup McpFile \cup SettingsFile \cup IgnoreFile \cup PrinciplesFile

\* What may be in a file.
FileHolds(f, c) ==
    /\ f = "toml" => c \in TomlFile /\ (c.is = "none" => ~c.own)
    /\ f = "mcp" => c \in McpFile
    /\ f = "settings" => c \in SettingsFile
    /\ f = "ignore" => c \in IgnoreFile
    /\ f = "principles" => c \in PrinciplesFile
DiskTyped(d) == d \in [S!Files -> Content] /\ \A f \in S!Files : FileHolds(f, d[f])

ScaffoldBounds ==
    /\ \E those : Hooks \in Seq(those)
    /\ \A d \in Repositories : DiskTyped(d)
    /\ Inits \in Nat /\ RepositoryEdits \in Nat /\ Cuts \in Nat

LEMMA FilesAre ==
    ASSUME NEW d, DiskTyped(d)
    PROVE  /\ d["toml"] \in TomlFile /\ d["mcp"] \in McpFile /\ d["settings"] \in SettingsFile
           /\ d["ignore"] \in IgnoreFile /\ d["principles"] \in PrinciplesFile
           /\ d["toml"].is = "none" => ~d["toml"].own
           /\ d.toml = d["toml"] /\ d.mcp = d["mcp"] /\ d.settings = d["settings"]
           /\ d.ignore = d["ignore"] /\ d.principles = d["principles"]
  BY DEF DiskTyped, FileHolds, S!Files

Changed(d, f, c) == [d EXCEPT ![f] = c]
DiskPutIs(d, f, c, e) == DiskTyped(e) /\ e[f] = c /\ \A g \in S!Files \ {f} : e[g] = d[g]

LEMMA DiskPut ==
    ASSUME NEW d, DiskTyped(d), NEW f \in S!Files, NEW c, FileHolds(f, c)
    PROVE  DiskPutIs(d, f, c, Changed(d, f, c))
<1>1. c \in Content
  BY DEF S!Files, Content, FileHolds
<1> QED
  BY <1>1 DEF DiskTyped, DiskPutIs, Changed

StepKinds == {"create", "publishers", "server", "match", "project", "mcp", "hook", "ignore", "constitution"}

\* Two sequences one after the other.
JoinedAs(s, t, n, m, these) ==
    s \in Seq(these) /\ t \in Seq(these) /\ n \in Nat /\ m \in Nat /\ Len(s) = n /\ Len(t) = m
JoinIs(u, s, t, n, m, these) ==
    /\ u \in Seq(these) /\ Len(u) = n + m
    /\ \A i \in 1..n : u[i] = s[i]
    /\ \A i \in 1..m : u[n + i] = t[i]

LEMMA Joined ==
    ASSUME NEW s, NEW t, NEW n, NEW m, NEW these, JoinedAs(s, t, n, m, these)
    PROVE  JoinIs(s \o t, s, t, n, m, these)
<1>1. /\ s \o t \in Seq(these) /\ Len(s \o t) = n + m
      /\ \A i \in 1..n + m : (s \o t)[i] = IF i <= n THEN s[i] ELSE t[i - n]
  BY ConcatProperties DEF JoinedAs
<1>2. \A i \in 1..n : (s \o t)[i] = s[i]
  BY <1>1 DEF JoinedAs
<1>3. ASSUME NEW i \in 1..m PROVE (s \o t)[n + i] = t[i]
  <2>1. n + i \in 1..n + m /\ ~(n + i <= n) /\ (n + i) - n = i
    BY DEF JoinedAs
  <2> QED
    BY <1>1, <2>1
<1> QED
  BY <1>1, <1>2, <1>3 DEF JoinIs

LEMMA StepsAre ==
    ASSUME ScaffoldBounds
    PROVE  /\ Len(Hooks) \in Nat /\ DOMAIN Hooks = 1..Len(Hooks)
           /\ Len(S!Steps) = 8 + Len(Hooks) /\ DOMAIN S!Steps = 1..(8 + Len(Hooks))
           /\ S!Steps[1] = "create" /\ S!Steps[2] = "publishers" /\ S!Steps[3] = "server" /\ S!Steps[4] = "match"
           /\ S!Steps[5] = "project" /\ S!Steps[6] = "mcp"
           /\ \A i \in DOMAIN Hooks : S!Steps[6 + i] = "hook"
           /\ S!Steps[7 + Len(Hooks)] = "ignore" /\ S!Steps[8 + Len(Hooks)] = "constitution"
<1>1. PICK those : Hooks \in Seq(those)
  BY DEF ScaffoldBounds
<1>2. Len(Hooks) \in Nat /\ DOMAIN Hooks = 1..Len(Hooks)
  BY <1>1
<1> DEFINE first == <<"create", "publishers", "server", "match", "project", "mcp">>
           hooks == [i \in DOMAIN Hooks |-> "hook"]
           last == <<"ignore", "constitution">>
<1>3. /\ first \in Seq(StepKinds) /\ Len(first) = 6 /\ first[1] = "create" /\ first[2] = "publishers"
      /\ first[3] = "server" /\ first[4] = "match" /\ first[5] = "project" /\ first[6] = "mcp"
  <2>2. first \in Seq(StepKinds)
    BY DEF StepKinds
  <2>3. Len(first) = 6
    OBVIOUS
  <2>4. /\ first[1] = "create" /\ first[2] = "publishers"
        /\ first[3] = "server" /\ first[4] = "match" /\ first[5] = "project" /\ first[6] = "mcp"
    OBVIOUS
  <2> QED
    BY <2>2, <2>3, <2>4
<1>4. hooks \in Seq(StepKinds) /\ Len(hooks) = Len(Hooks) /\ \A i \in DOMAIN Hooks : hooks[i] = "hook"
  <2>1. hooks \in [1..Len(Hooks) -> StepKinds] /\ \A i \in DOMAIN Hooks : hooks[i] = "hook"
    BY <1>2 DEF StepKinds
  <2> HIDE DEF hooks
  <2>2. hooks \in Seq(StepKinds)
    BY <1>2, <2>1
  <2>3. Len(hooks) = Len(Hooks)
    BY <1>2, <2>1, <2>2
  <2> QED
    BY <2>1, <2>2, <2>3
<1>5. last \in Seq(StepKinds) /\ Len(last) = 2 /\ last[1] = "ignore" /\ last[2] = "constitution"
  <2>1. last \in Seq(StepKinds)
    BY DEF StepKinds
  <2>2. Len(last) = 2
    OBVIOUS
  <2>3. last[1] = "ignore" /\ last[2] = "constitution"
    OBVIOUS
  <2> QED
    BY <2>1, <2>2, <2>3
<1>6. S!Steps = (first \o hooks) \o last
  BY DEF S!Steps
<1> HIDE DEF first, hooks, last
<1>7. PICK both : both = first \o hooks
  OBVIOUS
<1>8. JoinIs(both, first, hooks, 6, Len(Hooks), StepKinds)
  <2>1. JoinedAs(first, hooks, 6, Len(Hooks), StepKinds)
    BY <1>2, <1>3, <1>4 DEF JoinedAs
  <2> HIDE DEF StepKinds
  <2> QED
    BY <1>7, <2>1, Joined
<1>9. /\ both \in Seq(StepKinds) /\ 6 + Len(Hooks) \in Nat /\ Len(both) = 6 + Len(Hooks)
      /\ \A i \in 1..6 : both[i] = first[i]
      /\ \A i \in DOMAIN Hooks : both[6 + i] = "hook"
  BY <1>2, <1>4, <1>8 DEF JoinIs
<1>10. JoinIs(S!Steps, both, last, 6 + Len(Hooks), 2, StepKinds)
  <2>1. JoinedAs(both, last, 6 + Len(Hooks), 2, StepKinds)
    BY <1>5, <1>9 DEF JoinedAs
  <2> HIDE DEF StepKinds
  <2> QED
    BY <1>6, <1>7, <2>1, Joined
<1>11. /\ S!Steps \in Seq(StepKinds) /\ Len(S!Steps) = 8 + Len(Hooks) /\ DOMAIN S!Steps = 1..(8 + Len(Hooks))
       /\ \A i \in 1..6 + Len(Hooks) : S!Steps[i] = both[i]
       /\ S!Steps[7 + Len(Hooks)] = "ignore" /\ S!Steps[8 + Len(Hooks)] = "constitution"
  <2>1. /\ (6 + Len(Hooks)) + 2 = 8 + Len(Hooks) /\ (6 + Len(Hooks)) + 1 = 7 + Len(Hooks)
        /\ 1 \in 1..2 /\ 2 \in 1..2
    BY <1>2
  <2> QED
    BY <1>5, <1>10, <2>1 DEF JoinIs
<1>12. \A i \in DOMAIN Hooks : 6 + i \in 1..6 + Len(Hooks)
  BY <1>2
<1>13. \A i \in 1..6 : i \in 1..6 + Len(Hooks)
  BY <1>2
<1> QED
  BY <1>2, <1>3, <1>9, <1>11, <1>12, <1>13

LEMMA KindIs ==
    ASSUME ScaffoldBounds, NEW j \in DOMAIN S!Steps
    PROVE  /\ j \in Nat /\ S!Steps[j] \in StepKinds /\ S!FileOf(j) \in S!Files
           /\ S!Steps[j] \in {"create", "publishers", "server", "match", "project"} => S!FileOf(j) = "toml" /\ j <= 5
           /\ S!Steps[j] = "create" => j = 1
           /\ S!Steps[j] = "match" => j = 4
           /\ S!Steps[j] = "mcp" => S!FileOf(j) = "mcp" /\ j = 6
           /\ S!Steps[j] = "hook" => S!FileOf(j) = "settings" /\ j - 6 \in DOMAIN Hooks /\ j > 6
           /\ S!Steps[j] = "ignore" => S!FileOf(j) = "ignore" /\ j > 6
           /\ S!Steps[j] = "constitution" => S!FileOf(j) = "principles" /\ j > 6
<1>1. /\ Len(Hooks) \in Nat /\ DOMAIN Hooks = 1..Len(Hooks) /\ j \in 1..(8 + Len(Hooks))
      /\ S!Steps[1] = "create" /\ S!Steps[2] = "publishers" /\ S!Steps[3] = "server" /\ S!Steps[4] = "match"
      /\ S!Steps[5] = "project" /\ S!Steps[6] = "mcp"
      /\ \A i \in DOMAIN Hooks : S!Steps[6 + i] = "hook"
      /\ S!Steps[7 + Len(Hooks)] = "ignore" /\ S!Steps[8 + Len(Hooks)] = "constitution"
  BY StepsAre
<1>2. \/ j = 1 \/ j = 2 \/ j = 3 \/ j = 4 \/ j = 5 \/ j = 6
      \/ j - 6 \in DOMAIN Hooks /\ j = 6 + (j - 6) /\ j > 6
      \/ j = 7 + Len(Hooks) /\ j > 6
      \/ j = 8 + Len(Hooks) /\ j > 6
  BY <1>1
<1>3. CASE j \in 1..6
  <2>1. j = 1 \/ j = 2 \/ j = 3 \/ j = 4 \/ j = 5 \/ j = 6
    BY <1>3
  <2> QED
    BY <1>1, <2>1 DEF S!FileOf, StepKinds, S!Files
<1>4. CASE j - 6 \in DOMAIN Hooks /\ j = 6 + (j - 6) /\ j > 6
  <2>1. S!Steps[j] = "hook"
    BY <1>1, <1>4
  <2> QED
    BY <1>1, <1>4, <2>1 DEF S!FileOf, StepKinds, S!Files
<1>5. CASE j = 7 + Len(Hooks) /\ j > 6
  BY <1>1, <1>5 DEF S!FileOf, StepKinds, S!Files
<1>6. CASE j = 8 + Len(Hooks) /\ j > 6
  BY <1>1, <1>6 DEF S!FileOf, StepKinds, S!Files
<1> QED
  BY <1>2, <1>3, <1>4, <1>5, <1>6

\* What a step of an init is to see to.
StepDone(j, d) ==
    /\ S!Steps[j] = "create" => d["toml"].is = "file" /\ d["toml"].key["ungated_dirs"].how # "not"
    /\ S!Steps[j] = "publishers" => d["toml"].key["global_publishers"].how # "not"
    /\ S!Steps[j] = "server" => S!Active(d["toml"], "server_url")
    /\ S!Steps[j] = "mcp" => S!ServerURL(d) \in {"", d["mcp"].url}
    /\ S!Steps[j] = "hook" => Hooks[j - 6] \in d["settings"].hooks
    /\ S!Steps[j] = "ignore" => d["ignore"].block
    /\ S!Steps[j] = "constitution" => d["principles"].own \/ d["principles"].starter

\* A toml keeps what is the user's, and its keys stay.
TomlGrows(a, b) ==
    /\ b \in TomlFile /\ b.own = a.own /\ b.is = a.is
    /\ \A k \in S!Keys : (a.key[k].how # "not" => b.key[k].how # "not") /\ (S!Active(a, k) => S!Active(b, k))

LEMMA KeyPut ==
    ASSUME NEW keys \in [S!Keys -> TomlKey], NEW k \in S!Keys, NEW new \in TomlKey
    PROVE  \E now \in [S!Keys -> TomlKey] :
              now = [keys EXCEPT ![k] = new] /\ now[k] = new /\ \A q \in S!Keys \ {k} : now[q] = keys[q]
<1>1. [keys EXCEPT ![k] = new] \in [S!Keys -> TomlKey]
  OBVIOUS
<1>2. [keys EXCEPT ![k] = new][k] = new /\ \A q \in S!Keys \ {k} : [keys EXCEPT ![k] = new][q] = keys[q]
  OBVIOUS
<1> QED
  BY <1>1, <1>2

KeySet(a, k, how, b) ==
    /\ b \in TomlFile /\ b.own = a.own /\ b.is = a.is /\ b.key[k].how = how
    /\ \A q \in S!Keys \ {k} : b.key[q] = a.key[q]

LEMMA AppendedIs ==
    ASSUME NEW a \in TomlFile, NEW k \in S!Keys, NEW how, how \in {"note", "set"}
    PROVE  KeySet(a, k, how, S!Appended(a, k, how))
<1>1. PICK keys \in [S!Keys -> TomlKey] : keys = a.key
  BY DEF TomlFile
<1>2. PICK times \in Nat : times = keys[k].times
  BY DEF TomlKey
<1> DEFINE new == [how |-> how, within |-> a.table # "", times |-> times + 1]
<1>3. new \in TomlKey /\ new.how = how
  BY DEF TomlKey
<1>4. S!Appended(a, k, how) = [a EXCEPT !.key = [keys EXCEPT ![k] = new]]
  BY <1>1, <1>2 DEF S!Appended, TomlFile
<1> HIDE DEF new
<1>5. PICK now \in [S!Keys -> TomlKey] : now = [keys EXCEPT ![k] = new] /\ now[k] = new /\ \A q \in S!Keys \ {k} : now[q] = keys[q]
  BY <1>3, KeyPut
<1>6. S!Appended(a, k, how) = [a EXCEPT !.key = now]
  BY <1>4, <1>5
<1>7. [a EXCEPT !.key = now] \in TomlFile /\ [a EXCEPT !.key = now].own = a.own /\ [a EXCEPT !.key = now].is = a.is
      /\ [a EXCEPT !.key = now].key = now
  BY DEF TomlFile
<1> QED
  BY <1>1, <1>3, <1>5, <1>6, <1>7 DEF KeySet

LEMMA DocumentedIs ==
    ASSUME NEW a \in TomlFile, NEW k \in S!Keys
    PROVE  /\ TomlGrows(a, S!Documented(a, k)) /\ S!Documented(a, k).key[k].how # "not"
           /\ S!Documented(a, k) = a <=> a.key[k].how # "not"
<1>1. CASE a.key[k].how = "not"
  <2>1. PICK b : b = S!Appended(a, k, "note")
    OBVIOUS
  <2>2. /\ b \in TomlFile /\ b.own = a.own /\ b.is = a.is /\ b.key[k].how = "note"
        /\ \A q \in S!Keys \ {k} : b.key[q] = a.key[q]
    <3>1. KeySet(a, k, "note", b)
      BY <2>1, AppendedIs
    <3> QED
      BY <3>1 DEF KeySet
  <2>3. S!Documented(a, k) = b
    BY <1>1, <2>1 DEF S!Documented
  <2>4. TomlGrows(a, b)
    BY <1>1, <2>2 DEF TomlGrows, S!Active
  <2>5. b # a
    BY <1>1, <2>2
  <2> QED
    BY <1>1, <2>2, <2>3, <2>4, <2>5
<1>2. CASE a.key[k].how # "not"
  BY <1>2 DEF S!Documented, TomlGrows
<1> QED
  BY <1>1, <1>2

LEMMA ActivatedIs ==
    ASSUME NEW a \in TomlFile, NEW k \in S!Keys
    PROVE  /\ TomlGrows(a, S!Activated(a, k)) /\ S!Active(S!Activated(a, k), k)
           /\ S!Activated(a, k) = a <=> S!Active(a, k)
<1>1. CASE S!Active(a, k)
  BY <1>1 DEF S!Activated, TomlGrows
<1>2. CASE ~S!Active(a, k) /\ a.key[k].how = "note"
  <2>1. PICK keys \in [S!Keys -> TomlKey] : keys = a.key
    BY DEF TomlFile
  <2>2. PICK new \in TomlKey : new = [keys[k] EXCEPT !.how = "set"] /\ new.how = "set"
    <3>1. keys[k] \in TomlKey
      OBVIOUS
    <3>2. [keys[k] EXCEPT !.how = "set"] \in TomlKey /\ [keys[k] EXCEPT !.how = "set"].how = "set"
      BY <3>1 DEF TomlKey
    <3> QED
      BY <3>2
  <2>3. PICK now \in [S!Keys -> TomlKey] : now = [keys EXCEPT ![k] = new] /\ now[k] = new /\ \A q \in S!Keys \ {k} : now[q] = keys[q]
    BY KeyPut
  <2>4. PICK b : b = [a EXCEPT !.key = now]
    OBVIOUS
  <2>5. b \in TomlFile /\ b.own = a.own /\ b.is = a.is /\ b.key = now
    BY <2>4 DEF TomlFile
  <2>6. S!Activated(a, k) = b
    BY <1>2, <2>1, <2>2, <2>3, <2>4 DEF S!Activated, TomlFile
  <2>7. TomlGrows(a, b) /\ S!Active(b, k) /\ b # a
    BY <1>2, <2>1, <2>2, <2>3, <2>5 DEF TomlGrows, S!Active
  <2> QED
    BY <1>2, <2>6, <2>7
<1>3. CASE ~S!Active(a, k) /\ a.key[k].how # "note"
  <2>1. PICK b : b = S!Appended(a, k, "set")
    OBVIOUS
  <2>2. /\ b \in TomlFile /\ b.own = a.own /\ b.is = a.is /\ b.key[k].how = "set"
        /\ \A q \in S!Keys \ {k} : b.key[q] = a.key[q]
    <3>1. KeySet(a, k, "set", b)
      BY <2>1, AppendedIs
    <3> QED
      BY <3>1 DEF KeySet
  <2>3. S!Activated(a, k) = b
    BY <1>3, <2>1 DEF S!Activated
  <2>4. TomlGrows(a, b) /\ S!Active(b, k) /\ b # a
    BY <1>3, <2>2 DEF TomlGrows, S!Active
  <2> QED
    BY <1>3, <2>3, <2>4
<1> QED
  BY <1>1, <1>2, <1>3

LEMMA ScaffoldedIs ==
    /\ S!Scaffolded \in TomlFile /\ ~S!Scaffolded.own /\ S!Scaffolded.is = "file"
    /\ S!Scaffolded.key["ungated_dirs"].how # "not"
<1>1. S!Assigned \in TomlKey /\ S!Noted \in TomlKey /\ S!Noted.how = "note"
  BY DEF S!Assigned, S!Noted, TomlKey
<1>2. PICK keys \in [S!Keys -> TomlKey] : /\ keys = [k \in S!Keys |-> IF k = "server_url" THEN S!Assigned ELSE S!Noted]
                                          /\ keys["ungated_dirs"] = S!Noted
  <2> DEFINE keys == [k \in S!Keys |-> IF k = "server_url" THEN S!Assigned ELSE S!Noted]
  <2>1. keys \in [S!Keys -> TomlKey]
    BY <1>1
  <2>2. keys["ungated_dirs"] = S!Noted
    BY DEF S!Keys
  <2> QED
    BY <2>1, <2>2
<1>3. S!Scaffolded = [is |-> "file", key |-> keys, table |-> "", own |-> FALSE]
  BY <1>2 DEF S!Scaffolded, S!Toml
<1>4. "" \in STRING \cup {"", "auth", "other"} /\ "file" \in {"none", "file"}
  OBVIOUS
<1> QED
  BY <1>1, <1>2, <1>3, <1>4 DEF TomlFile

\* What a step makes of its file: what is the user's stays, nothing changes where the step has
\* nothing to see to, and afterwards it has seen to it, and those before it still have.
StepSeesTo(j, d, c) ==
    /\ FileHolds(S!FileOf(j), c) /\ c.own = d[S!FileOf(j)].own
    /\ S!Steps[j] # "project" => (c = d[S!FileOf(j)] <=> StepDone(j, d))
    /\ StepDone(j, Changed(d, S!FileOf(j), c))
    /\ \A i \in DOMAIN S!Steps : i < j /\ StepDone(i, d) => StepDone(i, Changed(d, S!FileOf(j), c))

LEMMA ServerStays ==
    ASSUME NEW d, NEW e, DiskTyped(d), DiskTyped(e), d["toml"] = e["toml"]
    PROVE  S!ServerURL(d) = S!ServerURL(e)
<1>1. d.toml = d["toml"] /\ e.toml = e["toml"]
  BY FilesAre
<1> QED
  BY <1>1 DEF S!ServerURL

LEMMA TomlStep ==
    ASSUME ScaffoldBounds, NEW d, DiskTyped(d), NEW j \in DOMAIN S!Steps,
           S!Steps[j] \in {"create", "publishers", "server", "project"},
           NEW c, c = S!After(j, d)
    PROVE  StepSeesTo(j, d, c)
<1>1. S!FileOf(j) = "toml" /\ j <= 5 /\ (S!Steps[j] = "create" => j = 1) /\ j \in Nat /\ "toml" \in S!Files
  BY KindIs DEF S!Files
<1>2. PICK a \in TomlFile : a = d["toml"] /\ a = d.toml /\ (a.is = "none" => ~a.own)
  BY FilesAre
<1>3. /\ c \in TomlFile /\ c.own = a.own /\ (c.is = "none" => ~c.own)
      /\ S!Steps[j] # "create" => TomlGrows(a, c)
      /\ S!Steps[j] = "create" => c.is = "file" /\ c.key["ungated_dirs"].how # "not"
      /\ S!Steps[j] = "create" => (c = a <=> a.is = "file" /\ a.key["ungated_dirs"].how # "not")
      /\ S!Steps[j] = "publishers" => c.key["global_publishers"].how # "not"
      /\ S!Steps[j] = "publishers" => (c = a <=> a.key["global_publishers"].how # "not")
      /\ S!Steps[j] = "server" => S!Active(c, "server_url") /\ (c = a <=> S!Active(a, "server_url"))
  <2>0. {"server_url", "project_id", "global_publishers", "ungated_dirs"} \subseteq S!Keys
    BY DEF S!Keys
  <2>1. CASE S!Steps[j] = "create" /\ a.is = "none"
    <3>1. c = S!Scaffolded
      BY <1>2, <2>1 DEF S!After
    <3>2. c \in TomlFile /\ ~c.own /\ c.is = "file" /\ c.key["ungated_dirs"].how # "not"
      BY <3>1, ScaffoldedIs
    <3>3. a.own = FALSE /\ c.own = FALSE /\ c # a
      BY <1>2, <2>1, <3>2 DEF TomlFile
    <3> QED
      BY <2>1, <3>2, <3>3
  <2>2. CASE S!Steps[j] = "create" /\ a.is # "none"
    <3>1. c = S!Documented(a, "ungated_dirs")
      BY <1>2, <2>2 DEF S!After
    <3>2. TomlGrows(a, c) /\ c.key["ungated_dirs"].how # "not" /\ (c = a <=> a.key["ungated_dirs"].how # "not")
      BY <2>0, <3>1, DocumentedIs
    <3>3. a.is = "file"
      BY <2>2 DEF TomlFile
    <3> QED
      BY <1>2, <2>2, <3>2, <3>3 DEF TomlGrows
  <2>3. CASE S!Steps[j] = "publishers"
    <3>1. c = S!Documented(a, "global_publishers")
      BY <1>2, <2>3 DEF S!After
    <3>2. TomlGrows(a, c) /\ c.key["global_publishers"].how # "not" /\ (c = a <=> a.key["global_publishers"].how # "not")
      BY <2>0, <3>1, DocumentedIs
    <3> QED
      BY <1>2, <2>3, <3>2 DEF TomlGrows
  <2>4. CASE S!Steps[j] = "server"
    <3>1. c = S!Activated(a, "server_url")
      BY <1>2, <2>4 DEF S!After
    <3>2. TomlGrows(a, c) /\ S!Active(c, "server_url") /\ (c = a <=> S!Active(a, "server_url"))
      BY <2>0, <3>1, ActivatedIs
    <3> QED
      BY <1>2, <2>4, <3>2 DEF TomlGrows
  <2>5. CASE S!Steps[j] = "project"
    <3>1. c = S!Activated(a, "project_id")
      BY <1>2, <2>5 DEF S!After
    <3>2. TomlGrows(a, c)
      BY <2>0, <3>1, ActivatedIs
    <3> QED
      BY <1>2, <2>5, <3>2 DEF TomlGrows
  <2> QED
    BY <2>1, <2>2, <2>3, <2>4, <2>5
<1>4. FileHolds("toml", c)
  BY <1>3 DEF FileHolds
<1>5. PICK e : e = Changed(d, "toml", c)
  OBVIOUS
<1>6. DiskTyped(e) /\ e["toml"] = c
  <2>1. DiskPutIs(d, "toml", c, e)
    BY <1>1, <1>4, <1>5, DiskPut
  <2> QED
    BY <2>1 DEF DiskPutIs
<1>7. StepDone(j, e)
  BY <1>3, <1>6 DEF StepDone
<1>8. S!Steps[j] # "project" => (c = a <=> StepDone(j, d))
  BY <1>2, <1>3 DEF StepDone
<1>9. ASSUME NEW i \in DOMAIN S!Steps, i < j, StepDone(i, d) PROVE StepDone(i, e)
  <2>1. /\ i \in Nat /\ i <= 4
        /\ S!Steps[i] \notin {"mcp", "hook", "ignore", "constitution"} /\ S!Steps[j] # "create"
    <3>1. /\ i \in Nat /\ (S!Steps[i] = "mcp" => i = 6) /\ (S!Steps[i] = "hook" => i > 6)
          /\ (S!Steps[i] = "ignore" => i > 6) /\ (S!Steps[i] = "constitution" => i > 6)
      BY KindIs
    <3>2. i <= 4
      BY <1>1, <1>9, <3>1
    <3>3. S!Steps[j] # "create"
      <4>1. DOMAIN S!Steps = 1..(8 + Len(Hooks))
        BY StepsAre
      <4> QED
        BY <1>1, <1>9, <3>1, <4>1
    <3> QED
      BY <3>1, <3>2, <3>3
  <2>2. a.is = c.is /\ \A k \in S!Keys : (a.key[k].how # "not" => c.key[k].how # "not") /\ (S!Active(a, k) => S!Active(c, k))
    BY <1>3, <2>1 DEF TomlGrows
  <2>3. {"server_url", "project_id", "global_publishers", "ungated_dirs"} \subseteq S!Keys
    BY DEF S!Keys
  <2> QED
    BY <1>2, <1>6, <1>9, <2>1, <2>2, <2>3 DEF StepDone
<1> QED
  BY <1>1, <1>2, <1>3, <1>4, <1>5, <1>7, <1>8, <1>9 DEF StepSeesTo

LEMMA FileStep ==
    ASSUME ScaffoldBounds, NEW d, DiskTyped(d), NEW j \in DOMAIN S!Steps,
           S!Steps[j] \in {"mcp", "hook", "ignore", "constitution"},
           NEW c, c = S!After(j, d)
    PROVE  StepSeesTo(j, d, c)
<1>1. /\ d["toml"] \in TomlFile /\ d["mcp"] \in McpFile /\ d["settings"] \in SettingsFile
      /\ d["ignore"] \in IgnoreFile /\ d["principles"] \in PrinciplesFile
      /\ d.toml = d["toml"] /\ d.mcp = d["mcp"] /\ d.settings = d["settings"]
      /\ d.ignore = d["ignore"] /\ d.principles = d["principles"]
  BY FilesAre
<1>2. S!FileOf(j) \in S!Files /\ S!FileOf(j) # "toml"
  BY KindIs
<1>3. /\ FileHolds(S!FileOf(j), c) /\ c.own = d[S!FileOf(j)].own
      /\ c = d[S!FileOf(j)] <=> StepDone(j, d)
      /\ S!Steps[j] = "mcp" => S!ServerURL(d) \in {"", c.url}
      /\ S!Steps[j] = "hook" => Hooks[j - 6] \in c.hooks /\ d["settings"].hooks \subseteq c.hooks
      /\ S!Steps[j] = "ignore" => c.block
      /\ S!Steps[j] = "constitution" => c.own \/ c.starter
  <2>1. CASE S!Steps[j] = "mcp"
    <3>1. PICK b \in McpFile : b = d["mcp"]
      BY <1>1
    <3>2. PICK url : url = S!ServerURL(d)
      OBVIOUS
    <3>3. url \in STRING \cup {"", "local", "set", "own"}
      BY <1>1, <3>2 DEF S!ServerURL, S!Active
    <3>4. c = IF url \in {"", b.url} THEN b ELSE [b EXCEPT !.is = "file", !.url = url]
      BY <1>1, <2>1, <3>1, <3>2 DEF S!After, S!Registered
    <3>5. c \in McpFile /\ c.own = b.own /\ (c = b <=> url \in {"", b.url}) /\ url \in {"", c.url}
      BY <3>3, <3>4 DEF McpFile
    <3>6. S!FileOf(j) = "mcp"
      BY <2>1, KindIs
    <3> QED
      BY <2>1, <3>1, <3>2, <3>5, <3>6 DEF FileHolds, StepDone
  <2>2. CASE S!Steps[j] = "hook"
    <3>1. PICK b \in SettingsFile : b = d["settings"]
      BY <1>1
    <3>2. S!FileOf(j) = "settings" /\ j - 6 \in DOMAIN Hooks
      BY <2>2, KindIs
    <3>3. PICK h \in InstalledHooks : h = Hooks[j - 6]
      BY <3>2 DEF InstalledHooks
    <3>4. c = IF h \in b.hooks THEN b ELSE [b EXCEPT !.is = "file", !.hooks = @ \cup {h}]
      BY <1>1, <2>2, <3>1, <3>3 DEF S!After, S!Merged, S!HasHook
    <3>5. c \in SettingsFile /\ c.own = b.own /\ (c = b <=> h \in b.hooks) /\ h \in c.hooks /\ b.hooks \subseteq c.hooks
      <4>1. CASE h \in b.hooks
        BY <3>4, <4>1
      <4>2. CASE h \notin b.hooks
        <5>1. PICK hooks \in SUBSET InstalledHooks : hooks = b.hooks \cup {h}
          BY DEF SettingsFile
        <5>2. c = [b EXCEPT !.is = "file", !.hooks = hooks]
          BY <3>4, <4>2, <5>1 DEF SettingsFile
        <5>3. c \in SettingsFile /\ c.own = b.own /\ c.hooks = hooks
          BY <5>2 DEF SettingsFile
        <5> QED
          BY <4>2, <5>1, <5>3
      <4> QED
        BY <4>1, <4>2
    <3> QED
      BY <2>2, <3>1, <3>2, <3>3, <3>5 DEF FileHolds, StepDone
  <2>3. CASE S!Steps[j] = "ignore"
    <3>1. PICK b \in IgnoreFile : b = d["ignore"]
      BY <1>1
    <3>2. S!FileOf(j) = "ignore"
      BY <2>3, KindIs
    <3>3. c = [b EXCEPT !.block = TRUE]
      BY <1>1, <2>3, <3>1 DEF S!After
    <3>4. c \in IgnoreFile /\ c.own = b.own /\ (c = b <=> b.block) /\ c.block
      BY <3>3 DEF IgnoreFile
    <3> QED
      BY <2>3, <3>1, <3>2, <3>4 DEF FileHolds, StepDone
  <2>4. CASE S!Steps[j] = "constitution"
    <3>1. PICK b \in PrinciplesFile : b = d["principles"]
      BY <1>1
    <3>2. S!FileOf(j) = "principles"
      BY <2>4, KindIs
    <3>3. c = IF b.own \/ b.starter THEN b ELSE [own |-> FALSE, starter |-> TRUE]
      BY <1>1, <2>4, <3>1 DEF S!After, S!Principles
    <3>4. c \in PrinciplesFile /\ c.own = b.own /\ (c = b <=> b.own \/ b.starter) /\ (c.own \/ c.starter)
      <4>1. CASE b.own \/ b.starter
        BY <3>3, <4>1
      <4>2. CASE ~(b.own \/ b.starter)
        <5>1. b.own = FALSE /\ b.starter = FALSE
          BY <4>2 DEF PrinciplesFile
        <5>2. c = [own |-> FALSE, starter |-> TRUE]
          BY <3>3, <4>2
        <5>3. c \in PrinciplesFile /\ c.own = FALSE /\ c.starter = TRUE
          BY <5>2 DEF PrinciplesFile
        <5> QED
          BY <4>2, <5>1, <5>3
      <4> QED
        BY <4>1, <4>2
    <3> QED
      BY <2>4, <3>1, <3>2, <3>4 DEF FileHolds, StepDone
  <2> QED
    BY <2>1, <2>2, <2>3, <2>4
<1>4. PICK e : e = Changed(d, S!FileOf(j), c)
  OBVIOUS
<1>5. DiskTyped(e) /\ e[S!FileOf(j)] = c /\ \A g \in S!Files \ {S!FileOf(j)} : e[g] = d[g]
  <2>1. DiskPutIs(d, S!FileOf(j), c, e)
    BY <1>2, <1>3, <1>4, DiskPut
  <2> QED
    BY <2>1 DEF DiskPutIs
<1>6. e["toml"] = d["toml"]
  BY <1>2, <1>5 DEF S!Files
<1>7. S!ServerURL(e) = S!ServerURL(d)
  BY <1>5, <1>6, ServerStays
<1>8. StepDone(j, e)
  BY <1>3, <1>5, <1>7, KindIs DEF StepDone
<1>9. ASSUME NEW i \in DOMAIN S!Steps, i < j, StepDone(i, d) PROVE StepDone(i, e)
  <2>1. /\ S!Steps[i] = "mcp" => e["mcp"].url = d["mcp"].url
    BY <1>5, <1>9, KindIs DEF S!Files
  <2>2. d["settings"].hooks \subseteq e["settings"].hooks
    BY <1>3, <1>5, KindIs DEF S!Files
  <2>3. d["ignore"].block => e["ignore"].block
    BY <1>3, <1>5, KindIs DEF S!Files
  <2>4. d["principles"].own \/ d["principles"].starter => e["principles"].own \/ e["principles"].starter
    BY <1>3, <1>5, KindIs DEF S!Files
  <2> QED
    BY <1>6, <1>7, <1>9, <2>1, <2>2, <2>3, <2>4 DEF StepDone
<1> QED
  BY <1>3, <1>4, <1>8, <1>9 DEF StepSeesTo

-----------------------------------------------------------------------------
ScaffoldRun ==
    [at : {"idle", "look", "write"}, step : 0..Len(S!Steps), held : Content \cup {0}, read : Content \cup {<<>>},
     clean : BOOLEAN, kind : {"", "init", "auth"}]

\* The file that a run is at, and what it has done.
InHandOf(k) == IF k.kind = "auth" THEN "toml" ELSE S!FileOf(k.step)
SettledBy(n, d) == \A j \in DOMAIN S!Steps : j < n => StepDone(j, d)

\* A run holds what was the user's in the file it read; one that nobody disturbed has seen to
\* the steps it is past, and holds what the next makes of its file.
RunFits(k, d) ==
    k.at # "idle" =>
        /\ \/ k.kind = "init" /\ k.step \in DOMAIN S!Steps
           \/ k.kind = "auth" /\ k.at = "write" /\ ~k.clean
        /\ k.at = "write" =>
              /\ FileHolds(InHandOf(k), k.held) /\ FileHolds(InHandOf(k), k.read) /\ k.held.own = k.read.own
              /\ k.kind = "init" => S!Steps[k.step] # "match"
        /\ k.clean =>
              /\ SettledBy(k.step, d)
              /\ k.at = "write" => k.read = d[InHandOf(k)] /\ k.held = S!After(k.step, d)

ScaffoldTyped ==
    /\ DiskTyped(disk) /\ init \in [Requests -> ScaffoldRun]
    /\ mine \in SUBSET S!Files /\ spoilt \in SUBSET S!Files /\ settled \in BOOLEAN
    /\ inits \in 0..Inits /\ edits \in 0..RepositoryEdits /\ initCuts \in 0..Cuts

ScaffoldInv ==
    /\ ScaffoldTyped /\ S!UserKept
    /\ \A r \in Requests : RunFits(init[r], disk)
    /\ settled => SettledBy(Len(S!Steps) + 1, disk)

LEMMA ScaffoldIdle ==
    ASSUME ScaffoldBounds
    PROVE  S!Idle \in ScaffoldRun /\ \A d : RunFits(S!Idle, d)
<1>1. 0 \in 0..Len(S!Steps)
  BY StepsAre
<1>2. 0 \in Content \cup {0} /\ <<>> \in Content \cup {<<>>} /\ "" \in {"", "init", "auth"}
      /\ "idle" \in {"idle", "look", "write"}
  OBVIOUS
<1> QED
  BY <1>1, <1>2 DEF S!Idle, ScaffoldRun, RunFits

LEMMA ScaffoldInit ==
    ASSUME ScaffoldBounds, S!Init
    PROVE  ScaffoldInv
<1>1. /\ disk \in Repositories /\ init = [r \in Requests |-> S!Idle]
      /\ mine = {f \in S!Files : disk[f].own} /\ spoilt = {} /\ settled = FALSE
      /\ inits = 0 /\ edits = 0 /\ initCuts = 0
  BY DEF S!Init
<1>2. init \in [Requests -> ScaffoldRun] /\ \A r \in Requests : RunFits(init[r], disk)
  BY <1>1, ScaffoldIdle
<1>3. DiskTyped(disk) /\ Inits \in Nat /\ RepositoryEdits \in Nat /\ Cuts \in Nat
  BY <1>1 DEF ScaffoldBounds
<1>4. ScaffoldTyped
  <2>1. mine \in SUBSET S!Files /\ spoilt \in SUBSET S!Files /\ settled \in BOOLEAN
    BY <1>1
  <2>2. inits \in 0..Inits /\ edits \in 0..RepositoryEdits /\ initCuts \in 0..Cuts
    BY <1>1, <1>3
  <2> QED
    BY <1>2, <1>3, <2>1, <2>2 DEF ScaffoldTyped
<1>5. S!UserKept
  BY <1>1 DEF S!UserKept
<1> QED
  BY <1>1, <1>2, <1>4, <1>5 DEF ScaffoldInv

LEMMA ScaffoldIs ==
    ASSUME ScaffoldInv
    PROVE  /\ DiskTyped(disk) /\ init \in [Requests -> ScaffoldRun]
           /\ mine \in SUBSET S!Files /\ spoilt \in SUBSET S!Files /\ settled \in BOOLEAN
           /\ inits \in 0..Inits /\ edits \in 0..RepositoryEdits /\ initCuts \in 0..Cuts
           /\ \A r \in Requests : init[r] \in ScaffoldRun /\ RunFits(init[r], disk)
  BY DEF ScaffoldInv, ScaffoldTyped

\* The overlay does not change, so that what a step makes of a repository does not.
LEMMA Steady ==
    ASSUME local' = local
    PROVE  /\ \A j, d : S!After(j, d)' = S!After(j, d)
           /\ \A n, d : SettledBy(n, d)' <=> SettledBy(n, d)
           /\ \A k, d : RunFits(k, d)' <=> RunFits(k, d)
<1>1. ASSUME NEW d PROVE S!ServerURL(d)' = S!ServerURL(d)
  BY DEF S!ServerURL
<1>2. ASSUME NEW j, NEW d PROVE S!After(j, d)' = S!After(j, d)
  BY <1>1 DEF S!After
<1>3. ASSUME NEW j, NEW d PROVE StepDone(j, d)' <=> StepDone(j, d)
  BY <1>1 DEF StepDone
<1>4. ASSUME NEW n, NEW d PROVE SettledBy(n, d)' <=> SettledBy(n, d)
  BY <1>3 DEF SettledBy
<1>5. ASSUME NEW k, NEW d PROVE RunFits(k, d)' <=> RunFits(k, d)
  BY <1>2, <1>4 DEF RunFits
<1> QED
  BY <1>2, <1>4, <1>5

\* A run goes on, and no file changes.
LEMMA ScaffoldTurns ==
    ASSUME ScaffoldInv, NEW r \in Requests, NEW k \in ScaffoldRun, init' = [init EXCEPT ![r] = k],
           RunFits(k, disk), UNCHANGED <<disk, mine, spoilt>>,
           settled' \in BOOLEAN, settled' => settled \/ SettledBy(Len(S!Steps) + 1, disk),
           inits' \in 0..Inits, edits' \in 0..RepositoryEdits, initCuts' \in 0..Cuts,
           local' = local
    PROVE  ScaffoldInv'
<1>1. S!UserKept'
  BY DEF ScaffoldInv, S!UserKept
<1>2. init' \in [Requests -> ScaffoldRun]
  BY ScaffoldIs
<1>3. ASSUME NEW q \in Requests PROVE init'[q] = IF q = r THEN k ELSE init[q]
  BY ScaffoldIs
<1>4. ASSUME NEW q \in Requests PROVE RunFits(init[q], disk)'
  <2>1. PICK c : c = init'[q] /\ RunFits(c, disk)
    BY <1>3, ScaffoldIs
  <2>2. RunFits(c, disk)'
    BY <2>1, Steady
  <2> QED
    BY <2>1, <2>2
<1>5. SettledBy(Len(S!Steps) + 1, disk)' <=> SettledBy(Len(S!Steps) + 1, disk)
  BY Steady
<1>6. ScaffoldTyped'
  BY <1>2, ScaffoldIs DEF ScaffoldTyped
<1> QED
  BY <1>1, <1>4, <1>5, <1>6 DEF ScaffoldInv

LEMMA StepMakes ==
    ASSUME ScaffoldBounds, NEW d, DiskTyped(d), NEW j \in DOMAIN S!Steps, S!Steps[j] # "match"
    PROVE  StepSeesTo(j, d, S!After(j, d))
<1>1. S!Steps[j] \in StepKinds
  BY KindIs
<1>2. CASE S!Steps[j] \in {"create", "publishers", "server", "project"}
  BY <1>2, TomlStep
<1>3. CASE S!Steps[j] \in {"mcp", "hook", "ignore", "constitution"}
  BY <1>3, FileStep
<1> QED
  BY <1>1, <1>2, <1>3 DEF StepKinds

\* A step is seen to when it is written, and when there was nothing to write.
LEMMA SettledOn ==
    ASSUME ScaffoldBounds, NEW d, DiskTyped(d), NEW j \in DOMAIN S!Steps, S!Steps[j] # "match", SettledBy(j, d)
    PROVE  /\ S!After(j, d) = d[S!FileOf(j)] => SettledBy(j + 1, d)
           /\ SettledBy(j + 1, Changed(d, S!FileOf(j), S!After(j, d)))
<1>1. StepSeesTo(j, d, S!After(j, d))
  BY StepMakes
<1>2. DOMAIN S!Steps = 1..(8 + Len(Hooks)) /\ Len(Hooks) \in Nat
  BY StepsAre
<1>3. \A i \in DOMAIN S!Steps : i < j + 1 => i < j \/ i = j
  BY <1>2
<1>4. S!After(j, d) = d[S!FileOf(j)] => StepDone(j, d)
  <2>1. S!Steps[j] = "project" => StepDone(j, d)
    BY DEF StepDone
  <2> QED
    BY <1>1, <2>1 DEF StepSeesTo
<1>5. S!After(j, d) = d[S!FileOf(j)] => SettledBy(j + 1, d)
  BY <1>3, <1>4 DEF SettledBy
<1>6. SettledBy(j + 1, Changed(d, S!FileOf(j), S!After(j, d)))
  BY <1>1, <1>3 DEF SettledBy, StepSeesTo
<1> QED
  BY <1>5, <1>6

\* A run that is past its step.
LEMMA InitPast ==
    ASSUME ScaffoldBounds, NEW c \in ScaffoldRun, c.at # "idle", c.kind = "init", NEW by \in {1, 2}, NEW d,
           c.step \in DOMAIN S!Steps, c.clean => SettledBy(c.step + by, d), NEW k,
           k = IF c.step + by > Len(S!Steps) THEN S!Idle
               ELSE [c EXCEPT !.at = "look", !.step = @ + by, !.read = <<>>]
    PROVE  k \in ScaffoldRun /\ RunFits(k, d)
<1>1. /\ Len(S!Steps) \in Nat /\ DOMAIN S!Steps = 1..Len(S!Steps) /\ c.step \in 1..Len(S!Steps)
  BY StepsAre
<1>2. CASE c.step + by > Len(S!Steps)
  BY <1>2, ScaffoldIdle
<1>3. CASE ~(c.step + by > Len(S!Steps))
  <2>1. PICK n \in 1..Len(S!Steps) : n = c.step + by
    BY <1>1, <1>3
  <2>2. k = [c EXCEPT !.at = "look", !.step = n, !.read = <<>>]
    BY <1>3, <2>1
  <2>3. n \in 0..Len(S!Steps) /\ <<>> \in Content \cup {<<>>}
    BY <1>1, <2>1
  <2>4. /\ k \in ScaffoldRun /\ k.at = "look" /\ k.step = n /\ k.kind = "init" /\ k.clean = c.clean
    BY <2>2, <2>3 DEF ScaffoldRun
  <2> QED
    BY <1>1, <2>1, <2>4 DEF RunFits
<1> QED
  BY <1>2, <1>3

\* A file is written over; the other runs are not alone.
ScaffoldPut(f, c, runs) ==
    /\ f \in S!Files /\ FileHolds(f, c) /\ runs \in [Requests -> ScaffoldRun]
    /\ \A q \in Requests :
          \/ runs[q] = [init[q] EXCEPT !.clean = FALSE]
          \/ RunFits(runs[q], Changed(disk, f, c))

LEMMA ScaffoldPuts ==
    ASSUME ScaffoldInv, NEW f, NEW c, NEW runs, ScaffoldPut(f, c, runs),
           disk' = Changed(disk, f, c), init' = runs, local' = local,
           settled' \in BOOLEAN, settled' => SettledBy(Len(S!Steps) + 1, Changed(disk, f, c)),
           mine' \subseteq mine \cup {f}, spoilt \subseteq spoilt', spoilt' \in SUBSET S!Files,
           f \in mine' \ spoilt' => c.own,
           inits' \in 0..Inits, edits' \in 0..RepositoryEdits, initCuts' \in 0..Cuts
    PROVE  ScaffoldInv'
<1>1. /\ f \in S!Files /\ FileHolds(f, c) /\ runs \in [Requests -> ScaffoldRun]
      /\ \A q \in Requests :
            \/ runs[q] = [init[q] EXCEPT !.clean = FALSE]
            \/ RunFits(runs[q], Changed(disk, f, c))
  BY DEF ScaffoldPut
<1>2. PICK d : d = Changed(disk, f, c)
  OBVIOUS
<1>3. DiskTyped(d) /\ d[f] = c /\ \A g \in S!Files \ {f} : d[g] = disk[g]
  <2>1. DiskPutIs(disk, f, c, d)
    BY <1>1, <1>2, DiskPut, ScaffoldIs
  <2> QED
    BY <2>1 DEF DiskPutIs
<1>4. ScaffoldTyped'
  <2>1. mine' \in SUBSET S!Files
    BY <1>1, ScaffoldIs
  <2>2. DiskTyped(disk')
    BY <1>2, <1>3
  <2>3. DiskTyped(disk)'
    BY <2>2 DEF DiskTyped
  <2> QED
    BY <1>1, <2>1, <2>3 DEF ScaffoldTyped
<1>5. S!UserKept'
  <2> SUFFICES ASSUME NEW g \in mine' \ spoilt' PROVE d[g].own
    BY <1>2 DEF S!UserKept
  <2>1. CASE g = f
    BY <1>3, <2>1
  <2>2. CASE g # f
    <3>1. g \in mine \ spoilt /\ g \in S!Files
      BY <2>2, ScaffoldIs
    <3> QED
      BY <1>3, <2>2, <3>1 DEF ScaffoldInv, S!UserKept
  <2> QED
    BY <2>1, <2>2
<1>6. ASSUME NEW q \in Requests PROVE RunFits(init[q], disk)'
  <2>1. PICK k : k = runs[q]
    OBVIOUS
  <2>2. RunFits(k, d)
    <3>1. CASE RunFits(runs[q], Changed(disk, f, c))
      BY <1>2, <2>1, <3>1
    <3>2. CASE runs[q] = [init[q] EXCEPT !.clean = FALSE]
      <4>1. PICK b \in ScaffoldRun : b = init[q] /\ RunFits(b, disk)
        BY ScaffoldIs
      <4>2. k = [b EXCEPT !.clean = FALSE]
        BY <2>1, <3>2, <4>1
      <4>3. /\ k.at = b.at /\ k.step = b.step /\ k.held = b.held /\ k.read = b.read /\ k.kind = b.kind
            /\ k.clean = FALSE
        BY <4>2 DEF ScaffoldRun
      <4>4. k.at = "write" => InHandOf(k) = InHandOf(b)
        BY <4>3 DEF InHandOf
      <4> QED
        BY <4>1, <4>3, <4>4 DEF RunFits
    <3> QED
      BY <1>1, <3>1, <3>2
  <2>3. RunFits(k, d)'
    BY <2>2, Steady
  <2> QED
    BY <1>2, <2>1, <2>3
<1>7. settled' => SettledBy(Len(S!Steps) + 1, disk)'
  <2>1. SettledBy(Len(S!Steps) + 1, d)' <=> SettledBy(Len(S!Steps) + 1, d)
    BY Steady
  <2> QED
    BY <1>2, <2>1
<1> QED
  BY <1>4, <1>5, <1>6, <1>7 DEF ScaffoldInv

-----------------------------------------------------------------------------
\* A bounded counter.
LEMMA ScaffoldCount ==
    ASSUME NEW n, NEW x \in 0..n, x < n, n \in Nat
    PROVE  x + 1 \in 0..n
  OBVIOUS

LEMMA ScaffoldStart ==
    ASSUME ScaffoldBounds, ScaffoldInv, NEW r \in Requests, S!Start(r)
    PROVE  ScaffoldInv'
<1>1. PICK k : k = [S!Idle EXCEPT !.at = "look", !.step = 1, !.kind = "init",
                                   !.clean = \A q \in Requests : init[q].at = "idle"]
  OBVIOUS
<1>2. /\ inits < Inits /\ inits' = inits + 1 /\ init' = [init EXCEPT ![r] = k]
      /\ UNCHANGED <<disk, local, mine, spoilt, settled, edits, initCuts>>
  BY <1>1 DEF S!Start, S!Set
<1>3. 1 \in DOMAIN S!Steps /\ 1 \in 0..Len(S!Steps) /\ DOMAIN S!Steps \subseteq Nat /\ \A j \in DOMAIN S!Steps : ~(j < 1)
  BY StepsAre
<1>4. k \in ScaffoldRun /\ k.at = "look" /\ k.step = 1 /\ k.kind = "init"
  <2>1. PICK undisturbed \in BOOLEAN : undisturbed = \A q \in Requests : init[q].at = "idle"
    OBVIOUS
  <2>2. k = [S!Idle EXCEPT !.at = "look", !.step = 1, !.kind = "init", !.clean = undisturbed]
    BY <1>1, <2>1
  <2>3. S!Idle \in ScaffoldRun
    BY ScaffoldIdle
  <2> QED
    BY <1>3, <2>2, <2>3 DEF ScaffoldRun
<1>5. RunFits(k, disk)
  <2>1. SettledBy(1, disk)
    BY <1>3 DEF SettledBy
  <2> QED
    BY <1>3, <1>4, <2>1 DEF RunFits
<1>6. inits' \in 0..Inits /\ edits' \in 0..RepositoryEdits /\ initCuts' \in 0..Cuts
  BY <1>2, ScaffoldIs, ScaffoldCount DEF ScaffoldBounds
<1>7. settled' \in BOOLEAN /\ (settled' => settled)
  BY <1>2, ScaffoldIs
<1> QED
  BY <1>2, <1>4, <1>5, <1>6, <1>7, ScaffoldTurns

\* Where an init is, what it has read and what it is to write.
LEMMA InitAt ==
    ASSUME ScaffoldBounds, ScaffoldInv, NEW r \in Requests, NEW c, c = init[r], c.at # "idle"
    PROVE  /\ c \in ScaffoldRun /\ InHandOf(c) \in S!Files
           /\ c.kind \in {"init", "auth"} /\ (c.at = "look" => c.kind = "init")
           /\ c.kind = "init" => c.step \in DOMAIN S!Steps /\ InHandOf(c) = S!FileOf(c.step)
           /\ c.kind = "auth" => InHandOf(c) = "toml"
           /\ c.at = "write" =>
                 /\ FileHolds(InHandOf(c), c.held) /\ FileHolds(InHandOf(c), c.read) /\ c.held.own = c.read.own
                 /\ c.kind = "init" => S!Steps[c.step] # "match"
           /\ c.clean =>
                 /\ SettledBy(c.step, disk) /\ c.kind = "init"
                 /\ c.at = "write" => c.read = disk[InHandOf(c)] /\ c.held = S!After(c.step, disk)
<1>1. c \in ScaffoldRun /\ RunFits(c, disk)
  BY ScaffoldIs
<1>2. /\ c.kind \in {"init", "auth"} /\ (c.at = "look" => c.kind = "init")
      /\ c.kind = "init" => c.step \in DOMAIN S!Steps
      /\ c.kind = "auth" => ~c.clean
  BY <1>1 DEF RunFits
<1>3. /\ c.kind = "init" => InHandOf(c) = S!FileOf(c.step)
      /\ c.kind = "auth" => InHandOf(c) = "toml"
  BY DEF InHandOf
<1>4. InHandOf(c) \in S!Files
  <2>1. CASE c.kind = "init"
    BY <1>2, <1>3, <2>1, KindIs
  <2>2. CASE c.kind = "auth"
    BY <1>3, <2>2 DEF S!Files
  <2> QED
    BY <1>2, <2>1, <2>2
<1>5. c.at = "write" =>
         /\ FileHolds(InHandOf(c), c.held) /\ FileHolds(InHandOf(c), c.read) /\ c.held.own = c.read.own
         /\ c.kind = "init" => S!Steps[c.step] # "match"
  BY <1>1 DEF RunFits
<1>6. c.clean =>
         /\ SettledBy(c.step, disk)
         /\ c.at = "write" => c.read = disk[InHandOf(c)] /\ c.held = S!After(c.step, disk)
  BY <1>1 DEF RunFits
<1> QED
  BY <1>1, <1>2, <1>3, <1>4, <1>5, <1>6

\* An init is past its step.
GoesOn(c, by) ==
    IF c.step + by > Len(S!Steps) THEN S!Idle
    ELSE [c EXCEPT !.at = "look", !.step = @ + by, !.read = <<>>]

LEMMA ScaffoldLook ==
    ASSUME ScaffoldBounds, ScaffoldInv, NEW r \in Requests, S!Look(r)
    PROVE  ScaffoldInv'
<1>1. PICK c : c = init[r]
  OBVIOUS
<1>2. PICK j : j = c.step
  OBVIOUS
<1>3. /\ c.at = "look" /\ S!Steps[j] # "match"
      /\ UNCHANGED <<disk, local, mine, spoilt, inits, edits, initCuts>>
      /\ \/ init' = [init EXCEPT ![r] = S!Idle] /\ settled' = settled
         \/ /\ S!After(j, disk) # disk[S!FileOf(j)]
            /\ init' = [init EXCEPT ![r] = [c EXCEPT !.at = "write", !.held = S!After(j, disk),
                                                     !.read = disk[S!FileOf(j)]]]
            /\ settled' = settled
         \/ /\ S!After(j, disk) = disk[S!FileOf(j)]
            /\ init' = [init EXCEPT ![r] = GoesOn(c, 1)]
            /\ settled' = (settled \/ (j + 1 > Len(S!Steps) /\ c.clean))
  BY <1>1, <1>2 DEF S!Look, S!Set, S!Past, S!Finishes, GoesOn
<1>4. /\ c \in ScaffoldRun /\ c.kind = "init" /\ j \in DOMAIN S!Steps
      /\ c.clean => SettledBy(j, disk)
  BY <1>1, <1>2, <1>3, InitAt
<1>5. /\ inits' \in 0..Inits /\ edits' \in 0..RepositoryEdits /\ initCuts' \in 0..Cuts
      /\ DiskTyped(disk) /\ settled \in BOOLEAN
  BY <1>3, ScaffoldIs
<1>6. CASE init' = [init EXCEPT ![r] = S!Idle] /\ settled' = settled
  BY <1>3, <1>5, <1>6, ScaffoldIdle, ScaffoldTurns
<1>7. CASE /\ init' = [init EXCEPT ![r] = [c EXCEPT !.at = "write", !.held = S!After(j, disk),
                                                    !.read = disk[S!FileOf(j)]]]
           /\ settled' = settled
  <2>1. PICK held : held = S!After(j, disk)
    OBVIOUS
  <2>2. PICK f \in S!Files : f = S!FileOf(j)
    BY <1>4, KindIs
  <2>3. PICK read : read = disk[f]
    OBVIOUS
  <2>4. PICK k : k = [c EXCEPT !.at = "write", !.held = held, !.read = read]
    OBVIOUS
  <2>5. FileHolds(f, held) /\ held.own = read.own /\ FileHolds(f, read)
    <3>1. StepSeesTo(j, disk, held)
      BY <1>3, <1>4, <1>5, <2>1, StepMakes
    <3> QED
      BY <1>5, <2>2, <2>3, <3>1 DEF StepSeesTo, DiskTyped
  <2>6. held \in Content /\ read \in Content
    BY <2>5 DEF S!Files, FileHolds, Content
  <2>7. k \in ScaffoldRun /\ k.at = "write" /\ k.step = j /\ k.kind = "init" /\ k.clean = c.clean /\ k.held = held /\ k.read = read
    BY <1>2, <1>4, <2>4, <2>6 DEF ScaffoldRun
  <2>8. InHandOf(k) = f
    BY <2>2, <2>7 DEF InHandOf
  <2>9. RunFits(k, disk)
    BY <1>3, <1>4, <2>1, <2>3, <2>5, <2>7, <2>8 DEF RunFits
  <2>10. init' = [init EXCEPT ![r] = k]
    BY <1>7, <2>1, <2>2, <2>3, <2>4
  <2> QED
    BY <1>3, <1>5, <1>7, <2>7, <2>9, <2>10, ScaffoldTurns
<1>8. CASE /\ S!After(j, disk) = disk[S!FileOf(j)]
           /\ init' = [init EXCEPT ![r] = GoesOn(c, 1)]
           /\ settled' = (settled \/ (j + 1 > Len(S!Steps) /\ c.clean))
  <2>1. c.clean => SettledBy(j + 1, disk)
    BY <1>3, <1>4, <1>5, <1>8, SettledOn
  <2>2. PICK k : k = GoesOn(c, 1)
    OBVIOUS
  <2>3. k \in ScaffoldRun /\ RunFits(k, disk)
    BY <1>2, <1>3, <1>4, <2>1, <2>2, InitPast, Zenon DEF GoesOn
  <2>4. settled' \in BOOLEAN
    BY <1>4, <1>5, <1>8 DEF ScaffoldRun
  <2>5. settled' => settled \/ SettledBy(Len(S!Steps) + 1, disk)
    <3>1. DOMAIN S!Steps = 1..Len(S!Steps) /\ Len(S!Steps) \in Nat
      BY StepsAre
    <3>2. j + 1 > Len(S!Steps) => j = Len(S!Steps)
      BY <1>4, <3>1
    <3> QED
      BY <1>8, <2>1, <3>2
  <2> QED
    BY <1>3, <1>5, <1>8, <2>2, <2>3, <2>4, <2>5, ScaffoldTurns
<1> QED
  BY <1>3, <1>6, <1>7, <1>8

LEMMA ScaffoldMatch ==
    ASSUME ScaffoldBounds, ScaffoldInv, NEW r \in Requests, S!Match(r)
    PROVE  ScaffoldInv'
<1>1. PICK c : c = init[r]
  OBVIOUS
<1>2. PICK by \in {1, 2} :
      /\ c.at = "look" /\ S!Steps[c.step] = "match"
      /\ UNCHANGED <<disk, local, mine, spoilt, settled, inits, edits, initCuts>>
      /\ init' = [init EXCEPT ![r] = GoesOn(c, by)]
  BY <1>1 DEF S!Match, S!Set, S!Past, GoesOn
<1>3. /\ c \in ScaffoldRun /\ c.kind = "init" /\ c.step \in DOMAIN S!Steps
      /\ c.clean => SettledBy(c.step, disk)
  BY <1>1, <1>2, InitAt
<1>4. c.step = 4
  BY <1>2, <1>3, KindIs
<1>5. /\ inits' \in 0..Inits /\ edits' \in 0..RepositoryEdits /\ initCuts' \in 0..Cuts
      /\ settled' \in BOOLEAN /\ (settled' => settled)
  BY <1>2, ScaffoldIs
<1>6. c.clean => SettledBy(c.step + by, disk)
  <2>1. SettledBy(4, disk) => SettledBy(4 + by, disk)
    <3>1. S!Steps[4] = "match" /\ S!Steps[5] = "project" /\ DOMAIN S!Steps \subseteq Nat
      BY StepsAre
    <3>2. StepDone(4, disk) /\ StepDone(5, disk)
      BY <3>1 DEF StepDone
    <3>3. \A i \in DOMAIN S!Steps : i < 4 + by => i < 4 \/ i = 4 \/ i = 5
      BY <3>1
    <3> QED
      BY <3>2, <3>3 DEF SettledBy
  <2> QED
    BY <1>3, <1>4, <2>1
<1>7. PICK k : k = GoesOn(c, by)
  OBVIOUS
<1>8. k \in ScaffoldRun /\ RunFits(k, disk)
  BY <1>2, <1>3, <1>6, <1>7, InitPast, Zenon DEF GoesOn
<1> QED
  BY <1>2, <1>5, <1>7, <1>8, ScaffoldTurns

\* The runs after one has written.
LEMMA RunsDisturbed ==
    ASSUME ScaffoldInv, NEW r \in Requests, NEW k \in ScaffoldRun, NEW runs,
           runs = [q \in Requests |-> IF q = r THEN k ELSE [init[q] EXCEPT !.clean = FALSE]]
    PROVE  /\ runs \in [Requests -> ScaffoldRun] /\ runs[r] = k
           /\ \A q \in Requests \ {r} : runs[q] = [init[q] EXCEPT !.clean = FALSE]
<1>1. ASSUME NEW q \in Requests PROVE [init[q] EXCEPT !.clean = FALSE] \in ScaffoldRun
  <2>1. PICK b \in ScaffoldRun : b = init[q]
    BY ScaffoldIs
  <2>2. [b EXCEPT !.clean = FALSE] \in ScaffoldRun
    BY DEF ScaffoldRun
  <2> QED
    BY <2>1, <2>2
<1> QED
  BY <1>1

LEMMA ScaffoldWrite ==
    ASSUME ScaffoldBounds, ScaffoldInv, NEW r \in Requests, S!Write(r)
    PROVE  ScaffoldInv'
<1>1. PICK c : c = init[r]
  OBVIOUS
<1>2. PICK j : j = c.step
  OBVIOUS
<1>3. PICK f : f = S!FileOf(j)
  OBVIOUS
<1>4. PICK d : d = Changed(disk, f, c.held)
  OBVIOUS
<1>5. /\ c.at = "write" /\ c.kind = "init" /\ disk' = d
      /\ spoilt' = IF disk[f] # c.read THEN spoilt \cup {f} ELSE spoilt
      /\ init' = [q \in Requests |-> IF q = r THEN GoesOn(c, 1) ELSE [init[q] EXCEPT !.clean = FALSE]]
      /\ settled' = (j + 1 > Len(S!Steps) /\ c.clean)
      /\ UNCHANGED <<local, mine, inits, edits, initCuts>>
  BY <1>1, <1>2, <1>3, <1>4 DEF S!Write, S!Puts, S!DisturbedBy, S!Past, S!Finishes, GoesOn, Changed
<1>6. /\ c \in ScaffoldRun /\ j \in DOMAIN S!Steps /\ f \in S!Files /\ InHandOf(c) = f
      /\ FileHolds(f, c.held) /\ c.held.own = c.read.own /\ S!Steps[j] # "match"
      /\ c.clean => SettledBy(j, disk) /\ c.held = S!After(j, disk)
  BY <1>1, <1>2, <1>3, <1>5, InitAt
<1>7. /\ inits' \in 0..Inits /\ edits' \in 0..RepositoryEdits /\ initCuts' \in 0..Cuts
      /\ DiskTyped(disk) /\ spoilt \in SUBSET S!Files
  BY <1>5, ScaffoldIs
<1>8. c.clean => SettledBy(j + 1, d)
  BY <1>3, <1>4, <1>6, <1>7, SettledOn
<1>9. PICK k : k = GoesOn(c, 1)
  OBVIOUS
<1>10. k \in ScaffoldRun /\ RunFits(k, d)
  BY <1>2, <1>5, <1>6, <1>8, <1>9, InitPast, Zenon DEF GoesOn
<1>11. PICK runs : runs = [q \in Requests |-> IF q = r THEN k ELSE [init[q] EXCEPT !.clean = FALSE]]
  OBVIOUS
<1>12. ScaffoldPut(f, c.held, runs)
  BY <1>4, <1>6, <1>10, <1>11, RunsDisturbed DEF ScaffoldPut
<1>13. settled' \in BOOLEAN /\ (settled' => SettledBy(Len(S!Steps) + 1, d))
  <2>1. DOMAIN S!Steps = 1..Len(S!Steps) /\ Len(S!Steps) \in Nat
    BY StepsAre
  <2>2. j + 1 > Len(S!Steps) => j = Len(S!Steps)
    BY <1>6, <2>1
  <2> QED
    BY <1>5, <1>6, <1>8, <2>2 DEF ScaffoldRun
<1>14. f \in mine' \ spoilt' => c.held.own
  <2> SUFFICES ASSUME f \in mine, f \notin spoilt' PROVE c.held.own
    BY <1>5
  <2>1. disk[f] = c.read /\ f \notin spoilt
    BY <1>5
  <2>2. disk[f].own
    BY <2>1 DEF ScaffoldInv, S!UserKept
  <2> QED
    BY <1>6, <2>1, <2>2
<1>15. spoilt \subseteq spoilt' /\ spoilt' \in SUBSET S!Files /\ mine' \subseteq mine \cup {f}
  BY <1>5, <1>6, <1>7
<1> QED
  BY <1>4, <1>5, <1>7, <1>9, <1>11, <1>12, <1>13, <1>14, <1>15, ScaffoldPuts

\* What is appended to the table of a credential goes with it, and what is the user's stays.
LEMMA StrippedIs ==
    ASSUME NEW a \in TomlFile
    PROVE  /\ S!Stripped(a) \in TomlFile /\ S!Stripped(a).own = a.own /\ S!Stripped(a).is = a.is
<1>1. PICK keys \in [S!Keys -> TomlKey] : keys = [k \in S!Keys |-> IF a.key[k].within THEN S!Not ELSE a.key[k]]
  <2>1. S!Not \in TomlKey
    BY DEF S!Not, TomlKey
  <2>2. \A k \in S!Keys : a.key[k] \in TomlKey
    BY DEF TomlFile
  <2> QED
    BY <2>1, <2>2
<1>2. S!Stripped(a) = [a EXCEPT !.table = "", !.key = keys]
  BY <1>1 DEF S!Stripped, TomlFile
<1>3. "" \in STRING \cup {"", "auth", "other"}
  OBVIOUS
<1> QED
  BY <1>2, <1>3 DEF TomlFile

LEMMA ScaffoldReadToml ==
    ASSUME ScaffoldBounds, ScaffoldInv, NEW r \in Requests, S!ReadToml(r)
    PROVE  ScaffoldInv'
<1>1. DiskTyped(disk)
  BY ScaffoldIs
<1>2. PICK a \in TomlFile : a = disk["toml"] /\ a = disk.toml /\ (a.is = "none" => ~a.own)
  BY <1>1, FilesAre
<1>3. PICK held : held = S!Stripped(a)
  OBVIOUS
<1>4. PICK k : k = [S!Idle EXCEPT !.at = "write", !.held = held, !.read = a, !.kind = "auth"]
  OBVIOUS
<1>5. /\ inits < Inits /\ inits' = inits + 1 /\ init' = [init EXCEPT ![r] = k]
      /\ UNCHANGED <<disk, local, mine, spoilt, settled, edits, initCuts>>
  BY <1>2, <1>3, <1>4 DEF S!ReadToml, S!Set
<1>6. held \in TomlFile /\ held.own = a.own /\ held.is = a.is
  BY <1>3, StrippedIs
<1>7. held \in Content /\ a \in Content
  BY <1>6 DEF Content
<1>8. k \in ScaffoldRun /\ k.at = "write" /\ k.kind = "auth" /\ k.clean = FALSE /\ k.held = held /\ k.read = a
  <2>1. S!Idle \in ScaffoldRun /\ S!Idle.clean = FALSE
    BY ScaffoldIdle DEF S!Idle
  <2> QED
    BY <1>4, <1>7, <2>1 DEF ScaffoldRun
<1>9. RunFits(k, disk)
  <2>1. FileHolds("toml", held) /\ FileHolds("toml", a)
    BY <1>2, <1>6 DEF FileHolds
  <2>2. InHandOf(k) = "toml"
    BY <1>8 DEF InHandOf
  <2> QED
    BY <1>6, <1>8, <2>1, <2>2 DEF RunFits
<1>10. inits' \in 0..Inits /\ edits' \in 0..RepositoryEdits /\ initCuts' \in 0..Cuts
  BY <1>5, ScaffoldIs, ScaffoldCount DEF ScaffoldBounds
<1>11. settled' \in BOOLEAN /\ (settled' => settled)
  BY <1>5, ScaffoldIs
<1> QED
  BY <1>5, <1>8, <1>9, <1>10, <1>11, ScaffoldTurns

LEMMA ScaffoldStrip ==
    ASSUME ScaffoldBounds, ScaffoldInv, NEW r \in Requests, S!Strip(r)
    PROVE  ScaffoldInv'
<1>1. PICK c : c = init[r]
  OBVIOUS
<1>2. PICK runs : runs = [q \in Requests |-> IF q = r THEN S!Idle ELSE [init[q] EXCEPT !.clean = FALSE]]
  OBVIOUS
<1>3. DiskTyped(disk) /\ spoilt \in SUBSET S!Files
  BY ScaffoldIs
<1>4. disk.toml = disk["toml"]
  BY <1>3, FilesAre
<1>5. /\ c.at = "write" /\ c.kind = "auth" /\ disk' = Changed(disk, "toml", c.held)
      /\ spoilt' = IF disk["toml"] # c.read THEN spoilt \cup {"toml"} ELSE spoilt
      /\ init' = runs /\ settled' = FALSE
      /\ UNCHANGED <<local, mine, inits, edits, initCuts>>
  BY <1>1, <1>2, <1>4 DEF S!Strip, S!Puts, S!DisturbedBy, Changed
<1>6. FileHolds("toml", c.held) /\ c.held.own = c.read.own /\ "toml" \in S!Files
  BY <1>1, <1>5, InitAt
<1>7. ScaffoldPut("toml", c.held, runs)
  BY <1>2, <1>6, ScaffoldIdle, RunsDisturbed DEF ScaffoldPut
<1>8. inits' \in 0..Inits /\ edits' \in 0..RepositoryEdits /\ initCuts' \in 0..Cuts
  BY <1>5, ScaffoldIs
<1>9. "toml" \in mine' \ spoilt' => c.held.own
  <2> SUFFICES ASSUME "toml" \in mine, "toml" \notin spoilt' PROVE c.held.own
    BY <1>5
  <2>1. disk["toml"] = c.read /\ "toml" \notin spoilt
    BY <1>5
  <2>2. disk["toml"].own
    BY <2>1 DEF ScaffoldInv, S!UserKept
  <2> QED
    BY <1>6, <2>1, <2>2
<1>10. /\ spoilt \subseteq spoilt' /\ spoilt' \in SUBSET S!Files /\ mine' \subseteq mine \cup {"toml"}
       /\ settled' = FALSE
  BY <1>3, <1>5, <1>6
<1> QED
  BY <1>5, <1>7, <1>8, <1>9, <1>10, ScaffoldPuts

\* What is left of a file by a write that is cut off.
LEMMA LeftIs ==
    ASSUME NEW f \in S!Files, NEW c,
           c \in CASE f = "toml" -> {S!EmptyToml}
                   [] f = "mcp" -> {S!Mcp(is, FALSE, "") : is \in {"file", "torn"}}
                   [] f = "settings" -> {S!Settings(is, FALSE, {}) : is \in {"file", "torn"}}
                   [] f = "ignore" -> {S!Ignore(FALSE, FALSE)}
                   [] f = "principles" -> {S!Principles(FALSE, TRUE)}
    PROVE  FileHolds(f, c)
<1>0. "" \in STRING \cup {"", "auth", "other"} /\ "" \in STRING \cup {"", "local", "set", "own"}
  OBVIOUS
<1>1. CASE f = "toml"
  <2>1. c = S!EmptyToml
    BY <1>1
  <2>2. PICK keys \in [S!Keys -> TomlKey] : keys = [k \in S!Keys |-> S!Not]
    <3>1. S!Not \in TomlKey
      BY DEF S!Not, TomlKey
    <3> QED
      BY <3>1
  <2>3. c = [is |-> "file", key |-> keys, table |-> "", own |-> FALSE]
    BY <2>1, <2>2 DEF S!EmptyToml, S!Toml
  <2>4. c \in TomlFile /\ c.is = "file"
    BY <1>0, <2>3 DEF TomlFile
  <2> QED
    BY <1>1, <2>4 DEF FileHolds
<1>2. CASE f = "mcp"
  <2>1. PICK is \in {"file", "torn"} : c = [is |-> is, own |-> FALSE, url |-> ""]
    BY <1>2 DEF S!Mcp
  <2>2. c \in McpFile
    BY <1>0, <2>1 DEF McpFile
  <2> QED
    BY <1>2, <2>2 DEF FileHolds
<1>3. CASE f = "settings"
  <2>1. PICK is \in {"file", "torn"} : c = [is |-> is, own |-> FALSE, hooks |-> {}]
    BY <1>3 DEF S!Settings
  <2>2. c \in SettingsFile
    BY <2>1 DEF SettingsFile
  <2> QED
    BY <1>3, <2>2 DEF FileHolds
<1>4. CASE f = "ignore"
  <2>1. c = [own |-> FALSE, block |-> FALSE]
    BY <1>4 DEF S!Ignore
  <2>2. c \in IgnoreFile
    BY <2>1 DEF IgnoreFile
  <2> QED
    BY <1>4, <2>2 DEF FileHolds
<1>5. CASE f = "principles"
  <2>1. c = [own |-> FALSE, starter |-> TRUE]
    BY <1>5 DEF S!Principles
  <2>2. c \in PrinciplesFile
    BY <2>1 DEF PrinciplesFile
  <2> QED
    BY <1>5, <2>2 DEF FileHolds
<1> QED
  BY <1>1, <1>2, <1>3, <1>4, <1>5 DEF S!Files

LEMMA ScaffoldCutOff ==
    ASSUME ScaffoldBounds, ScaffoldInv, NEW r \in Requests, S!CutOff(r)
    PROVE  ScaffoldInv'
<1>1. PICK c : c = init[r]
  OBVIOUS
<1>2. PICK f : f = InHandOf(c)
  OBVIOUS
<1>3. c.at # "idle" /\ initCuts < Cuts /\ initCuts' = initCuts + 1 /\ UNCHANGED <<local, mine, inits, edits>>
  BY <1>1 DEF S!CutOff
<1>4. f \in S!Files
  BY <1>1, <1>2, <1>3, InitAt
<1>5. PICK runs : runs = [q \in Requests |-> IF q = r THEN S!Idle ELSE [init[q] EXCEPT !.clean = FALSE]]
  OBVIOUS
<1>6. \/ UNCHANGED <<disk, spoilt, settled>> /\ init' = [init EXCEPT ![r] = S!Idle]
      \/ \E left : /\ FileHolds(f, left) /\ disk' = Changed(disk, f, left)
                   /\ spoilt' = spoilt \cup {f} /\ init' = runs /\ settled' = FALSE
  <2>1. f = IF init[r].kind = "auth" THEN "toml" ELSE S!FileOf(init[r].step)
    BY <1>1, <1>2 DEF InHandOf
  <2>2. CASE UNCHANGED <<disk, spoilt, settled>> /\ init' = [init EXCEPT ![r] = S!Idle]
    BY <2>2
  <2>3. CASE ~(UNCHANGED <<disk, spoilt, settled>> /\ init' = [init EXCEPT ![r] = S!Idle])
    <3>1. /\ \E left \in CASE f = "toml" -> {S!EmptyToml}
                          [] f = "mcp" -> {S!Mcp(is, FALSE, "") : is \in {"file", "torn"}}
                          [] f = "settings" -> {S!Settings(is, FALSE, {}) : is \in {"file", "torn"}}
                          [] f = "ignore" -> {S!Ignore(FALSE, FALSE)}
                          [] f = "principles" -> {S!Principles(FALSE, TRUE)} :
                disk' = Changed(disk, f, left)
          /\ spoilt' = spoilt \cup {f} /\ init' = runs /\ settled' = FALSE
      BY <1>5, <2>1, <2>3 DEF S!CutOff, S!Set, S!Puts, S!DisturbedBy, Changed
    <3> QED
      BY <1>4, <3>1, LeftIs
  <2> QED
    BY <2>2, <2>3
<1>7. inits' \in 0..Inits /\ edits' \in 0..RepositoryEdits /\ initCuts' \in 0..Cuts
  BY <1>3, ScaffoldIs, ScaffoldCount DEF ScaffoldBounds
<1>8. CASE UNCHANGED <<disk, spoilt, settled>> /\ init' = [init EXCEPT ![r] = S!Idle]
  <2>1. settled' \in BOOLEAN /\ (settled' => settled)
    BY <1>8, ScaffoldIs
  <2> QED
    BY <1>3, <1>7, <1>8, <2>1, ScaffoldIdle, ScaffoldTurns
<1>9. CASE \E left : /\ FileHolds(f, left) /\ disk' = Changed(disk, f, left)
                     /\ spoilt' = spoilt \cup {f} /\ init' = runs /\ settled' = FALSE
  <2>1. PICK left : /\ FileHolds(f, left) /\ disk' = Changed(disk, f, left)
                    /\ spoilt' = spoilt \cup {f} /\ init' = runs /\ settled' = FALSE
    BY <1>9
  <2>2. ScaffoldPut(f, left, runs)
    BY <1>4, <1>5, <2>1, ScaffoldIdle, RunsDisturbed DEF ScaffoldPut
  <2>3. /\ spoilt \subseteq spoilt' /\ spoilt' \in SUBSET S!Files /\ mine' \subseteq mine \cup {f}
        /\ settled' = FALSE /\ (f \in mine' \ spoilt' => left.own)
    BY <1>3, <1>4, <2>1, ScaffoldIs
  <2> QED
    BY <1>3, <1>7, <2>1, <2>2, <2>3, ScaffoldPuts
<1> QED
  BY <1>6, <1>8, <1>9

\* What the user writes is of the kind of the file, and theirs.
LEMMA EditedIs ==
    ASSUME NEW d, DiskTyped(d), NEW f \in S!Files, f = "toml" => d.toml.is = "file", NEW c,
           c \in IF f = "toml"
                 THEN {[d.toml EXCEPT !.own = TRUE], [d.toml EXCEPT !.own = TRUE, !.table = "other"],
                       [d.toml EXCEPT !.own = TRUE, !.key["server_url"] = S!Own]}
                 ELSE IF f \in {"mcp", "settings"} THEN {[d[f] EXCEPT !.is = "file", !.own = TRUE]}
                 ELSE {[d[f] EXCEPT !.own = TRUE]}
    PROVE  FileHolds(f, c) /\ c.own = TRUE
<1>1. /\ d["toml"] \in TomlFile /\ d["mcp"] \in McpFile /\ d["settings"] \in SettingsFile
      /\ d["ignore"] \in IgnoreFile /\ d["principles"] \in PrinciplesFile /\ d.toml = d["toml"]
  BY FilesAre
<1>2. CASE f = "toml"
  <2>1. PICK a \in TomlFile : a = d.toml /\ a.is = "file"
    BY <1>1, <1>2
  <2>2. c \in {[a EXCEPT !.own = TRUE], [a EXCEPT !.own = TRUE, !.table = "other"],
               [a EXCEPT !.own = TRUE, !.key["server_url"] = S!Own]}
    BY <1>2, <2>1
  <2>3. CASE c = [a EXCEPT !.own = TRUE]
    <3>1. c \in TomlFile /\ c.own = TRUE /\ c.is = "file"
      BY <2>1, <2>3 DEF TomlFile
    <3> QED
      BY <1>2, <3>1 DEF FileHolds
  <2>4. CASE c = [a EXCEPT !.own = TRUE, !.table = "other"]
    <3>1. "other" \in STRING \cup {"", "auth", "other"}
      OBVIOUS
    <3>2. c \in TomlFile /\ c.own = TRUE /\ c.is = "file"
      BY <2>1, <2>4, <3>1 DEF TomlFile
    <3> QED
      BY <1>2, <3>2 DEF FileHolds
  <2>5. CASE c = [a EXCEPT !.own = TRUE, !.key["server_url"] = S!Own]
    <3>1. PICK keys \in [S!Keys -> TomlKey] : keys = a.key
      BY DEF TomlFile
    <3>2. "server_url" \in S!Keys /\ S!Own \in TomlKey
      BY DEF S!Keys, S!Own, TomlKey
    <3>3. PICK now \in [S!Keys -> TomlKey] : now = [keys EXCEPT !["server_url"] = S!Own]
      BY <3>2, KeyPut
    <3>4. c = [a EXCEPT !.own = TRUE, !.key = now]
      BY <2>5, <3>1, <3>3 DEF TomlFile
    <3>5. c \in TomlFile /\ c.own = TRUE /\ c.is = "file"
      BY <2>1, <3>4 DEF TomlFile
    <3> QED
      BY <1>2, <3>5 DEF FileHolds
  <2> QED
    BY <2>2, <2>3, <2>4, <2>5
<1>3. CASE f = "mcp"
  <2>1. PICK b \in McpFile : b = d[f]
    BY <1>1, <1>3
  <2>2. c = [b EXCEPT !.is = "file", !.own = TRUE]
    BY <1>3, <2>1
  <2>3. c \in McpFile /\ c.own = TRUE
    BY <2>2 DEF McpFile
  <2> QED
    BY <1>3, <2>3 DEF FileHolds
<1>4. CASE f = "settings"
  <2>1. PICK b \in SettingsFile : b = d[f]
    BY <1>1, <1>4
  <2>2. c = [b EXCEPT !.is = "file", !.own = TRUE]
    BY <1>4, <2>1
  <2>3. c \in SettingsFile /\ c.own = TRUE
    BY <2>2 DEF SettingsFile
  <2> QED
    BY <1>4, <2>3 DEF FileHolds
<1>5. CASE f = "ignore"
  <2>1. PICK b \in IgnoreFile : b = d[f]
    BY <1>1, <1>5
  <2>2. c = [b EXCEPT !.own = TRUE]
    BY <1>5, <2>1
  <2>3. c \in IgnoreFile /\ c.own = TRUE
    BY <2>2 DEF IgnoreFile
  <2> QED
    BY <1>5, <2>3 DEF FileHolds
<1>6. CASE f = "principles"
  <2>1. PICK b \in PrinciplesFile : b = d[f]
    BY <1>1, <1>6
  <2>2. c = [b EXCEPT !.own = TRUE]
    BY <1>6, <2>1
  <2>3. c \in PrinciplesFile /\ c.own = TRUE
    BY <2>2 DEF PrinciplesFile
  <2> QED
    BY <1>6, <2>3 DEF FileHolds
<1> QED
  BY <1>2, <1>3, <1>4, <1>5, <1>6 DEF S!Files

LEMMA ScaffoldEdit ==
    ASSUME ScaffoldBounds, ScaffoldInv, S!Edit
    PROVE  ScaffoldInv'
<1>1. PICK runs : runs = [q \in Requests |-> [init[q] EXCEPT !.clean = FALSE]]
  OBVIOUS
<1>2. /\ edits < RepositoryEdits /\ edits' = edits + 1 /\ init' = runs /\ settled' = FALSE
      /\ UNCHANGED <<local, spoilt, inits, initCuts>>
  BY <1>1 DEF S!Edit, S!Disturbed
<1>3. PICK f, c :
         /\ f \in S!Files
         /\ f = "toml" => disk.toml.is = "file"
         /\ c \in IF f = "toml"
                  THEN {[disk.toml EXCEPT !.own = TRUE], [disk.toml EXCEPT !.own = TRUE, !.table = "other"],
                        [disk.toml EXCEPT !.own = TRUE, !.key["server_url"] = S!Own]}
                  ELSE IF f \in {"mcp", "settings"} THEN {[disk[f] EXCEPT !.is = "file", !.own = TRUE]}
                  ELSE {[disk[f] EXCEPT !.own = TRUE]}
         /\ disk' = Changed(disk, f, c) /\ mine' = mine \cup {f}
  BY DEF S!Edit, S!Puts, Changed
<1>4. DiskTyped(disk) /\ spoilt \in SUBSET S!Files
  BY ScaffoldIs
<1>5. FileHolds(f, c) /\ c.own = TRUE
  BY Zenon, <1>3, <1>4, EditedIs
<1>6. /\ runs \in [Requests -> ScaffoldRun]
      /\ \A q \in Requests : runs[q] = [init[q] EXCEPT !.clean = FALSE]
  <2>1. ASSUME NEW q \in Requests PROVE [init[q] EXCEPT !.clean = FALSE] \in ScaffoldRun
    <3>1. PICK b \in ScaffoldRun : b = init[q]
      BY ScaffoldIs
    <3>2. [b EXCEPT !.clean = FALSE] \in ScaffoldRun
      BY DEF ScaffoldRun
    <3> QED
      BY <3>1, <3>2
  <2> QED
    BY <1>1, <2>1
<1>7. ScaffoldPut(f, c, runs)
  BY <1>3, <1>5, <1>6 DEF ScaffoldPut
<1>8. inits' \in 0..Inits /\ edits' \in 0..RepositoryEdits /\ initCuts' \in 0..Cuts
  BY <1>2, ScaffoldIs, ScaffoldCount DEF ScaffoldBounds
<1> QED
  BY <1>2, <1>3, <1>4, <1>5, <1>7, <1>8, ScaffoldPuts

LEMMA ScaffoldStep ==
    ASSUME ScaffoldBounds, ScaffoldInv, S!Next
    PROVE  ScaffoldInv'
<1>1. CASE \E r \in Requests :
              \/ S!Start(r) \/ S!Look(r) \/ S!Match(r) \/ S!Write(r)
              \/ S!ReadToml(r) \/ S!Strip(r) \/ S!CutOff(r)
  BY <1>1, ScaffoldStart, ScaffoldLook, ScaffoldMatch, ScaffoldWrite, ScaffoldReadToml, ScaffoldStrip, ScaffoldCutOff
<1>2. CASE S!Edit
  BY <1>2, ScaffoldEdit
<1> QED
  BY <1>1, <1>2 DEF S!Next

LEMMA ScaffoldStutters ==
    ASSUME ScaffoldInv, UNCHANGED S!scaffoldVars
    PROVE  ScaffoldInv'
<1>1. UNCHANGED <<disk, local, init, mine, spoilt, settled, inits, edits, initCuts>>
  BY DEF S!scaffoldVars
<1>2. S!UserKept'
  BY <1>1 DEF ScaffoldInv, S!UserKept
<1>3. ScaffoldTyped'
  BY <1>1 DEF ScaffoldInv, ScaffoldTyped, DiskTyped
<1>4. ASSUME NEW r \in Requests PROVE RunFits(init[r], disk)'
  <2>1. PICK c : c = init[r] /\ RunFits(c, disk)
    BY ScaffoldIs
  <2>2. PICK d : d = disk
    OBVIOUS
  <2>3. RunFits(c, d)'
    BY <1>1, <2>1, <2>2, Steady
  <2> QED
    BY <1>1, <2>1, <2>2, <2>3
<1>5. settled' => SettledBy(Len(S!Steps) + 1, disk)'
  <2>1. PICK d : d = disk
    OBVIOUS
  <2>2. SettledBy(Len(S!Steps) + 1, d)' <=> SettledBy(Len(S!Steps) + 1, d)
    BY <1>1, Steady
  <2> QED
    BY <1>1, <2>1, <2>2 DEF ScaffoldInv
<1> QED
  BY <1>2, <1>3, <1>4, <1>5 DEF ScaffoldInv

LEMMA ScaffoldSound ==
    ASSUME ScaffoldBounds, ScaffoldInv
    PROVE  S!TypeOK /\ S!UserKept /\ S!Settled
<1>1. /\ DiskTyped(disk) /\ init \in [Requests -> ScaffoldRun]
      /\ mine \in SUBSET S!Files /\ spoilt \in SUBSET S!Files /\ settled \in BOOLEAN
      /\ inits \in 0..Inits /\ edits \in 0..RepositoryEdits /\ initCuts \in 0..Cuts
  BY ScaffoldIs
<1>2. /\ disk["toml"] \in TomlFile /\ disk["settings"] \in SettingsFile
      /\ disk.toml = disk["toml"] /\ disk.mcp = disk["mcp"] /\ disk.settings = disk["settings"]
      /\ disk.ignore = disk["ignore"] /\ disk.principles = disk["principles"]
  BY <1>1, FilesAre
<1>3. S!TypeOK
  <2>1. DOMAIN disk = S!Files
    BY <1>1 DEF DiskTyped
  <2>2. \A k \in S!Keys : disk.toml.key[k].how \in {"not", "note", "set", "own"}
    BY <1>2 DEF TomlFile, TomlKey
  <2>3. disk.settings.hooks \subseteq {Hooks[i] : i \in DOMAIN Hooks}
    BY <1>2 DEF SettingsFile, InstalledHooks
  <2>4. \A r \in Requests : init[r].at \in {"idle", "look", "write"} /\ init[r].step \in 0..Len(S!Steps)
    BY <1>1 DEF ScaffoldRun
  <2> QED
    BY <1>1, <2>1, <2>2, <2>3, <2>4 DEF S!TypeOK
<1>4. ASSUME settled
      PROVE  /\ S!ServerURL(disk) # "" => disk.mcp.url = S!ServerURL(disk)
             /\ S!ServerURL(disk) = "" => disk.toml.key["server_url"].within
             /\ disk.settings.hooks = {Hooks[i] : i \in DOMAIN Hooks}
             /\ disk.ignore.block /\ (disk.principles.own \/ disk.principles.starter)
             /\ \A step \in DOMAIN S!Steps :
                   S!Steps[step] # "project" => S!After(step, disk) = disk[S!FileOf(step)]
  <2>1. /\ Len(Hooks) \in Nat /\ DOMAIN Hooks = 1..Len(Hooks) /\ DOMAIN S!Steps = 1..(8 + Len(Hooks))
        /\ Len(S!Steps) = 8 + Len(Hooks)
        /\ S!Steps[3] = "server" /\ S!Steps[6] = "mcp"
        /\ \A i \in DOMAIN Hooks : S!Steps[6 + i] = "hook"
        /\ S!Steps[7 + Len(Hooks)] = "ignore" /\ S!Steps[8 + Len(Hooks)] = "constitution"
    BY StepsAre
  <2>2. \A j \in DOMAIN S!Steps : StepDone(j, disk)
    <3>1. \A j \in DOMAIN S!Steps : j < Len(S!Steps) + 1
      BY <2>1
    <3> QED
      BY <1>4, <3>1 DEF ScaffoldInv, SettledBy
  <2>3. /\ 3 \in DOMAIN S!Steps /\ 6 \in DOMAIN S!Steps /\ 7 + Len(Hooks) \in DOMAIN S!Steps
        /\ 8 + Len(Hooks) \in DOMAIN S!Steps
        /\ \A i \in DOMAIN Hooks : 6 + i \in DOMAIN S!Steps /\ (6 + i) - 6 = i
    BY <2>1
  <2>4. S!ServerURL(disk) \in {"", disk["mcp"].url}
    BY <2>1, <2>2, <2>3 DEF StepDone
  <2>5. S!ServerURL(disk) = "" => disk.toml.key["server_url"].within
    <3>1. S!Active(disk["toml"], "server_url")
      BY <2>1, <2>2, <2>3 DEF StepDone
    <3>2. disk["toml"].key["server_url"].how # ""
      BY <3>1 DEF S!Active
    <3> QED
      BY <1>2, <3>1, <3>2 DEF S!ServerURL
  <2>6. disk.settings.hooks = {Hooks[i] : i \in DOMAIN Hooks}
    <3>1. \A i \in DOMAIN Hooks : Hooks[i] \in disk["settings"].hooks
      <4> TAKE i \in DOMAIN Hooks
      <4>1. 6 + i \in DOMAIN S!Steps /\ (6 + i) - 6 = i /\ S!Steps[6 + i] = "hook"
        BY <2>1, <2>3
      <4>2. Hooks[(6 + i) - 6] \in disk["settings"].hooks
        BY <2>2, <4>1 DEF StepDone
      <4> QED
        BY <4>1, <4>2
    <3>2. disk["settings"].hooks \subseteq InstalledHooks
      BY <1>2 DEF SettingsFile
    <3> QED
      BY <1>2, <3>1, <3>2 DEF InstalledHooks
  <2>7. disk["ignore"].block /\ (disk["principles"].own \/ disk["principles"].starter)
    BY <2>1, <2>2, <2>3 DEF StepDone
  <2>8. ASSUME NEW step \in DOMAIN S!Steps, S!Steps[step] # "project"
        PROVE  S!After(step, disk) = disk[S!FileOf(step)]
    <3>1. CASE S!Steps[step] = "match"
      <4>1. S!After(step, disk) = disk.toml
        BY <3>1 DEF S!After
      <4>2. S!FileOf(step) = "toml"
        BY <3>1, KindIs
      <4> QED
        BY <1>2, <4>1, <4>2
    <3>2. CASE S!Steps[step] # "match"
      <4>1. StepSeesTo(step, disk, S!After(step, disk))
        BY <1>1, <3>2, StepMakes
      <4> QED
        BY <2>2, <2>8, <4>1 DEF StepSeesTo
    <3> QED
      BY <3>1, <3>2
  <2> QED
    BY <1>2, <2>4, <2>5, <2>6, <2>7, <2>8
<1>5. S!UserKept
  BY DEF ScaffoldInv
<1> QED
  BY <1>3, <1>4, <1>5 DEF S!Settled

\* What the user keeps in a file of the repository stays, unless a command wrote over an edit or
\* was cut off (UserKept), and where an init went through undisturbed, the repository is set up
\* and another init writes nothing but a project that is known by then (Settled): whatever the
\* repository held at first.
THEOREM RepositoriesSettle == ScaffoldBounds => (S!Spec => [](S!TypeOK /\ S!UserKept /\ S!Settled))
<1> SUFFICES ASSUME ScaffoldBounds PROVE S!Spec => [](S!TypeOK /\ S!UserKept /\ S!Settled)
  OBVIOUS
<1>1. S!Init => ScaffoldInv
  BY ScaffoldInit
<1>2. ScaffoldInv /\ [S!Next]_S!scaffoldVars => ScaffoldInv'
  BY ScaffoldStep, ScaffoldStutters
<1>3. ScaffoldInv => S!TypeOK /\ S!UserKept /\ S!Settled
  BY ScaffoldSound
<1> QED
  BY <1>1, <1>2, <1>3, PTL DEF S!Spec

-----------------------------------------------------------------------------
\* The parts of the run that composes them.  Where one is under way its component takes a step;
\* elsewhere it stays as it is.
LEMMA ClientStep ==
    ASSUME [MCNext]_allVars
    PROVE  /\ [C!Next]_C!binaryVars /\ [S!Next]_S!scaffoldVars /\ [X!Next]_X!codeIndexVars
           /\ [L!Next]_L!tasksVars /\ [R!Next]_R!clearVars
<1> USE DEF C!binaryVars, S!scaffoldVars, X!codeIndexVars, L!tasksVars, R!clearVars,
            clientVars, binaryVars, scaffoldVars, indexVars, tasksVars, clearVars
<1>1. ASSUME UNCHANGED clientVars
      PROVE  /\ [C!Next]_C!binaryVars /\ [S!Next]_S!scaffoldVars /\ [X!Next]_X!codeIndexVars
             /\ [L!Next]_L!tasksVars /\ [R!Next]_R!clearVars
  BY <1>1
<1>2. CASE UNCHANGED allVars
  BY <1>1, <1>2 DEF allVars
<1>3. CASE GateNext \/ OAuthNext \/ SignInNext \/ KeysNext \/ SeedNext \/ ProvisionNext
  BY <1>1, <1>3 DEF GateNext, OAuthNext, SignInNext, KeysNext, SeedNext, ProvisionNext
<1>4. CASE BinaryNext
  BY <1>4 DEF BinaryNext
<1>5. CASE ScaffoldNext
  BY <1>5 DEF ScaffoldNext
<1>6. CASE IndexNext
  BY <1>6 DEF IndexNext
<1>7. CASE DoorsNext
  BY <1>7 DEF DoorsNext
<1>8. CASE TasksNext
  BY <1>8 DEF TasksNext
<1>9. CASE ClearNext
  BY <1>9 DEF ClearNext
<1> QED
  BY <1>2, <1>3, <1>4, <1>5, <1>6, <1>7, <1>8, <1>9 DEF MCNext

ClientBounds == BinaryBounds /\ ScaffoldBounds /\ IndexBounds /\ TaskBounds /\ ClearBounds

\* Of the run that composes the parts (ClientSound), whichever it is in but that of the doors:
\* the command stands, what the user keeps in a file stays and a repository that was set up is,
\* the index has the symbols of the files, a project's own task wins and a source has one row,
\* and a clear leaves the stories and nothing of its kind, for every machine, repository, file,
\* library and row there is, any number of runs of each and of the faults.
THEOREM ClientIsSound == ClientBounds => (MCSpec => [](part # "doors" => ClientSound))
<1> SUFFICES ASSUME ClientBounds PROVE MCSpec => [](part # "doors" => ClientSound)
  OBVIOUS
<1>1. MCInit => C!Init /\ S!Init /\ X!Init /\ L!Init /\ R!Init
  BY DEF MCInit
<1>2. [MCNext]_allVars =>
        /\ [C!Next]_C!binaryVars /\ [S!Next]_S!scaffoldVars /\ [X!Next]_X!codeIndexVars
        /\ [L!Next]_L!tasksVars /\ [R!Next]_R!clearVars
  BY ClientStep
<1>3. MCSpec => C!Spec /\ S!Spec /\ X!Spec /\ L!Spec /\ R!Spec
  BY <1>1, <1>2, PTL DEF MCSpec, C!Spec, S!Spec, X!Spec, L!Spec, R!Spec
<1>4. C!Spec => [](C!TypeOK /\ C!CommandStands)
  BY CommandStays DEF ClientBounds
<1>5. S!Spec => [](S!TypeOK /\ S!UserKept /\ S!Settled)
  BY RepositoriesSettle DEF ClientBounds
<1>6. X!Spec => [](X!TypeOK /\ X!HashHonest /\ X!IndexCurrent)
  BY SymbolsAreSound DEF ClientBounds
<1>7. L!Spec => [](L!TypeOK /\ L!LocalWins /\ L!OneRowPerSource /\ L!CaughtUp)
  BY TasksAreSound DEF ClientBounds
<1>8. R!Spec => [](R!TypeOK /\ R!StoriesStay /\ R!Cleared)
  BY ClearsAreSound DEF ClientBounds
<1>9. /\ C!TypeOK /\ C!CommandStands /\ S!TypeOK /\ S!UserKept /\ S!Settled
      /\ X!TypeOK /\ X!HashHonest /\ X!IndexCurrent
      /\ L!TypeOK /\ L!LocalWins /\ L!OneRowPerSource /\ L!CaughtUp
      /\ R!TypeOK /\ R!StoriesStay /\ R!Cleared
      => (part # "doors" => ClientSound)
  BY DEF ClientSound
<1> QED
  BY <1>3, <1>4, <1>5, <1>6, <1>7, <1>8, <1>9, PTL

\* In the run that composes them (StaysOnce): an artifact that every release has is not lost to
\* a start, an administrator stays one, and an update puts only what it downloaded whole in a
\* command's place, and only a newer release.
THEOREM WhatWasStays ==
    SeedBounds /\ BinaryBounds /\ SignIns \in Nat /\ SignInFails \in Nat /\ NoOne \notin Identities
        => (MCSpec => StaysOnce)
<1> SUFFICES ASSUME SeedBounds, BinaryBounds, SignIns \in Nat, SignInFails \in Nat, NoOne \notin Identities
             PROVE  MCSpec => StaysOnce
  BY SMTT(30)
<1>1. MCInit => B!Init /\ I!Init /\ C!Init
  BY DEF MCInit
<1>2. [MCNext]_allVars => [B!Next]_B!seedVars /\ [I!Next]_I!signInVars
  BY PartsStep
<1>3. [MCNext]_allVars => [C!Next]_C!binaryVars
  BY ClientStep
<1>4. MCSpec => B!Spec /\ I!Spec /\ C!Spec
  BY <1>1, <1>2, <1>3, PTL DEF MCSpec, B!Spec, I!Spec, C!Spec
<1>5. B!Spec => B!NeverLost
  BY ArtifactsStay
<1>6. I!Spec => I!AdminStays
  BY AdministratorsStay
<1>7. C!Spec => C!Replaced
  BY ReleasesReplace
<1> QED
  BY <1>4, <1>5, <1>6, <1>7, PTL DEF StaysOnce
=============================================================================
