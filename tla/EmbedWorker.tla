---------------------------- MODULE EmbedWorker ----------------------------
(***************************************************************************)
(* The worker that keeps a workspace's chunk sets in step with its         *)
(* documents (internal/embed).  A pass lists one page of the workspace's   *)
(* documents and one of its projects', embeds each document whose chunks   *)
(* are missing or behind the version that was listed, and then removes the *)
(* chunks of every document it did not list.  Documents change between the *)
(* reads of a pass, any of which may fail, and while a server is replaced  *)
(* two workers run.                                                        *)
(***************************************************************************)
EXTENDS Naturals, FiniteSets

CONSTANTS
    Docs,          \* documents, numbered in the order they were created
    ProjectDocs,   \* those of project scope
    PageLimit,     \* documents of a page
    Workers,       \* one per server
    MaxWrites,     \* no document is written after this many
    MaxFaults      \* nothing fails after this many

VARIABLES
    doc,         \* the documents
    chunks,      \* the chunk sets of each document
    pass,        \* the workers
    overlapped,  \* history: documents two workers replaced the chunks of at once
    writes,      \* how many writes there were
    faults       \* how many faults there were

vars == <<doc, chunks, pass, overlapped, writes, faults>>

Version == 0..MaxWrites
Body == [version : Version, blank : BOOLEAN]
Document == [status : {"none", "active", "deleted"}, latest : Version, blank : BOOLEAN]
ChunkSet == [stamp : Version, version : Version, by : Workers]

Idle == [at |-> "idle", page |-> [d \in {} |-> 0], todo |-> {}]

TypeOK ==
    /\ doc \in [Docs -> Document]
    /\ chunks \in [Docs -> SUBSET ChunkSet]
    /\ \A w \in Workers :
         /\ pass[w].at \in {"idle", "project", "scan", "get", "embed", "replace", "prune"}
         /\ DOMAIN pass[w].page \subseteq Docs
         /\ pass[w].todo \subseteq Docs
         /\ pass[w].at \in {"embed", "replace"} => pass[w].got \in Body
         /\ pass[w].at = "replace" => pass[w].seen \subseteq ChunkSet
    /\ overlapped \subseteq Docs
    /\ writes \in 0..MaxWrites
    /\ faults \in 0..MaxFaults

Init ==
    /\ doc = [d \in Docs |-> [status |-> "none", latest |-> 0, blank |-> FALSE]]
    /\ chunks = [d \in Docs |-> {}]
    /\ pass = [w \in Workers |-> Idle]
    /\ overlapped = {}
    /\ writes = 0
    /\ faults = 0

-----------------------------------------------------------------------------
\* A document is created, gets another body, or is deleted.
Write(d, status, blank) ==
    /\ writes < MaxWrites
    /\ doc[d].status = "none" => status = "active" /\ \A e \in Docs : e < d => doc[e].status # "none"
    /\ writes' = writes + 1
    /\ doc' = [doc EXCEPT ![d] = [status |-> status, latest |-> @.latest + 1,
                                  blank |-> blank \/ status = "deleted"]]
    /\ UNCHANGED <<chunks, pass, overlapped, faults>>

\* The newest live documents of a scope.
Newest(S) ==
    LET live == {d \in S : doc[d].status = "active"}
    IN  {d \in live : Cardinality({e \in live : e > d}) < PageLimit}

Listed(S) == [d \in S |-> doc[d].latest]

ListWorkspace(w) ==
    /\ pass[w].at = "idle"
    /\ pass' = [pass EXCEPT ![w] = [@ EXCEPT !.at = "project",
                                             !.page = Listed(Newest(Docs \ ProjectDocs))]]
    /\ UNCHANGED <<doc, chunks, overlapped, writes, faults>>

Scan(w, page) == pass' = [pass EXCEPT ![w] = [at |-> "scan", page |-> page, todo |-> DOMAIN page]]

ListProject(w) ==
    /\ pass[w].at = "project"
    /\ LET found == Listed(Newest(ProjectDocs))
           page == pass[w].page
       IN  Scan(w, [d \in DOMAIN page \cup DOMAIN found |->
                       IF d \in DOMAIN page THEN page[d] ELSE found[d]])
    /\ UNCHANGED <<doc, chunks, overlapped, writes, faults>>

\* The pass goes on with the workspace's documents alone.
ListProjectFails(w) ==
    /\ pass[w].at = "project"
    /\ faults < MaxFaults
    /\ faults' = faults + 1
    /\ Scan(w, pass[w].page)
    /\ UNCHANGED <<doc, chunks, overlapped, writes>>

\* The listed documents, the workspace's first, the newest of each first.
Turn(w, d) ==
    /\ d \in pass[w].todo
    /\ \A e \in pass[w].todo :
         IF (d \in ProjectDocs) = (e \in ProjectDocs) THEN e <= d ELSE e \in ProjectDocs

Done(w, d) == pass' = [pass EXCEPT ![w] = [at |-> "scan", page |-> @.page, todo |-> @.todo \ {d}]]

\* DocVersion is the largest stamp the document's chunks carry.
Current(w, d) == \E c \in chunks[d] : c.stamp >= pass[w].page[d]

Check(w, d) ==
    /\ pass[w].at = "scan"
    /\ Turn(w, d)
    /\ IF Current(w, d) THEN Done(w, d) ELSE pass' = [pass EXCEPT ![w].at = "get"]
    /\ UNCHANGED <<doc, chunks, overlapped, writes, faults>>

\* Get reads the latest body, which may be newer than the version listed.
Get(w, d) ==
    /\ pass[w].at = "get"
    /\ Turn(w, d)
    /\ IF doc[d].status = "active"
       THEN pass' = [pass EXCEPT ![w] =
                       [at |-> "embed", page |-> @.page, todo |-> @.todo,
                        got |-> [version |-> doc[d].latest, blank |-> doc[d].blank]]]
       ELSE Done(w, d)
    /\ UNCHANGED <<doc, chunks, overlapped, writes, faults>>

\* A body without a chunk: the document's chunks are deleted.
EmbedBlank(w, d) ==
    /\ pass[w].at = "embed"
    /\ Turn(w, d)
    /\ pass[w].got.blank
    /\ chunks' = [chunks EXCEPT ![d] = {}]
    /\ Done(w, d)
    /\ UNCHANGED <<doc, overlapped, writes, faults>>

\* The DELETE of ReplaceDocumentChunks sees the chunks that are committed.
Embed(w, d) ==
    /\ pass[w].at = "embed"
    /\ Turn(w, d)
    /\ ~ pass[w].got.blank
    /\ pass' = [pass EXCEPT ![w] = [at |-> "replace", page |-> @.page, todo |-> @.todo,
                                    got |-> @.got, seen |-> chunks[d]]]
    /\ UNCHANGED <<doc, chunks, overlapped, writes, faults>>

Stamp(w, d) == pass[w].page[d]

Replaced(w, d, c) == (chunks[d] \ pass[w].seen) \cup {c}

\* Its INSERTs become visible with the commit.
Replace(w, d) ==
    /\ pass[w].at = "replace"
    /\ Turn(w, d)
    /\ chunks' = [chunks EXCEPT ![d] =
                    Replaced(w, d, [stamp |-> Stamp(w, d), version |-> pass[w].got.version,
                                    by |-> w])]
    /\ overlapped' = IF \E v \in Workers \ {w} : pass[v].at = "replace" /\ Turn(v, d)
                     THEN overlapped \cup {d} ELSE overlapped
    /\ Done(w, d)
    /\ UNCHANGED <<doc, writes, faults>>

\* DocVersion, Get, Embed or ReplaceDocumentChunks fails: the document is passed over.
PassOver(w, d) ==
    /\ pass[w].at \in {"scan", "get", "embed", "replace"}
    /\ Turn(w, d)
    /\ faults < MaxFaults
    /\ faults' = faults + 1
    /\ Done(w, d)
    /\ UNCHANGED <<doc, chunks, overlapped, writes>>

Pruning(w) == {d \in Docs : chunks[d] # {}} \ DOMAIN pass[w].page

\* WorkspaceDocIDs, read when the last document was embedded.
PruneList(w) ==
    /\ pass[w].at = "scan"
    /\ pass[w].todo = {}
    /\ pass' = [pass EXCEPT ![w] = IF Pruning(w) = {} THEN Idle
                                   ELSE [@ EXCEPT !.at = "prune", !.todo = Pruning(w)]]
    /\ UNCHANGED <<doc, chunks, overlapped, writes, faults>>

PruneDone(w, d) ==
    LET todo == pass[w].todo \ {d}
    IN  pass' = [pass EXCEPT ![w] = IF todo = {} THEN Idle ELSE [@ EXCEPT !.todo = todo]]

Prune(w, d) ==
    /\ pass[w].at = "prune"
    /\ d \in pass[w].todo
    /\ chunks' = [chunks EXCEPT ![d] = {}]
    /\ PruneDone(w, d)
    /\ UNCHANGED <<doc, overlapped, writes, faults>>

PruneFails(w, d) ==
    /\ pass[w].at = "prune"
    /\ d \in pass[w].todo
    /\ faults < MaxFaults
    /\ faults' = faults + 1
    /\ PruneDone(w, d)
    /\ UNCHANGED <<doc, chunks, overlapped, writes>>

\* The list of the workspace or of the chunks fails, or the server stops.
EndPass(w) ==
    /\ pass[w].at # "idle"
    /\ faults < MaxFaults
    /\ faults' = faults + 1
    /\ pass' = [pass EXCEPT ![w] = Idle]
    /\ UNCHANGED <<doc, chunks, overlapped, writes>>

WorkerStep(w) ==
    \/ ListWorkspace(w) \/ ListProject(w) \/ PruneList(w)
    \/ \E d \in Docs :
         Check(w, d) \/ Get(w, d) \/ EmbedBlank(w, d) \/ Embed(w, d) \/ Replace(w, d) \/ Prune(w, d)

Next ==
    \/ \E d \in Docs, status \in {"active", "deleted"}, blank \in BOOLEAN : Write(d, status, blank)
    \/ \E w \in Workers :
         \/ WorkerStep(w)
         \/ ListProjectFails(w) \/ EndPass(w)
         \/ \E d \in Docs : PassOver(w, d) \/ PruneFails(w, d)

Spec == Init /\ [][Next]_vars

\* The ticker of a worker goes on as long as its server runs.
FairSpec == Spec /\ \A w \in Workers : WF_vars(WorkerStep(w))

-----------------------------------------------------------------------------
\* A chunk set never claims a version its text is older than, though the version is read
\* with the page and the body later: a stamp that ran ahead would never be embedded again.
StampHonest ==
    \A d \in Docs : \A c \in chunks[d] : c.stamp <= c.version /\ c.version <= doc[d].latest

\* A document has one chunk set, unless two workers replaced it at once.
OneSetUnlessOverlap ==
    \A d \in Docs : Cardinality(chunks[d]) > 1 => d \in overlapped

\* What a search finds of a document is one text, no older than it says.
ChunksFaithful == StampHonest /\ OneSetUnlessOverlap

\* What a pass that meets no fault makes of a document.
InStep(d) ==
    IF d \in Newest(ProjectDocs) \cup Newest(Docs \ ProjectDocs) /\ ~ doc[d].blank
    THEN \E c \in chunks[d] :
           chunks[d] = {c} /\ c.stamp = doc[d].latest /\ c.version = doc[d].latest
    ELSE chunks[d] = {}

\* Once documents are no longer written, the chunks come to be those of the newest page of
\* each scope, and stay so, whatever a pass found halfway and whatever failed.
Converges == <>[](\A d \in Docs : d \in overlapped \/ InStep(d))
=============================================================================
