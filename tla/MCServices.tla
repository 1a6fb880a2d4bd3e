----------------------------- MODULE MCServices -----------------------------
(***************************************************************************)
(* The services of the server that share no state with each other, in one  *)
(* run: an initial state chooses the service, and the others stay as they  *)
(* began.  The state space is the sum of theirs and not their product, and *)
(* a property of one service is checked in the behaviours of that one.     *)
(***************************************************************************)
EXTENDS LedgerHandler

CONSTANTS
    Bodies, Writers, Tags, MaxVersions,                       \* Documents
    Docs, ProjectDocs, PageLimit, Workers, DocWrites, EmbedFaults,   \* EmbedWorker
    ClientBuffer, Asks, PageWrites,                           \* Live
    Users, Callers, Invites                                   \* Members

VARIABLES
    service,
    skill, row, tags, writer, accepted, asked, tagsRaced, halved,
    doc, chunks, pass, overlapped, docWrites, embedFaults,
    db, notes, linked, open, buffer, timer, waiting, answered, view, missed, pageWrites, liveFaults,
    role, invite, call, granted, late, raced, lowered

D == INSTANCE Documents WITH raced <- tagsRaced
E == INSTANCE EmbedWorker WITH
        writes <- docWrites, faults <- embedFaults, MaxWrites <- DocWrites, MaxFaults <- EmbedFaults
L == INSTANCE Live WITH
        asked <- waiting, writes <- pageWrites, faults <- liveFaults, MaxWrites <- PageWrites
M == INSTANCE Members

documentsVars == <<skill, row, tags, writer, accepted, asked, tagsRaced, halved>>
embedVars == <<doc, chunks, pass, overlapped, docWrites, embedFaults>>
liveVars == <<db, notes, linked, open, buffer, timer, waiting, answered, view, missed, pageWrites,
              liveFaults>>
membersVars == <<role, invite, call, granted, late, raced, lowered>>
allVars == <<service, vars, documentsVars, embedVars, liveVars, membersVars>>

Services == {"handler", "documents", "embed", "live", "members"}

MCInit ==
    /\ service \in Services
    /\ Init /\ E!Init /\ L!Init
    /\ IF service = "documents" THEN D!Init ELSE D!Init /\ ~ skill
    /\ IF service = "members" THEN M!Init ELSE M!Init /\ role[CHOOSE u \in Users : TRUE] = "admin"

HandlerNext ==
    /\ service = "handler" /\ Next
    /\ UNCHANGED <<service, documentsVars, embedVars, liveVars, membersVars>>
DocumentsNext ==
    /\ service = "documents" /\ D!Next
    /\ UNCHANGED <<service, vars, embedVars, liveVars, membersVars>>
EmbedNext ==
    /\ service = "embed" /\ E!Next
    /\ UNCHANGED <<service, vars, documentsVars, liveVars, membersVars>>
LiveNext ==
    /\ service = "live" /\ L!Next
    /\ UNCHANGED <<service, vars, documentsVars, embedVars, membersVars>>
MembersNext ==
    /\ service = "members" /\ M!Next
    /\ UNCHANGED <<service, vars, documentsVars, embedVars, liveVars>>
MCNext ==
    HandlerNext \/ DocumentsNext \/ EmbedNext \/ LiveNext \/ MembersNext

\* The fairness of LedgerHandler and of EmbedWorker, where that service is the one that runs.
MCSpec ==
    /\ MCInit /\ [][MCNext]_allVars
    /\ \A p \in Producers : WF_vars(service = "handler" /\ ProducerStep(p))
    /\ WF_vars(service = "handler" /\ DrainerStep)
    /\ WF_vars(service = "handler" /\ Tick)
    /\ \A w \in Workers : WF_embedVars(service = "embed" /\ E!WorkerStep(w))

-----------------------------------------------------------------------------
\* The type invariants of the modules.
Types == TypeOK /\ D!TypeOK /\ E!TypeOK /\ L!TypeOK /\ M!TypeOK

\* What list shows is what get finds and the documents panel misses none of it; every body a
\* skill ever had was accepted by a reviewer; the tags are those last asked for (Documents).
\* A document has one chunk set, never stamped with a version its text is older than
\* (EmbedWorker).
DocumentsFaithful == D!DocumentsFaithful /\ E!ChunksFaithful

\* A producer comes back from Handle and the channel and the batch come to be empty, and the
\* chunks come to be those of the newest documents (LedgerHandler and EmbedWorker).
CatchesUp == Settles /\ E!Converges

\* A page that is not current will ask again (Live).
StaleOnlyIfMissed == L!StaleOnlyIfMissed

\* A workspace keeps an admin, and an invitation admits whom it may (Members).
MembershipSound == M!MembershipSound
=============================================================================
