----------------------------- MODULE Documents -----------------------------
(***************************************************************************)
(* Writers of one key-addressed document or skill: document_upsert and     *)
(* document_delete (internal/verb/document.go) over the store's            *)
(* transactions.  An upsert checks the review of a skill's body against a  *)
(* read of its own, writes the body in one transaction and the tags in     *)
(* another, computed from the row the first returned.  Upserts overlap,    *)
(* and one may fail between its transactions.                              *)
(***************************************************************************)
EXTENDS Naturals, Sequences, FiniteSets

CONSTANTS
    Bodies,       \* bodies a version may have
    Writers,      \* upserts and deletes that may be under way at once
    Tags,         \* tags a caller may give; "type" is the classification
    MaxVersions   \* no operation starts when the row has this many versions

-----------------------------------------------------------------------------
(* The row with its versions, and what a transaction of the store does to  *)
(* it (internal/document/store.go).  latest_version is the number of       *)
(* versions: appendVersion adds the version and moves the pointer in one   *)
(* transaction.                                                            *)

Version == [status : {"active", "deleted"}, body : Bodies \cup {""}]
Row == [status : {"none", "active", "deleted"}, versions : Seq(Version)]

NoRow == [status |-> "none", versions |-> <<>>]

LatestVersion(r) == Len(r.versions)
Latest(r) == r.versions[Len(r.versions)]

\* lockOrInsertDocument: the row there is, or a new one without a version.
Locked(r) == IF r.status = "none" THEN [r EXCEPT !.status = "active"] ELSE r

AppendVersion(r, status, body) ==
    [r EXCEPT !.versions = Append(@, [status |-> status, body |-> body])]

\* Upsert: a body the row and its latest version already have writes nothing; a deleted
\* row is revived.
Upserted(r, body) ==
    IF r.status = "active" /\ r.versions # <<>> /\ Latest(r) = [status |-> "active", body |-> body]
    THEN r
    ELSE [AppendVersion(Locked(r), "active", body) EXCEPT !.status = "active"]

\* Delete, TombstoneByID: also of a row that is deleted already.
Tombstoned(r) == [AppendVersion(r, "deleted", "") EXCEPT !.status = "deleted"]

\* List, Count
Listed(r) == r.status = "active"

\* Get: the latest version, unless it is a tombstone.
Found(r) == r.versions # <<>> /\ Latest(r).status = "active"

-----------------------------------------------------------------------------
Given == {[given |-> TRUE, tags |-> S] : S \in SUBSET Tags}
Alone == [given |-> FALSE, tags |-> {}]

VARIABLES
    skill,      \* whether the type is skill, or document
    row,        \* the row
    tags,       \* documents.tags
    writer,     \* the upserts
    accepted,   \* history: the bodies a reviewer accepted
    asked,      \* history: the tags the last explicit request wrote
    raced,      \* history: tags were written under an upsert that had read them
    halved      \* history: an upsert failed between its transactions

vars == <<skill, row, tags, writer, accepted, asked, raced, halved>>

Writer ==
    [at : {"idle", "upsert", "tags"},
      body : Bodies,
     patch : Given \cup {Alone},    \* req.Tags, or nil
     read : SUBSET (Tags \cup {"type"})]   \* the tags of the row its upsert returned

TypeOK ==
    /\ skill \in BOOLEAN
    /\ row \in Row
    /\ tags \in SUBSET (Tags \cup {"type"})
    /\ \A w \in Writers : writer[w].at = "idle" \/ writer[w] \in Writer
    /\ accepted \subseteq Bodies
    /\ asked \in SUBSET (Tags \cup {"type"})
    /\ raced \in BOOLEAN
    /\ halved \in BOOLEAN

Idle == [at |-> "idle"]

Init ==
    /\ skill \in BOOLEAN
    /\ row = NoRow
    /\ tags = {}
    /\ writer = [w \in Writers |-> Idle]
    /\ accepted = {}
    /\ asked = {}
    /\ raced = FALSE
    /\ halved = FALSE

-----------------------------------------------------------------------------
\* behaviourBodyUnchanged: fails closed.
Unchanged(body) == Found(row) /\ Latest(row).body = body

Starts(w, body) ==
    /\ writer[w].at = "idle"
    /\ LatestVersion(row) < MaxVersions
    /\ \E patch \in Given \cup {Alone} :
         writer' = [writer EXCEPT ![w] = [at |-> "upsert", body |-> body, patch |-> patch,
                                          read |-> {}]]
    /\ UNCHANGED <<skill, row, tags, asked, raced, halved>>

\* A body with the attestation of an accepting review.
StartReviewed(w, body) ==
    /\ Starts(w, body)
    /\ accepted' = accepted \cup {body}

\* A body without one: a document needs none, a skill only when its body changes.
StartUnreviewed(w, body) ==
    /\ skill => Unchanged(body)
    /\ Starts(w, body)
    /\ UNCHANGED accepted

\* The transaction of the body.
Upsert(w) ==
    /\ writer[w].at = "upsert"
    /\ row' = Upserted(row, writer[w].body)
    /\ writer' = [writer EXCEPT ![w] = IF @.patch.given \/ ~ skill
                                       THEN [@ EXCEPT !.at = "tags", !.read = tags]
                                       ELSE Idle]
    /\ UNCHANGED <<skill, tags, accepted, asked, raced, halved>>

Classified == IF skill THEN {} ELSE {"type"}

\* Mutant: a request without tags clears them.
TagSetCleared(w) == writer[w].patch.tags \cup Classified

\* The tags of the request, or those the upsert read; a document is classified as one.
TagSet(w) ==
    (IF writer[w].patch.given THEN writer[w].patch.tags ELSE writer[w].read) \cup Classified

\* Another upsert has read the tags and will write them again.
ReadBySomeOther(w) ==
    \E q \in Writers \ {w} : writer[q].at = "tags" /\ ~ writer[q].patch.given

\* SetDocumentTags, by id: also of a row deleted meanwhile.
SetTags(w) ==
    /\ writer[w].at = "tags"
    /\ tags' = TagSet(w)
    /\ IF writer[w].patch.given
       THEN /\ asked' = TagSet(w)
            /\ raced' = (raced \/ ReadBySomeOther(w))
       ELSE UNCHANGED <<asked, raced>>
    /\ writer' = [writer EXCEPT ![w] = Idle]
    /\ UNCHANGED <<skill, row, accepted, halved>>

\* The request fails: before its first transaction or between the two.
Fail(w) ==
    /\ writer[w].at # "idle"
    /\ halved' = (halved \/ writer[w].at = "tags")
    /\ writer' = [writer EXCEPT ![w] = Idle]
    /\ UNCHANGED <<skill, row, tags, accepted, asked, raced>>

\* document_delete, by key or by id.
Delete ==
    /\ row.status # "none"
    /\ LatestVersion(row) < MaxVersions
    /\ row' = Tombstoned(row)
    /\ UNCHANGED <<skill, tags, writer, accepted, asked, raced, halved>>

Next ==
    \/ \E w \in Writers :
         \/ \E body \in Bodies : StartReviewed(w, body) \/ StartUnreviewed(w, body)
         \/ Upsert(w) \/ SetTags(w) \/ Fail(w)
    \/ Delete

Spec == Init /\ [][Next]_vars

-----------------------------------------------------------------------------
\* list and get agree on what is deleted: the status of the row is that of its latest
\* version, through any order of upserts, deletes and revivals.
ListGetAgree == Listed(row) <=> Found(row)

\* Every body a skill ever had was accepted by a reviewer, though a patch that leaves the
\* body as it is needs no review and its check is not in the transaction that writes.
ReviewedBodies ==
    skill => \A v \in 1..LatestVersion(row) :
                 row.versions[v].status = "active" => row.versions[v].body \in accepted

\* A request without tags leaves them as the last request with tags wrote them, unless
\* that one wrote between its read and its write.
TagsAsAsked == raced \/ tags \ {"type"} = asked \ {"type"}

\* The documents panel filters on a tag, not on the column: a listed document carries it,
\* unless an upsert is between its transactions or failed there.
PanelSeesAll ==
    Listed(row) /\ ~ skill =>
        "type" \in tags \/ halved \/ \E w \in Writers : writer[w].at = "tags"

\* What readers see of a row is what its writers were asked for and allowed.
DocumentsFaithful == ListGetAgree /\ PanelSeesAll /\ ReviewedBodies /\ TagsAsAsked
=============================================================================
