----------------------------- MODULE SystemSeed -----------------------------
(***************************************************************************)
(* What a start of the server makes of the artifacts of its binary         *)
(* (cmd/satellites-server/main.go, internal/document/system_seed.go): a    *)
(* registry of hashes, the system documents that mirror them, and the      *)
(* prune of what the binary does not hold.  Instances of one release or of *)
(* two start together, and a start may be cut off between two statements.  *)
(***************************************************************************)
EXTENDS Naturals, Sequences, SequencesExt

CONSTANTS
    Servers,
    Names,              \* a sequence: the artifacts in the order of their files
    Releases,           \* what the files of a binary hold, by name
    Nothing,            \* no row, no body
    MaxBoots, MaxCuts

\* planSeedFile: a file to seed, or a mark: there is no file, it is the client's own
\* (serverHomedSeed), or it does not parse.
Mark(kind) == [kind |-> kind, type |-> "", body |-> 0, labels |-> 0]
Absent == Mark("absent")
ClientHomed == Mark("client")
Malformed == Mark("malformed")
NameSet == Range(Names)
Kept(release, n) == release[n].kind = "file"

VARIABLES
    registry,   \* system_seeds: the hash, by name
    document,   \* the mirrored system documents
    server,
    became,     \* history: what the last start that went through a name made of it
    torn,       \* history: names whose reconcile was cut off or met another
    boots, cuts

seedVars == <<registry, document, server, became, torn, boots, cuts>>

Down == [at |-> "down", release |-> Nothing, n |-> 0, gone |-> {}, met |-> FALSE]
NoDocument == [status |-> "none", type |-> "", body |-> Nothing, labels |-> 0]

Init ==
    /\ registry = [n \in NameSet |-> Nothing] /\ document = [n \in NameSet |-> NoDocument]
    /\ server = [s \in Servers |-> Down]
    /\ became = [n \in NameSet |-> Absent] /\ torn = {}
    /\ boots = 0 /\ cuts = 0

Name(s) == Names[server[s].n]
File(s) == server[s].release[Name(s)]
Go(s, at) == server' = [server EXCEPT ![s].at = at]

\* The first of the names to prune.
First(gone) == Names[SelectInSeq(Names, LAMBDA n : n \in gone)]

\* The name a start is at work on, after it found the registry to differ or to be pruned.
Works(s, n) ==
    \/ server[s].at \in {"register", "mirror", "label"} /\ Name(s) = n
    \/ server[s].at \in {"delete", "unregister"} /\ First(server[s].gone) = n

\* Start s turns to name n, as the record given; others may be at work on it.
Enter(s, n, as, clean) ==
    LET others == {q \in Servers \ {s} : Works(q, n)}
    IN  /\ server' = [q \in Servers |->
              IF q = s THEN [as EXCEPT !.met = others # {}]
              ELSE IF q \in others THEN [server[q] EXCEPT !.met = TRUE] ELSE server[q]]
        /\ torn' = IF others # {} THEN clean \cup {n} ELSE clean

Start(s) ==
    /\ server[s].at \in {"down", "dead", "done"} /\ boots < MaxBoots
    /\ boots' = boots + 1
    /\ \E r \in Releases : server' = [server EXCEPT ![s] = [Down EXCEPT !.at = "look", !.release = r, !.n = 1]]
    /\ UNCHANGED <<registry, document, became, torn, cuts>>

\* The loop over the files goes on.
After(s) == [server[s] EXCEPT !.at = "look", !.n = @ + 1, !.met = FALSE]

-----------------------------------------------------------------------------
\* Mutant: HashBody, without the tags.
BodyHash(file) == [body |-> file.body]

\* HashBodyAndTags: the body, the tags and the headline, and not the type.
Hash(file) == [body |-> file.body, labels |-> file.labels]

\* ReconcileSystemSeedTyped reads the registry; a file that is malformed, the client's, or
\* registered as it is writes nothing.
Pass(s) ==
    /\ server[s].at = "look" /\ server[s].n <= Len(Names)
    /\ File(s).kind # "file" \/ registry[Name(s)] = Hash(File(s))
    /\ server' = [server EXCEPT ![s] = After(s)]
    /\ became' = IF File(s).kind # "file" THEN became ELSE [became EXCEPT ![Name(s)] = File(s)]
    /\ UNCHANGED <<registry, document, torn, boots, cuts>>
Differ(s) ==
    /\ server[s].at = "look" /\ server[s].n <= Len(Names)
    /\ File(s).kind = "file" /\ registry[Name(s)] # Hash(File(s))
    /\ Enter(s, Name(s), [server[s] EXCEPT !.at = "register"], torn)
    /\ UNCHANGED <<registry, document, became, boots, cuts>>

\* SystemSeedStore.upsert, before the document follows.
Register(s) ==
    /\ server[s].at = "register"
    /\ registry' = [registry EXCEPT ![Name(s)] = Hash(File(s))]
    /\ Go(s, "mirror")
    /\ UNCHANGED <<document, became, torn, boots, cuts>>

\* SeedSystemTyped: a body the document has is left alone, whatever its type is; another body
\* of another type is refused.
Mirror(s) ==
    LET d == document[Name(s)]
        f == File(s)
    IN  /\ server[s].at = "mirror"
        /\ IF d.status = "active" /\ d.body = f.body
           THEN Go(s, "label") /\ UNCHANGED <<document, torn>>
           ELSE IF d.status # "none" /\ d.type # f.type
           THEN Go(s, "dead") /\ torn' = torn \cup {Name(s)} /\ UNCHANGED document
           ELSE /\ document' = [document EXCEPT ![Name(s)] = [@ EXCEPT !.status = "active", !.type = f.type, !.body = f.body]]
                /\ Go(s, "label") /\ UNCHANGED torn
        /\ UNCHANGED <<registry, became, boots, cuts>>

\* SetDocumentTags and SetDocumentHeadline, of a file that has some.
Label(s) ==
    /\ server[s].at = "label"
    /\ document' = IF File(s).labels = 0 THEN document
                   ELSE [document EXCEPT ![Name(s)].labels = File(s).labels]
    /\ became' = [became EXCEPT ![Name(s)] = File(s)]
    /\ torn' = IF server[s].met THEN torn ELSE torn \ {Name(s)}
    /\ server' = [server EXCEPT ![s] = After(s)]
    /\ UNCHANGED <<registry, boots, cuts>>

-----------------------------------------------------------------------------
\* PruneSystemSeeds lists the names that are registered and not kept, unless a file was
\* malformed.
Retired(release) ==
    IF \E n \in NameSet : release[n] = Malformed THEN {}
    ELSE {n \in NameSet : ~ Kept(release, n) /\ registry[n] # Nothing}

\* The start turns to the first name of those to prune.
ToPrune(s, gone, clean) ==
    IF gone = {} THEN Go(s, "done") /\ torn' = clean
    ELSE Enter(s, First(gone), [server[s] EXCEPT !.at = "delete", !.gone = gone], clean)
List(s) ==
    /\ server[s].at = "look" /\ server[s].n > Len(Names)
    /\ ToPrune(s, Retired(server[s].release), torn)
    /\ UNCHANGED <<registry, document, became, boots, cuts>>

\* Store.Delete; a name without a document is fine.
Delete(s) ==
    LET n == First(server[s].gone)
    IN  /\ server[s].at = "delete"
        /\ document' = IF document[n].status = "none" THEN document
                       ELSE [document EXCEPT ![n].status = "deleted", ![n].body = Nothing]
        /\ Go(s, "unregister")
        /\ UNCHANGED <<registry, became, torn, boots, cuts>>
Unregister(s) ==
    LET n == First(server[s].gone)
    IN  /\ server[s].at = "unregister"
        /\ registry' = [registry EXCEPT ![n] = Nothing]
        /\ became' = [became EXCEPT ![n] = Absent]
        /\ ToPrune(s, server[s].gone \ {n}, IF server[s].met THEN torn ELSE torn \ {n})
        /\ UNCHANGED <<document, boots, cuts>>

\* A start is cut off, or a statement of it fails.
Cut(s) ==
    /\ server[s].at \notin {"down", "dead", "done"} /\ cuts < MaxCuts
    /\ cuts' = cuts + 1
    /\ torn' = torn \cup {n \in NameSet : Works(s, n)}
    /\ server' = [server EXCEPT ![s] = Down]
    /\ UNCHANGED <<registry, document, became, boots>>

Next ==
    \E s \in Servers :
        \/ Start(s) \/ Cut(s)
        \/ Pass(s) \/ Differ(s) \/ Register(s) \/ Mirror(s) \/ Label(s)
        \/ List(s) \/ Delete(s) \/ Unregister(s)

Spec == Init /\ [][Next]_seedVars

-----------------------------------------------------------------------------
TypeOK ==
    /\ \A n \in NameSet : document[n].status \in {"none", "active", "deleted"}
    /\ torn \subseteq NameSet
    /\ \A s \in Servers : server[s].n \in 0..Len(Names) + 1 /\ server[s].gone \subseteq NameSet
    /\ boots \in 0..MaxBoots /\ cuts \in 0..MaxCuts

\* The document of an artifact tells what the last start that went through it holds of it, in
\* its body and in the labels it has, unless a start was cut off within it or two starts met
\* there.
Mirrors ==
    \A n \in NameSet : n \notin torn /\ (\A s \in Servers : ~ Works(s, n)) =>
        IF became[n] = Absent THEN document[n].status # "active"
        ELSE /\ document[n].status = "active" /\ document[n].body = became[n].body
             /\ became[n].labels # 0 => document[n].labels = became[n].labels

\* An artifact that every release has, if malformed in some, is not lost once it is there.
NeverLost ==
    [][\A n \in NameSet :
           document[n].status = "active" /\ document'[n].status # "active" =>
               \E r \in Releases : r[n] \in {Absent, ClientHomed}]_seedVars

\* A start dies by itself only at an artifact whose type the releases disagree on.
DiesOnlyIf ==
    \A s \in Servers : server[s].at = "dead" =>
        /\ server[s].n <= Len(Names)
        /\ \E r \in Releases : Kept(r, Name(s)) /\ r[Name(s)].type # File(s).type
=============================================================================
