------------------------------- MODULE Binary -------------------------------
(***************************************************************************)
(* The client's binary on one machine: satellites install                  *)
(* (internal/cli/cmd_install.go), satellites update with the repair of the *)
(* command on the PATH (internal/cli/cmd_update.go), and the releases they *)
(* take it from.  Commands run at once and are cut off.                    *)
(***************************************************************************)
EXTENDS Naturals

CONSTANTS
    PathDirs,       \* the directories of the PATH
    Preferred,      \* ~/.local/bin, one of them
    Local,          \* the repository's .satellites, none of them
    Starting,       \* what the names may be at first
    Runs,
    MaxRelease, MaxStarts, MaxFaults

Canonical(d) == [dir |-> d, name |-> "satellites"]
Legacy(d) == [dir |-> d, name |-> "satellites-client"]
Global == Canonical(Preferred)
Names == {Canonical(d) : d \in PathDirs \cup {Local}} \cup {Legacy(d) : d \in PathDirs}

\* What a name is: nothing, a file of a release (0: a build of the source, whose version reads
\* as no release; Broken: bytes of no release), or a link to a name.
Broken == 99
None == [is |-> "none", v |-> 0, to |-> Global]
File(v) == [is |-> "file", v |-> v, to |-> Global]
Link(to) == [is |-> "link", v |-> 0, to |-> to]

VARIABLES
    entry,      \* what the names are
    latest,     \* the release the channel names
    run,
    clashed,    \* history: names that two runs had in hand
    stood,      \* history: satellites was found on the PATH
    halved,     \* history: a run was cut off between the removal of a link and the new one, or
                \* the link went over the file that another update ran from
    starts, faults

binaryVars == <<entry, latest, run, clashed, stood, halved, starts, faults>>

Idle == [at |-> "idle", kind |-> "", name |-> Global, had |-> 0, tag |-> 0, got |-> 0, force |-> FALSE]

\* Where a name leads; a link leads to a file, or dangles.
Resolved(e, n) == IF e[n].is = "link" THEN e[n].to ELSE n
Leads(e, n) == e[Resolved(e, n)].is = "file"
OnPath(e) == \E d \in PathDirs : Leads(e, Canonical(d))

Init ==
    /\ entry \in Starting
    /\ latest = 1
    /\ run = [r \in Runs |-> Idle]
    /\ clashed = {} /\ stood = OnPath(entry) /\ halved = FALSE /\ starts = 0 /\ faults = 0

Set(r, to) == run' = [run EXCEPT ![r] = to]
Go(r, at) == Set(r, [run[r] EXCEPT !.at = at])
Fault == faults < MaxFaults /\ faults' = faults + 1
Enter(n, to) == entry' = [entry EXCEPT ![n] = to] /\ stood' = (stood \/ OnPath(entry'))

\* A release is published, or the newest is withdrawn.
Publish ==
    /\ Fault
    /\ latest' \in 1..MaxRelease /\ latest' \in {latest - 1, latest + 1}
    /\ UNCHANGED <<entry, run, clashed, stood, halved, starts>>

InHand(r) == IF run[r].at \in {"get", "place"} THEN {run[r].name} ELSE {}
Clash(r, n) == IF \E q \in Runs \ {r} : n \in InHand(q) THEN clashed \cup {n} ELSE clashed

-----------------------------------------------------------------------------
\* runInstall: a release that is there already is left alone, and another is replaced with
\* --force only; what reads as no release is replaced.
MayInstall(had, tag, force) == had # tag /\ (had = 0 \/ force)

\* installRunE: the target, the release, and installedVersionAt.
Install(r) ==
    /\ run[r].at = "idle" /\ starts < MaxStarts /\ starts' = starts + 1
    /\ \E d \in {Preferred, Local}, tag \in 1..latest, force \in BOOLEAN :
          LET n == Canonical(d)
              had == IF Leads(entry, n) /\ entry[Resolved(entry, n)].v # Broken THEN entry[Resolved(entry, n)].v ELSE 0
          IN  /\ MayInstall(had, tag, force)
              /\ Set(r, [at |-> "get", kind |-> "install", name |-> n, had |-> had, tag |-> tag, got |-> 0,
                         force |-> force])
              /\ clashed' = Clash(r, n)
    /\ UNCHANGED <<entry, latest, stood, halved, faults>>

\* isNewer: a build of the source is older than every release.
IsNewer(cur, release) == release > cur

\* satellites update, of the file that runs.
Update(r) ==
    /\ run[r].at = "idle" /\ starts < MaxStarts /\ starts' = starts + 1
    /\ \E n \in Names :
          /\ entry[n].is = "file" /\ entry[n].v # Broken
          /\ LET cur == entry[n].v
             IN  /\ Set(r, [at |-> IF IsNewer(cur, latest) THEN "get" ELSE "sweep", kind |-> "update", name |-> n,
                            had |-> cur, tag |-> latest, got |-> 0, force |-> FALSE])
                 /\ clashed' = IF IsNewer(cur, latest) THEN Clash(r, n) ELSE clashed
    /\ UNCHANGED <<entry, latest, stood, halved, faults>>

\* Into a temporary file of the run's own; the bytes may be wrong.
Download(r) ==
    /\ run[r].at = "get"
    /\ \/ Set(r, [run[r] EXCEPT !.at = "place", !.got = run[r].tag]) /\ UNCHANGED faults
       \/ Fault /\ Set(r, [run[r] EXCEPT !.at = "place", !.got = Broken])
    /\ UNCHANGED <<entry, latest, clashed, stood, halved, starts>>

\* The checksum that the release publishes.
Verified(r) == run[r].got = run[r].tag

\* A rename, over whatever has the name.
Place(r) ==
    /\ run[r].at = "place" /\ Verified(r)
    /\ Enter(run[r].name, File(run[r].got))
    /\ IF run[r].kind = "update" THEN Go(r, "sweep") ELSE Set(r, Idle)
    /\ UNCHANGED <<latest, clashed, halved, starts, faults>>
Discard(r) ==
    /\ run[r].at = "place" /\ ~ Verified(r)
    /\ Set(r, Idle)
    /\ UNCHANGED <<entry, latest, clashed, stood, halved, starts, faults>>

-----------------------------------------------------------------------------
\* reconcileInstall: the names a repair sweeps are those of old.
Swept(n) == n \in {Legacy(d) : d \in PathDirs}

\* A link of such a name goes if it leads elsewhere than to the binary that runs.
Sweep(r) ==
    /\ run[r].at = "sweep"
    /\ entry' = [n \in Names |->
          IF Swept(n) /\ entry[n].is = "link" /\ (entry[n].to # run[r].name \/ ~ Leads(entry, n)) THEN None ELSE entry[n]]
    /\ Go(r, "resolve")
    /\ UNCHANGED <<latest, clashed, stood, halved, starts, faults>>

\* Only a binary whose directory is on the PATH repairs the command.
Repairs(n) == n.dir \in PathDirs

\* resolvesOnPath: some directory of the PATH leads to the binary, not necessarily the first
\* that has the name.
Resolve(r) ==
    /\ run[r].at = "resolve"
    /\ IF (\E d \in PathDirs : Resolved(entry, Canonical(d)) = run[r].name) \/ ~ Repairs(run[r].name)
       THEN Set(r, Idle) ELSE Go(r, "unlink")
    /\ UNCHANGED <<entry, latest, clashed, stood, halved, starts, faults>>

\* os.Remove, of a link or of a file; os.Symlink, unless the name has come to be.
Unlink(r) ==
    /\ run[r].at = "unlink"
    /\ entry' = [entry EXCEPT ![Global] = None]
    /\ halved' = (halved \/ \E q \in Runs \ {r} : run[q].kind = "update" /\ run[q].name = Global)
    /\ Go(r, "link")
    /\ UNCHANGED <<latest, clashed, stood, starts, faults>>
MakeLink(r) ==
    /\ run[r].at = "link"
    /\ IF entry[Global].is = "none" THEN Enter(Global, Link(run[r].name)) ELSE UNCHANGED <<entry, stood>>
    /\ Set(r, Idle)
    /\ UNCHANGED <<latest, clashed, halved, starts, faults>>

CutOff(r) ==
    /\ run[r].at # "idle" /\ Fault
    /\ halved' = (halved \/ run[r].at = "link")
    /\ Set(r, Idle)
    /\ UNCHANGED <<entry, latest, clashed, stood, starts>>

Next ==
    \/ Publish
    \/ \E r \in Runs :
          \/ Install(r) \/ Update(r) \/ Download(r) \/ Place(r) \/ Discard(r)
          \/ Sweep(r) \/ Resolve(r) \/ Unlink(r) \/ MakeLink(r) \/ CutOff(r)

Spec == Init /\ [][Next]_binaryVars

-----------------------------------------------------------------------------
TypeOK ==
    /\ \A n \in Names : entry[n].is \in {"none", "file", "link"} /\ entry[n].to \in Names
    /\ latest \in 1..MaxRelease /\ clashed \subseteq Names
    /\ \A r \in Runs :
          /\ run[r].at \in {"idle", "get", "place", "sweep", "resolve", "unlink", "link"}
          /\ run[r].name \in Names /\ run[r].tag \in 0..MaxRelease
    /\ starts \in 0..MaxStarts /\ faults \in 0..MaxFaults

\* The command stays on the PATH once it is there, unless a run is between the removal of a
\* link and the new one, was cut off there, or took the file of another run that goes on.
CommandStands == stood /\ ~ halved /\ (\A r \in Runs : run[r].at # "link") => OnPath(entry)

\* A name gets a whole release or a link, an update does not replace a release by an older one
\* and an install without --force by none, unless two runs had the file in hand; and the
\* command is never linked to a repository's build.
Replaced ==
    [][entry' # entry => \A n \in Names : entry'[n] # entry[n] =>
           /\ entry'[n].v # Broken
           /\ entry'[n].is = "link" => entry'[n].to.dir # Local
           /\ entry'[n].is = "file" /\ n \notin clashed /\ entry[n].is = "file" =>
                 \E r \in Runs : /\ run[r].at = "place" /\ run[r].name = n
                                 /\ IF run[r].kind = "update" THEN entry'[n].v > entry[n].v
                                    ELSE run[r].force \/ entry[n].v = 0]_binaryVars
=============================================================================
