------------------------------ MODULE Variables ------------------------------
(***************************************************************************)
(* The variables of the server (internal/variable/store.go and             *)
(* internal/verb/variable.go): rows of a name at four layers, a resolver   *)
(* that computes some names of the system layer, and the four verbs.  A    *)
(* set looks for the row before it inserts or updates it; a get and a list *)
(* read the layers of the cascade one by one.                              *)
(***************************************************************************)
EXTENDS Naturals, Sequences

CONSTANTS
    Names,
    Computed,       \* names that the resolver answers for
    Reserved,       \* names of credentials
    StartKeys,      \* keys that may have a row at the start
    WriteKeys,      \* the keys that are set and deleted
    ReadKeys,       \* the keys that are got
    Requests,       \* requests under way at once
    MaxRequests     \* no more requests than this come

Layers == {"user", "project", "workspace", "system"}
Keys == Layers \X Names

VARIABLES
    row,        \* per key, its row
    req,        \* the requests
    acked,      \* history: what the last request that was answered left at the key
    overlapped, \* history: keys that two requests wrote at once
    held,       \* history, per request: at all times a layer it reads held its name
    dropped,    \* history, per request: the name was deleted from one while it read
    came

variablesVars == <<row, req, acked, overlapped, held, dropped, came>>

NoRow == [id |-> 0, value |-> 0, secret |-> FALSE]
Idle == [at |-> "idle", key |-> <<"system", CHOOSE n \in Names : TRUE>>, saw |-> 0, value |-> 0,
         secret |-> FALSE, left |-> <<>>, inherit |-> FALSE]

Init ==
    /\ \E S \in SUBSET StartKeys :
          row = [k \in Keys |-> IF k \in S THEN [id |-> 1, value |-> 0, secret |-> k[2] \in Reserved] ELSE NoRow]
    /\ req = [q \in Requests |-> Idle]
    /\ acked = row
    /\ overlapped = {}
    /\ held = [q \in Requests |-> FALSE] /\ dropped = [q \in Requests |-> FALSE]
    /\ came = 0

Set(q, r) == req' = [req EXCEPT ![q] = r]
Come == came < MaxRequests /\ came' = came + 1
Busy(k) == \E q \in Requests : req[q].at \in {"look", "write"} /\ req[q].key = k
Unread == UNCHANGED <<held, dropped>>

\* buildVariableResolutionChain: the caller's own layer first, then the one asked for and
\* those above it.
Chain(layer, inherit) ==
    IF ~ inherit THEN <<layer>>
    ELSE CASE layer = "user" -> <<"user">>
           [] layer = "project" -> <<"user", "project", "workspace", "system">>
           [] layer = "workspace" -> <<"user", "workspace", "system">>
           [] layer = "system" -> <<"user", "system">>

\* What a layer answers for a name: the row, or what the resolver computes.
Answers(rows, layer, n) == rows[<<layer, n>>].id # 0 \/ (layer = "system" /\ n \in Computed)

\* A secret's value is not shown.
Shown(rows, layer, n) ==
    [name |-> n, layer |-> layer,
     value |-> IF rows[<<layer, n>>].id = 0 \/ rows[<<layer, n>>].secret THEN {} ELSE {rows[<<layer, n>>].value}]

-----------------------------------------------------------------------------
\* A write changes what readers under way can still find.
Wrote(new) ==
    /\ row' = new
    /\ held' = [q \in Requests |->
                  held[q] /\ \E i \in 1..Len(Chain(req[q].key[1], req[q].inherit)) :
                                Answers(new, Chain(req[q].key[1], req[q].inherit)[i], req[q].key[2])]
    /\ dropped' = [q \in Requests |->
                     dropped[q] \/ \E l \in Layers : row[<<l, req[q].key[2]>>].id # 0 /\ new[<<l, req[q].key[2]>>].id = 0]

\* variable_set refuses a name of the resolver, and a credential that is not marked.
StartSet(q) ==
    /\ req[q].at = "idle" /\ Come
    /\ \E k \in WriteKeys : \E secret \in BOOLEAN :
          /\ ~ (k[1] = "system" /\ k[2] \in Computed)
          /\ k[2] \in Reserved => secret
          /\ Set(q, [Idle EXCEPT !.at = "look", !.key = k, !.value = came + 1, !.secret = secret])
          /\ overlapped' = IF Busy(k) THEN overlapped \cup {k} ELSE overlapped
    /\ UNCHANGED <<row, acked>> /\ Unread
Look(q) ==
    /\ req[q].at = "look"
    /\ Set(q, [req[q] EXCEPT !.at = "write", !.saw = row[req[q].key].id])
    /\ UNCHANGED <<row, acked, overlapped, came>> /\ Unread

\* An update sets the value and the mark.
Updated(q) == [id |-> req[q].saw, value |-> req[q].value, secret |-> req[q].secret]

\* An update of a row that is gone changes nothing and is answered all the same; an insert
\* of a key that has a row by now is refused.
Write(q) ==
    LET k == req[q].key
        Asked(id) == [id |-> id, value |-> req[q].value, secret |-> req[q].secret]
    IN  /\ req[q].at = "write"
        /\ IF req[q].saw # 0
           THEN /\ IF row[k].id = req[q].saw THEN Wrote([row EXCEPT ![k] = Updated(q)]) ELSE UNCHANGED row /\ Unread
                /\ acked' = [acked EXCEPT ![k] = Asked(req[q].saw)]
           ELSE IF row[k].id # 0 THEN UNCHANGED <<row, acked>> /\ Unread
           ELSE LET new == Asked(req[q].value + 1)
                IN  Wrote([row EXCEPT ![k] = new]) /\ acked' = [acked EXCEPT ![k] = new]
        /\ Set(q, Idle)
        /\ UNCHANGED <<overlapped, came>>

\* SeedSystem: a knob that has a row keeps it.
Seeds(k) == row[k].id = 0

\* The server starts and seeds its knobs.
Seed ==
    /\ Come
    /\ \E n \in Names \ (Computed \cup Reserved) :
          LET k == <<"system", n>>
              new == [id |-> came + 2, value |-> 0, secret |-> FALSE]
          IN  /\ IF Seeds(k) THEN Wrote([row EXCEPT ![k] = new]) ELSE UNCHANGED row /\ Unread
              /\ IF row[k].id = 0 THEN acked' = [acked EXCEPT ![k] = new] ELSE UNCHANGED acked
              /\ overlapped' = IF Busy(k) THEN overlapped \cup {k} ELSE overlapped
    /\ UNCHANGED req

\* variable_delete, of a stored row of any layer.
Delete ==
    /\ Come
    /\ \E k \in WriteKeys :
          /\ row[k].id # 0
          /\ Wrote([row EXCEPT ![k] = NoRow])
          /\ acked' = [acked EXCEPT ![k] = NoRow]
          /\ overlapped' = IF Busy(k) THEN overlapped \cup {k} ELSE overlapped
    /\ UNCHANGED req

-----------------------------------------------------------------------------
\* variable_get reads layer after layer, and answers with the first that has the name.
StartGet(q) ==
    /\ req[q].at = "idle" /\ Come
    /\ \E k \in ReadKeys : \E inherit \in BOOLEAN :
          /\ Set(q, [Idle EXCEPT !.at = "get", !.key = k, !.inherit = inherit, !.left = Chain(k[1], inherit)])
          /\ held' = [held EXCEPT ![q] = \E i \in 1..Len(Chain(k[1], inherit)) : Answers(row, Chain(k[1], inherit)[i], k[2])]
          /\ dropped' = [dropped EXCEPT ![q] = FALSE]
    /\ UNCHANGED <<row, acked, overlapped>>
GetNext(q) ==
    LET n == req[q].key[2]
    IN  /\ req[q].at = "get"
        /\ IF req[q].left = <<>> THEN Set(q, [req[q] EXCEPT !.at = "missed"])
           ELSE IF Answers(row, Head(req[q].left), n)
                THEN Set(q, Idle)
                ELSE Set(q, [req[q] EXCEPT !.left = Tail(@)])
        /\ UNCHANGED <<row, acked, overlapped, came>> /\ Unread
Missed(q) ==
    /\ req[q].at = "missed"
    /\ Set(q, Idle)
    /\ UNCHANGED <<row, acked, overlapped, came>> /\ Unread

Next ==
    \/ Seed \/ Delete
    \/ \E q \in Requests : StartSet(q) \/ Look(q) \/ Write(q) \/ StartGet(q) \/ GetNext(q) \/ Missed(q)

Spec == Init /\ [][Next]_variablesVars

-----------------------------------------------------------------------------
\* Mutant: a layer further up takes the place of what a lower one has shown.
AddsOver(layer, entries) ==
    LET here == {Shown(row, layer, n) : n \in {m \in Names : Answers(row, layer, m)}}
    IN  here \cup {e \in entries : \A h \in here : h.name # e.name}

\* variable_list: what each layer of the chain adds to the entries so far.
Adds(layer, entries) ==
    LET stored == {n \in Names : row[<<layer, n>>].id # 0}
        computed == IF layer = "system" THEN Computed ELSE {}
    IN  entries \cup {Shown(row, layer, n) : n \in {m \in stored \cup computed : \A e \in entries : e.name # m}}
List(layer, inherit) ==
    LET chain == Chain(layer, inherit)
        after[i \in 0..Len(chain)] == IF i = 0 THEN {} ELSE Adds(chain[i], after[i - 1])
    IN  after[Len(chain)]

\* What variable_get answers where nothing changes meanwhile.
Get(layer, inherit, n) ==
    LET chain == Chain(layer, inherit)
        found == {i \in 1..Len(chain) : Answers(row, chain[i], n)}
    IN  IF found = {} THEN {} ELSE {Shown(row, chain[CHOOSE i \in found : \A j \in found : i <= j], n)}

TypeOK ==
    /\ \A k \in Keys : row[k].id \in 0..(MaxRequests + 1)
    /\ \A q \in Requests : req[q].at \in {"idle", "look", "write", "get", "missed"}
    /\ came \in 0..MaxRequests

\* A list shows for every name what a get of it answers, at the same layer.
ListGetAgree ==
    \A layer \in Layers : \A inherit \in BOOLEAN :
        List(layer, inherit) = UNION {Get(layer, inherit, n) : n \in Names}

\* A credential is never stored without its mark, whichever requests meet.
CredentialsMarked == \A k \in Keys : k[2] \in Reserved /\ row[k].id # 0 => row[k].secret

\* A row is what the last answered request left, restarts included, unless two met at the
\* key: a set that meets a delete is answered and leaves nothing.
AnswersStand ==
    \A k \in Keys : row[k] = acked[k] \/ k \in overlapped

\* A get that finds a name nowhere, though a layer it reads had it at all times, met a
\* delete: the name moved to a layer it had passed.
MissOnlyIfMoved == \A q \in Requests : req[q].at = "missed" => ~ held[q] \/ dropped[q]
=============================================================================
