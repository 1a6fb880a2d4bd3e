-------------------------- MODULE DeploymentProofs --------------------------
(***************************************************************************)
(* The theorems about the server's people and starts: the grants of OAuth  *)
(* clients (OAuth), the accounts that identities sign in to (SignIn), the  *)
(* keys of commands (Keys), what a start makes of its artifacts            *)
(* (SystemSeed) and of its variables (Provision), for any number of        *)
(* requests, starts and faults, and what they make of the run that         *)
(* composes them.                                                          *)
(***************************************************************************)
EXTENDS MCDeployment, FiniteSetTheorems, SequenceTheorems, WellFoundedInduction, TLAPS

Session == [uri : Uris \cup {NoUri}, open : BOOLEAN]
Code == [session : Nat, used : BOOLEAN, expired : BOOLEAN]
Token == [code : Nat, after : Nat, live : BOOLEAN]
GrantStep ==
    [at : {"idle", "client", "register", "session", "look", "code", "close", "mark", "mint", "drop", "save"},
     id : Nat, uri : Uris \cup {NoUri}]

GrantTyped ==
    /\ session \in Seq(Session) /\ code \in Seq(Code) /\ token \in Seq(Token)
    /\ oauthReq \in [Requests -> GrantStep]

\* What a request holds exists; a token it drops was presented, a code it redeems is marked.
Placed(k) ==
    /\ k.at \in {"look", "code", "close"} => k.id \in DOMAIN session
    /\ k.at \in {"mark", "mint"} => k.id \in DOMAIN code
    /\ k.at = "mint" => code[k.id].used
    /\ k.at \in {"drop", "save"} => k.id \in DOMAIN token /\ k.id \in presented

Placings ==
    /\ \A q \in Requests : Placed(oauthReq[q])
    /\ \A c \in DOMAIN code : code[c].session \in DOMAIN session
    /\ \A t \in DOMAIN token : token[t].code \in DOMAIN code /\ code[token[t].code].used

\* Of the requests that redeem codes no two redeem the same, nor one that has a token.
CodesOnce ==
    /\ \A q, r \in Requests : oauthReq[q].at = "mint" /\ oauthReq[r].at = "mint" /\ oauthReq[q].id = oauthReq[r].id => q = r
    /\ \A q \in Requests : oauthReq[q].at = "mint" => \A t \in DOMAIN token : token[t].code # oauthReq[q].id
    /\ \A t, u \in DOMAIN token :
          token[t].code = token[u].code /\ token[t].after = 0 /\ token[u].after = 0 => t = u

\* The session of a code is closed, or its request is about to close it.
SessionsOnce ==
    \A c \in DOMAIN code : <<"session", code[c].session>> \notin oauthExcused =>
        /\ \A d \in DOMAIN code : code[d].session = code[c].session => c = d
        /\ \/ ~ session[code[c].session].open
           \/ \E q \in Requests : oauthReq[q].at = "close" /\ oauthReq[q].id = code[c].session

\* Who stands for a chain: its live tokens and the requests that dropped one and will save
\* its successor.  They are one at most.
Saves(q, c) == oauthReq[q].at = "save" /\ token[oauthReq[q].id].code = c
Live(t, c) == token[t].code = c /\ token[t].live
Chains ==
    \A c \in DOMAIN code : <<"chain", c>> \notin oauthExcused =>
        /\ \A t, u \in DOMAIN token : Live(t, c) /\ Live(u, c) => t = u
        /\ \A q, r \in Requests : Saves(q, c) /\ Saves(r, c) => q = r
        /\ \A q \in Requests, t \in DOMAIN token : ~ (Saves(q, c) /\ Live(t, c))

\* Nobody registers a client that is registered.
Registrations ==
    <<"client", 0>> \notin oauthExcused =>
        /\ client = registered
        /\ \A q \in Requests : oauthReq[q].at = "register" => client = {}

GrantInv ==
    GrantTyped /\ Placings /\ CodesOnce /\ SessionsOnce /\ Chains /\ O!ToldTokensGood /\ Registrations

LEMMA AppendIs ==
    ASSUME NEW these, NEW s \in Seq(these), NEW x \in these
    PROVE  /\ Append(s, x) \in Seq(these) /\ Len(s) + 1 \in DOMAIN Append(s, x) /\ Len(s) + 1 \notin DOMAIN s
           /\ Append(s, x)[Len(s) + 1] = x /\ Len(s) + 1 \in Nat /\ Len(s) + 1 # 0
           /\ \A i \in DOMAIN Append(s, x) : i \in DOMAIN s \/ i = Len(s) + 1
           /\ \A i \in DOMAIN s : i \in DOMAIN Append(s, x) /\ Append(s, x)[i] = s[i]
<1>1. /\ Append(s, x) \in Seq(these) /\ Len(s) \in Nat /\ DOMAIN s = 1..Len(s)
      /\ DOMAIN Append(s, x) = 1..(Len(s) + 1)
      /\ \A i \in 1..Len(s) : Append(s, x)[i] = s[i]
      /\ Append(s, x)[Len(s) + 1] = x
  OBVIOUS
<1> QED
  BY <1>1

LEMMA PutIs ==
    ASSUME NEW these, NEW s \in Seq(these), NEW i \in DOMAIN s, NEW x \in these
    PROVE  /\ [s EXCEPT ![i] = x] \in Seq(these) /\ DOMAIN [s EXCEPT ![i] = x] = DOMAIN s
           /\ \A j \in DOMAIN s : [s EXCEPT ![i] = x][j] = IF j = i THEN x ELSE s[j]
<1>1. i \in 1..Len(s)
  OBVIOUS
<1>2. [s EXCEPT ![i] = x] \in Seq(these)
  BY <1>1, ExceptSeq
<1> QED
  BY <1>2

\* A token that is dropped, or expires.
LEMMA TokenOff ==
    ASSUME NEW s \in Seq(Token), NEW t \in DOMAIN s
    PROVE  LET u == [s EXCEPT ![t].live = FALSE]
           IN  /\ DOMAIN u = DOMAIN s /\ u \in Seq(Token) /\ ~ u[t].live
               /\ \A j \in DOMAIN s : /\ u[j].code = s[j].code /\ u[j].after = s[j].after
                                     /\ (u[j].live => s[j].live)
                                     /\ (s[j].live => u[j].live \/ j = t)
<1> DEFINE x == [s[t] EXCEPT !.live = FALSE]
           u == [s EXCEPT ![t].live = FALSE]
<1>1. x \in Token /\ ~ x.live /\ x.code = s[t].code /\ x.after = s[t].after
  <2>1. s[t] \in Token
    OBVIOUS
  <2> QED
    BY <2>1 DEF Token
<1>2. u = [s EXCEPT ![t] = x]
  OBVIOUS
<1> HIDE DEF x, u
<1>3. /\ DOMAIN u = DOMAIN s /\ u \in Seq(Token)
      /\ \A j \in DOMAIN s : u[j] = IF j = t THEN x ELSE s[j]
  BY <1>1, <1>2, PutIs
<1>4. /\ DOMAIN u = DOMAIN s /\ u \in Seq(Token) /\ ~ u[t].live
      /\ \A j \in DOMAIN s : /\ u[j].code = s[j].code /\ u[j].after = s[j].after
                            /\ (u[j].live => s[j].live)
                            /\ (s[j].live => u[j].live \/ j = t)
  BY <1>1, <1>3
<1> QED
  BY <1>4 DEF u

\* A request moves on, and the tables stay as they are; the client's row may change.
LEMMA RequestMoves ==
    ASSUME GrantInv, NEW q \in Requests, NEW k \in GrantStep, Placed(k)',
           oauthReq' = [oauthReq EXCEPT ![q] = k],
           UNCHANGED <<session, code, token>>,
           presented \subseteq presented', oauthExcused \subseteq oauthExcused',
           k.at \notin {"mint", "save"},
           oauthReq[q].at = "close" => <<"session", oauthReq[q].id>> \in oauthExcused'
    PROVE  Registrations' => GrantInv'
<1> USE DEF GrantInv
<1>1. \A r \in Requests : oauthReq'[r] = IF r = q THEN k ELSE oauthReq[r]
  BY DEF GrantTyped
<1>2. GrantTyped'
  BY DEF GrantTyped
<1>3. Placings'
  <2>1. ASSUME NEW r \in Requests PROVE Placed(oauthReq[r])'
    <3>1. CASE r = q
      BY <1>1, <3>1 DEF Placed
    <3>2. CASE r # q
      BY <1>1, <3>2 DEF Placings, Placed
    <3> QED
      BY <3>1, <3>2
  <2> QED
    BY <2>1 DEF Placings
<1>4. CodesOnce'
  BY <1>1 DEF CodesOnce
<1>5. SessionsOnce'
  <2> SUFFICES ASSUME NEW c \in DOMAIN code, <<"session", code[c].session>> \notin oauthExcused'
      PROVE  /\ \A d \in DOMAIN code : code[d].session = code[c].session => c = d
             /\ \/ ~ session[code[c].session].open
                \/ \E r \in Requests : oauthReq'[r].at = "close" /\ oauthReq'[r].id = code[c].session
    BY DEF SessionsOnce
  <2> QED
    BY <1>1 DEF SessionsOnce
<1>6. Chains'
  <2>1. \A r \in Requests : \A c : Saves(r, c)' => Saves(r, c)
    BY <1>1 DEF Saves
  <2> QED
    BY <2>1 DEF Chains, Live
<1>7. O!ToldTokensGood'
  BY DEF O!ToldTokensGood
<1> QED
  BY <1>2, <1>3, <1>4, <1>5, <1>6, <1>7

\* The same when the client's row stays too.
LEMMA RequestKeeps ==
    ASSUME GrantInv, NEW q \in Requests, NEW k \in GrantStep, Placed(k)',
           oauthReq' = [oauthReq EXCEPT ![q] = k],
           UNCHANGED <<session, code, token, client, registered>>,
           presented \subseteq presented', oauthExcused \subseteq oauthExcused',
           k.at \notin {"mint", "save"},
           k.at = "register" => client = {} \/ <<"client", 0>> \in oauthExcused',
           oauthReq[q].at = "close" => <<"session", oauthReq[q].id>> \in oauthExcused'
    PROVE  GrantInv'
<1>1. \A r \in Requests : oauthReq'[r] = IF r = q THEN k ELSE oauthReq[r]
  BY DEF GrantInv, GrantTyped
<1>2. Registrations'
  BY <1>1 DEF GrantInv, Registrations
<1> QED
  BY <1>2, RequestMoves

\* A token is saved, or the client is told one that is not.
LEMMA TokenKeeps ==
    ASSUME GrantInv, NEW q \in Requests, NEW c \in DOMAIN code, NEW after \in Nat,
           O!Saves(q, c, after), UNCHANGED <<session, code, client, registered, presented>>,
           code[c].used,
           \/ after = 0 /\ oauthReq[q].at = "mint" /\ oauthReq[q].id = c
           \/ after # 0 /\ oauthReq[q].at = "save" /\ token[oauthReq[q].id].code = c
    PROVE  GrantInv'
<1> USE DEF GrantInv
<1>1. PICK live \in BOOLEAN :
         /\ token' = Append(token, [code |-> c, after |-> after, live |-> live])
         /\ live \/ <<"token", Len(token) + 1>> \in oauthExcused'
         /\ oauthExcused \subseteq oauthExcused'
         /\ \A d : <<"chain", d>> \in oauthExcused' <=> <<"chain", d>> \in oauthExcused
         /\ \A d : <<"session", d>> \in oauthExcused' <=> <<"session", d>> \in oauthExcused
         /\ <<"client", 0>> \in oauthExcused' <=> <<"client", 0>> \in oauthExcused
  <2>1. CASE token' = Append(token, [code |-> c, after |-> after, live |-> TRUE]) /\ oauthExcused' = oauthExcused
    BY <2>1
  <2>2. CASE /\ O!Excuse(<<"token", Len(token) + 1>>)
             /\ token' = Append(token, [code |-> c, after |-> after, live |-> FALSE])
    BY <2>2 DEF O!Excuse
  <2> QED
    BY <2>1, <2>2 DEF O!Saves
<1> DEFINE n == Len(token) + 1
           new == [code |-> c, after |-> after, live |-> live]
<1>2. new \in Token /\ new.code = c /\ new.after = after /\ new.live = live
  <2>1. c \in Nat
    BY DEF GrantTyped
  <2> QED
    BY <2>1 DEF Token
<1> HIDE DEF new
<1>3. /\ token' \in Seq(Token) /\ n \in DOMAIN token' /\ n \notin DOMAIN token /\ token'[n] = new
      /\ n \in Nat
      /\ \A t \in DOMAIN token' : t \in DOMAIN token \/ t = n
      /\ \A t \in DOMAIN token : t \in DOMAIN token' /\ token'[t] = token[t]
  BY <1>1, <1>2, AppendIs DEF GrantTyped, new
<1> HIDE DEF n
<1>4. O!Idle \in GrantStep /\ O!Idle.at = "idle"
  BY DEF O!Idle, GrantStep
<1>5. \A r \in Requests : oauthReq'[r] = IF r = q THEN O!Idle ELSE oauthReq[r]
  BY DEF O!Saves, O!Done, O!Set, GrantTyped
<1>6. GrantTyped'
  BY <1>3, <1>4 DEF GrantTyped, O!Saves, O!Done, O!Set
<1>7. Placings'
  <2>1. \A r \in Requests : Placed(oauthReq[r])'
    BY <1>3, <1>4, <1>5 DEF Placings, Placed
  <2> QED
    BY <1>2, <1>3, <2>1 DEF Placings
<1>8. CodesOnce'
  <2>1. \A t \in DOMAIN token : after = 0 => token[t].code # c
    BY DEF CodesOnce
  <2>2. \A r \in Requests \ {q} : oauthReq[r].at = "mint" => oauthReq[r].id # c
    <3>1. CASE after = 0
      BY <3>1 DEF CodesOnce
    <3>2. CASE after # 0
      BY <3>2 DEF CodesOnce, Placings, Placed
    <3> QED
      BY <3>1, <3>2
  <2>3. \A r \in Requests : oauthReq'[r].at = "mint" => \A t \in DOMAIN token' : token'[t].code # oauthReq'[r].id
    BY <1>2, <1>3, <1>4, <1>5, <2>2 DEF CodesOnce
  <2>4. \A t, u \in DOMAIN token' :
           token'[t].code = token'[u].code /\ token'[t].after = 0 /\ token'[u].after = 0 => t = u
    BY <1>2, <1>3, <2>1 DEF CodesOnce
  <2>5. \A r, p \in Requests : oauthReq'[r].at = "mint" /\ oauthReq'[p].at = "mint" /\ oauthReq'[r].id = oauthReq'[p].id => r = p
    BY <1>4, <1>5 DEF CodesOnce
  <2> QED
    BY <2>3, <2>4, <2>5 DEF CodesOnce
<1>9. SessionsOnce'
  <2>1. \A r \in Requests : oauthReq[r].at = "close" => oauthReq'[r] = oauthReq[r]
    BY <1>5
  <2> QED
    BY <1>1, <2>1 DEF SessionsOnce
<1>10. Chains'
  <2> SUFFICES ASSUME NEW d \in DOMAIN code, <<"chain", d>> \notin oauthExcused
      PROVE  /\ \A t, u \in DOMAIN token' : Live(t, d)' /\ Live(u, d)' => t = u
             /\ \A p, r \in Requests : Saves(p, d)' /\ Saves(r, d)' => p = r
             /\ \A p \in Requests, t \in DOMAIN token' : ~ (Saves(p, d)' /\ Live(t, d)')
    BY <1>1 DEF Chains
  <2>1. \A r \in Requests : Saves(r, d)' => r # q /\ Saves(r, d)
    BY <1>3, <1>4, <1>5 DEF Saves, Placings, Placed
  <2>2. \A t \in DOMAIN token' : Live(t, d)' => (t \in DOMAIN token /\ Live(t, d)) \/ (t = n /\ d = c)
    BY <1>2, <1>3 DEF Live
  <2>3. d = c => /\ \A t \in DOMAIN token : ~ Live(t, c)
                 /\ \A r \in Requests \ {q} : ~ Saves(r, c)
    <3>1. CASE after = 0
      BY <3>1 DEF CodesOnce, Live, Saves, Placings, Placed
    <3>2. CASE after # 0 /\ d = c
      <4>1. Saves(q, c)
        BY <3>2 DEF Saves
      <4> QED
        BY <3>2, <4>1 DEF Chains
    <3> QED
      BY <3>1, <3>2
  <2> QED
    BY <2>1, <2>2, <2>3 DEF Chains
<1>11. O!ToldTokensGood'
  <2> SUFFICES ASSUME NEW t \in DOMAIN token'
      PROVE  token'[t].live \/ t \in presented' \/ <<"token", t>> \in oauthExcused'
    BY DEF O!ToldTokensGood
  <2>1. CASE t \in DOMAIN token
    BY <1>1, <1>3, <2>1 DEF O!ToldTokensGood
  <2>2. CASE t = n
    BY <1>1, <1>2, <1>3, <2>2 DEF n
  <2> QED
    BY <1>3, <2>1, <2>2
<1>12. Registrations'
  BY <1>1, <1>4, <1>5 DEF Registrations
<1> QED
  BY <1>6, <1>7, <1>8, <1>9, <1>10, <1>11, <1>12

Ats == {"idle", "client", "register", "session", "look", "code", "close", "mark", "mint", "drop", "save"}

LEMMA StepIs ==
    /\ O!Idle \in GrantStep /\ O!Idle.at = "idle"
    /\ \A k \in GrantStep, at \in Ats :
          /\ [k EXCEPT !.at = at] \in GrantStep
          /\ [k EXCEPT !.at = at].at = at /\ [k EXCEPT !.at = at].id = k.id /\ [k EXCEPT !.at = at].uri = k.uri
<1>1. O!Idle \in GrantStep /\ O!Idle.at = "idle"
  BY DEF O!Idle, GrantStep
<1> USE DEF GrantStep, Ats
<1>2. \A k \in GrantStep, at \in Ats :
          /\ [k EXCEPT !.at = at] \in GrantStep
          /\ [k EXCEPT !.at = at].at = at /\ [k EXCEPT !.at = at].id = k.id /\ [k EXCEPT !.at = at].uri = k.uri
  OBVIOUS
<1> QED
  BY <1>1, <1>2

\* A request ends, and only what it is excused from changes.
LEMMA RequestEnds ==
    ASSUME GrantInv, NEW q \in Requests, O!Done(q),
           UNCHANGED <<session, code, token, client, registered>>,
           presented \subseteq presented', oauthExcused \subseteq oauthExcused',
           oauthReq[q].at = "close" => <<"session", oauthReq[q].id>> \in oauthExcused'
    PROVE  GrantInv'
<1>1. Placed(O!Idle)'
  BY StepIs DEF Placed
<1> QED
  BY <1>1, StepIs, RequestKeeps DEF O!Done, O!Set

\* The steps that only take a request further.
LEMMA QuietSteps ==
    ASSUME GrantInv, NEW q \in Requests,
           \/ O!Authorize(q) \/ O!GetClient(q) \/ O!Login(q) \/ O!GetSession(q)
           \/ O!Grant(q) \/ O!Refresh(q) \/ O!CutOff(q)
    PROVE  GrantInv'
<1> USE DEF GrantInv
<1>0. PICK c \in GrantStep : c = oauthReq[q]
  BY DEF GrantTyped
<1>1. CASE O!Authorize(q)
  <2>1. PICK u \in Uris : O!Set(q, [O!Idle EXCEPT !.at = "client", !.uri = u])
    BY <1>1 DEF O!Authorize
  <2> DEFINE k == [O!Idle EXCEPT !.at = "client", !.uri = u]
  <2>2. k \in GrantStep /\ k.at = "client"
    BY DEF GrantStep, O!Idle
  <2> HIDE DEF k
  <2>3. Placed(k)'
    BY <2>2 DEF Placed
  <2>4. oauthReq' = [oauthReq EXCEPT ![q] = k]
    BY <2>1 DEF O!Set, k
  <2> QED
    BY <1>1, <2>2, <2>3, <2>4, RequestKeeps DEF O!Authorize
<1>2. CASE O!GetClient(q)
  <2>1. oauthExcused \subseteq oauthExcused'
    BY <1>2 DEF O!GetClient, O!Excuse
  <2>2. CASE O!Done(q)
    BY <1>2, <2>1, <2>2, RequestEnds DEF O!GetClient
  <2>3. CASE O!Go(q, "session")
    <3> DEFINE k == [c EXCEPT !.at = "session"]
    <3>1. k \in GrantStep /\ k.at = "session"
      BY StepIs DEF Ats
    <3> HIDE DEF k
    <3>2. Placed(k)'
      BY <3>1 DEF Placed
    <3>3. oauthReq' = [oauthReq EXCEPT ![q] = k]
      BY <1>0, <2>3 DEF O!Set, O!Go, k
    <3> QED
      BY <1>2, <2>1, <3>1, <3>2, <3>3, RequestKeeps DEF O!GetClient
  <2>4. CASE O!Go(q, "register") /\ (client = {} \/ <<"client", 0>> \in oauthExcused')
    <3> DEFINE k == [c EXCEPT !.at = "register"]
    <3>1. k \in GrantStep /\ k.at = "register"
      BY StepIs DEF Ats
    <3> HIDE DEF k
    <3>2. Placed(k)'
      BY <3>1 DEF Placed
    <3>3. oauthReq' = [oauthReq EXCEPT ![q] = k]
      BY <1>0, <2>4 DEF O!Set, O!Go, k
    <3> QED
      BY <1>2, <2>1, <2>4, <3>1, <3>2, <3>3, RequestKeeps DEF O!GetClient
  <2> QED
    BY <1>2, <2>2, <2>3, <2>4 DEF O!GetClient, O!Known, O!Excuse
<1>3. CASE O!Login(q)
  <2>1. PICK s \in DOMAIN session : O!Set(q, [O!Idle EXCEPT !.at = "look", !.id = s])
    BY <1>3 DEF O!Login
  <2> DEFINE k == [O!Idle EXCEPT !.at = "look", !.id = s]
  <2>2. k \in GrantStep /\ k.at = "look" /\ k.id = s
    <3>1. s \in Nat
      BY DEF GrantTyped
    <3> QED
      BY <3>1 DEF GrantStep, O!Idle
  <2> HIDE DEF k
  <2>3. Placed(k)'
    BY <1>3, <2>2 DEF Placed, O!Login
  <2>4. oauthReq' = [oauthReq EXCEPT ![q] = k]
    BY <2>1 DEF O!Set, k
  <2> QED
    BY <1>3, <2>2, <2>3, <2>4, RequestKeeps DEF O!Login
<1>4. CASE O!GetSession(q)
  <2>1. CASE O!Done(q)
    BY <1>4, <2>1, RequestEnds DEF O!GetSession
  <2>2. CASE O!Go(q, "code")
    <3> DEFINE k == [c EXCEPT !.at = "code"]
    <3>1. k \in GrantStep /\ k.at = "code" /\ k.id = c.id
      BY StepIs DEF Ats
    <3> HIDE DEF k
    <3>2. Placed(k)'
      BY <1>0, <1>4, <3>1 DEF Placed, Placings, O!GetSession
    <3>3. oauthReq' = [oauthReq EXCEPT ![q] = k]
      BY <1>0, <2>2 DEF O!Set, O!Go, k
    <3> QED
      BY <1>4, <3>1, <3>2, <3>3, RequestKeeps DEF O!GetSession
  <2> QED
    BY <1>4, <2>1, <2>2 DEF O!GetSession
<1>5. CASE O!Grant(q)
  <2>1. PICK d \in DOMAIN code : O!Set(q, [O!Idle EXCEPT !.at = "mark", !.id = d])
    BY <1>5 DEF O!Grant
  <2> DEFINE k == [O!Idle EXCEPT !.at = "mark", !.id = d]
  <2>2. k \in GrantStep /\ k.at = "mark" /\ k.id = d
    <3>1. d \in Nat
      BY DEF GrantTyped
    <3> QED
      BY <3>1 DEF GrantStep, O!Idle
  <2> HIDE DEF k
  <2>3. Placed(k)'
    BY <1>5, <2>2 DEF Placed, O!Grant
  <2>4. oauthReq' = [oauthReq EXCEPT ![q] = k]
    BY <2>1 DEF O!Set, k
  <2> QED
    BY <1>5, <2>2, <2>3, <2>4, RequestKeeps DEF O!Grant
<1>6. CASE O!Refresh(q)
  <2>1. PICK t \in DOMAIN token :
           O!Set(q, [O!Idle EXCEPT !.at = "drop", !.id = t]) /\ presented' = presented \cup {t}
    BY <1>6 DEF O!Refresh
  <2> DEFINE k == [O!Idle EXCEPT !.at = "drop", !.id = t]
  <2>2. k \in GrantStep /\ k.at = "drop" /\ k.id = t
    <3>1. t \in Nat
      BY DEF GrantTyped
    <3> QED
      BY <3>1 DEF GrantStep, O!Idle
  <2> HIDE DEF k
  <2>3. Placed(k)'
    BY <1>6, <2>1, <2>2 DEF Placed, O!Refresh
  <2>4. oauthReq' = [oauthReq EXCEPT ![q] = k]
    BY <2>1 DEF O!Set, k
  <2> QED
    BY <1>6, <2>1, <2>2, <2>3, <2>4, RequestKeeps DEF O!Refresh
<1>7. CASE O!CutOff(q)
  BY <1>7, RequestEnds DEF O!CutOff
<1> QED
  BY <1>1, <1>2, <1>3, <1>4, <1>5, <1>6, <1>7

LEMMA ClientKeeps ==
    ASSUME GrantInv, NEW q \in Requests, O!SaveClient(q)
    PROVE  GrantInv'
<1> USE DEF GrantInv
<1>0. PICK c \in GrantStep : c = oauthReq[q]
  BY DEF GrantTyped
<1> DEFINE k == [c EXCEPT !.at = "session"]
<1>1. k \in GrantStep /\ k.at = "session"
  BY StepIs DEF Ats
<1>2. oauthReq' = [oauthReq EXCEPT ![q] = k]
  BY <1>0 DEF O!SaveClient, O!Go, O!Set
<1> HIDE DEF k
<1>3. \A r \in Requests : oauthReq'[r] = IF r = q THEN k ELSE oauthReq[r]
  BY <1>2 DEF GrantTyped
<1>4. Registrations'
  BY <1>1, <1>3 DEF Registrations, O!SaveClient
<1>5. Placed(k)'
  BY <1>1 DEF Placed
<1> QED
  BY <1>1, <1>2, <1>4, <1>5, RequestMoves DEF O!SaveClient

LEMMA SessionKeeps ==
    ASSUME GrantInv, NEW q \in Requests, O!SaveSession(q)
    PROVE  GrantInv'
<1> USE DEF GrantInv
<1> DEFINE n == Len(session) + 1
           new == [uri |-> oauthReq[q].uri, open |-> TRUE]
<1>1. new \in Session
  BY DEF GrantTyped, Session, GrantStep
<1>2. /\ session' \in Seq(Session) /\ n \in DOMAIN session' /\ n \in Nat
      /\ \A s \in DOMAIN session : s \in DOMAIN session' /\ session'[s] = session[s]
  BY <1>1, AppendIs DEF GrantTyped, O!SaveSession
<1>3. PICK k \in GrantStep : /\ oauthReq' = [oauthReq EXCEPT ![q] = k]
                             /\ k.at = "idle" \/ (k.at = "look" /\ k.id = n)
  <2>1. CASE O!Done(q)
    <3>1. O!Idle \in GrantStep /\ O!Idle.at = "idle" /\ oauthReq' = [oauthReq EXCEPT ![q] = O!Idle]
      BY <2>1, StepIs DEF O!Done, O!Set
    <3> QED
      BY <3>1
  <2>2. CASE O!Set(q, [O!Idle EXCEPT !.at = "look", !.id = n])
    <3>1. /\ [O!Idle EXCEPT !.at = "look", !.id = n] \in GrantStep
          /\ [O!Idle EXCEPT !.at = "look", !.id = n].at = "look"
          /\ [O!Idle EXCEPT !.at = "look", !.id = n].id = n
      BY <1>2 DEF GrantStep, O!Idle
    <3> QED
      BY <2>2, <3>1 DEF O!Set
  <2> QED
    BY <2>1, <2>2 DEF O!SaveSession
<1> HIDE DEF n, new
<1>4. \A r \in Requests : oauthReq'[r] = IF r = q THEN k ELSE oauthReq[r]
  BY <1>3 DEF GrantTyped
<1>5. UNCHANGED <<client, code, token, registered, presented, oauthExcused>> /\ oauthReq[q].at = "session"
  BY DEF O!SaveSession
<1>6. GrantTyped'
  BY <1>2, <1>3, <1>5 DEF GrantTyped
<1>7. Placings'
  <2>1. Placed(oauthReq[q])'
    BY <1>2, <1>3, <1>4 DEF Placed
  <2>2. \A r \in Requests \ {q} : Placed(oauthReq[r])'
    BY <1>2, <1>4, <1>5 DEF Placed, Placings
  <2> QED
    BY <1>2, <1>5, <2>1, <2>2 DEF Placings
<1>8. CodesOnce'
  BY <1>3, <1>4, <1>5 DEF CodesOnce
<1>9. SessionsOnce'
  <2>1. \A r \in Requests : oauthReq[r].at = "close" => oauthReq'[r] = oauthReq[r]
    BY <1>4, <1>5
  <2> QED
    BY <1>2, <1>5, <2>1 DEF SessionsOnce, Placings
<1>10. Chains'
  <2>1. \A r \in Requests : \A d : Saves(r, d)' => Saves(r, d)
    BY <1>3, <1>4, <1>5 DEF Saves
  <2> QED
    BY <1>5, <2>1 DEF Chains, Live
<1>11. O!ToldTokensGood' /\ Registrations'
  BY <1>3, <1>4, <1>5 DEF O!ToldTokensGood, Registrations
<1> QED
  BY <1>6, <1>7, <1>8, <1>9, <1>10, <1>11

\* A code ends the login of its session: another has not, unless the session is excused.
LEMMA CodeKeeps ==
    ASSUME GrantInv, NEW q \in Requests, O!SaveCode(q)
    PROVE  GrantInv'
<1> USE DEF GrantInv
<1>0. PICK c \in GrantStep : c = oauthReq[q]
  BY DEF GrantTyped
<1> DEFINE n == Len(code) + 1
           new == [session |-> c.id, used |-> FALSE, expired |-> FALSE]
           k == [c EXCEPT !.at = "close"]
<1>1. new \in Code /\ new.session = c.id
  BY DEF Code, GrantStep
<1>2. k \in GrantStep /\ k.at = "close" /\ k.id = c.id
  BY StepIs DEF Ats
<1>3. oauthReq' = [oauthReq EXCEPT ![q] = k]
  BY <1>0 DEF O!SaveCode, O!Go, O!Set
<1>4. code' = Append(code, new)
  BY <1>0 DEF O!SaveCode
<1> HIDE DEF k, new
<1>5. /\ code' \in Seq(Code) /\ n \in DOMAIN code' /\ n \notin DOMAIN code /\ code'[n] = new
      /\ \A d \in DOMAIN code' : d \in DOMAIN code \/ d = n
      /\ \A d \in DOMAIN code : d \in DOMAIN code' /\ code'[d] = code[d]
  BY <1>1, <1>4, AppendIs DEF GrantTyped
<1> HIDE DEF n
<1>6. \A r \in Requests : oauthReq'[r] = IF r = q THEN k ELSE oauthReq[r]
  BY <1>3 DEF GrantTyped
<1>7. UNCHANGED <<client, session, token, registered, presented>> /\ c.at = "code"
  BY <1>0 DEF O!SaveCode
<1>8. /\ oauthExcused \subseteq oauthExcused'
      /\ \A d : <<"chain", d>> \in oauthExcused' <=> <<"chain", d>> \in oauthExcused
      /\ <<"client", 0>> \in oauthExcused' <=> <<"client", 0>> \in oauthExcused
      /\ \/ <<"session", c.id>> \in oauthExcused'
         \/ /\ session[c.id].open
            /\ \A r \in Requests \ {q} : ~ (oauthReq[r].at = "close" /\ oauthReq[r].id = c.id)
  BY <1>0 DEF O!SaveCode, O!Others
<1>9. GrantTyped'
  BY <1>2, <1>3, <1>5, <1>7 DEF GrantTyped
<1>10. Placings'
  <2>1. c.id \in DOMAIN session
    BY <1>0, <1>7 DEF Placings, Placed
  <2>2. Placed(oauthReq[q])'
    BY <1>2, <1>6, <1>7, <2>1 DEF Placed
  <2>3. \A r \in Requests \ {q} : Placed(oauthReq[r])'
    BY <1>5, <1>6, <1>7 DEF Placed, Placings
  <2> QED
    BY <1>1, <1>5, <1>7, <2>1, <2>2, <2>3 DEF Placings
<1>11. CodesOnce'
  BY <1>2, <1>6, <1>7 DEF CodesOnce
<1>12. SessionsOnce'
  <2> SUFFICES ASSUME NEW d \in DOMAIN code', <<"session", code'[d].session>> \notin oauthExcused'
      PROVE  /\ \A e \in DOMAIN code' : code'[e].session = code'[d].session => d = e
             /\ \/ ~ session[code'[d].session].open
                \/ \E r \in Requests : oauthReq'[r].at = "close" /\ oauthReq'[r].id = code'[d].session
    BY <1>7 DEF SessionsOnce
  <2>1. CASE code'[d].session = c.id
    <3>1. \A e \in DOMAIN code : code[e].session # c.id
      BY <1>0, <1>7, <1>8, <2>1 DEF SessionsOnce
    <3>2. \A e \in DOMAIN code' : code'[e].session = c.id => e = n
      BY <1>5, <3>1
    <3>3. oauthReq'[q].at = "close" /\ oauthReq'[q].id = c.id
      BY <1>2, <1>6
    <3> QED
      BY <2>1, <3>2, <3>3
  <2>2. CASE code'[d].session # c.id
    <3>1. d \in DOMAIN code /\ code'[d] = code[d]
      BY <1>1, <1>5, <2>2
    <3>2. \A e \in DOMAIN code' : code'[e].session = code[d].session => d = e
      BY <1>1, <1>5, <1>8, <2>2, <3>1 DEF SessionsOnce
    <3>3. \/ ~ session[code[d].session].open
          \/ \E r \in Requests : oauthReq[r].at = "close" /\ oauthReq[r].id = code[d].session
      BY <1>8, <3>1 DEF SessionsOnce
    <3> QED
      BY <1>0, <1>6, <1>7, <3>1, <3>2, <3>3
  <2> QED
    BY <2>1, <2>2
<1>13. Chains'
  <2>1. \A r \in Requests : \A d : Saves(r, d)' => Saves(r, d)
    BY <1>2, <1>6, <1>7 DEF Saves
  <2>2. \A r \in Requests : ~ Saves(r, n)
    BY <1>5 DEF Saves, Placings, Placed
  <2>3. \A t \in DOMAIN token : ~ Live(t, n)
    BY <1>5 DEF Live, Placings
  <2>4. \A t : \A d : Live(t, d)' <=> Live(t, d)
    BY <1>7 DEF Live
  <2> QED
    BY <1>5, <1>7, <1>8, <2>1, <2>2, <2>3, <2>4 DEF Chains
<1>14. O!ToldTokensGood' /\ Registrations'
  BY <1>2, <1>6, <1>7, <1>8 DEF O!ToldTokensGood, Registrations
<1> QED
  BY <1>9, <1>10, <1>11, <1>12, <1>13, <1>14

\* A session is closed, or its request is over and the promise is excused.
LEMMA CloseKeeps ==
    ASSUME GrantInv, NEW q \in Requests, O!DeleteSession(q)
    PROVE  GrantInv'
<1> USE DEF GrantInv
<1>1. CASE O!Excuse(<<"session", oauthReq[q].id>>) /\ UNCHANGED session
  BY <1>1, RequestEnds DEF O!DeleteSession, O!Excuse
<1>2. CASE session' = O!SessionClosed(oauthReq[q].id) /\ UNCHANGED oauthExcused
  <2> DEFINE s == oauthReq[q].id
  <2>1. s \in DOMAIN session /\ oauthReq[q].at = "close"
    BY DEF O!DeleteSession, Placings, Placed
  <2> DEFINE x == [session[s] EXCEPT !.open = FALSE]
  <2>x. x \in Session /\ ~ x.open
    <3>1. session[s] \in Session
      BY <2>1 DEF GrantTyped
    <3> QED
      BY <3>1 DEF Session
  <2>y. session' = [session EXCEPT ![s] = x]
    BY <1>2 DEF O!SessionClosed
  <2> HIDE DEF x, s
  <2>2. /\ DOMAIN session' = DOMAIN session /\ session' \in Seq(Session)
        /\ \A i \in DOMAIN session : session'[i] = IF i = s THEN x ELSE session[i]
    BY <2>1, <2>x, <2>y, PutIs DEF GrantTyped
  <2>3. \A i \in DOMAIN session : session'[i].open => session[i].open /\ i # s
    BY <2>1, <2>x, <2>2
  <2>4. \A r \in Requests : oauthReq'[r] = IF r = q THEN O!Idle ELSE oauthReq[r]
    BY DEF O!DeleteSession, O!Done, O!Set, GrantTyped
  <2>5. UNCHANGED <<client, code, token, registered, presented>>
    BY DEF O!DeleteSession
  <2>6. GrantTyped'
    BY <2>2, <2>5, StepIs DEF GrantTyped, O!DeleteSession, O!Done, O!Set
  <2>7. Placings'
    <3>1. \A r \in Requests : Placed(oauthReq[r])'
      BY <2>2, <2>4, <2>5, StepIs DEF Placed, Placings
    <3> QED
      BY <2>2, <2>5, <3>1 DEF Placings
  <2>8. CodesOnce'
    BY <2>4, <2>5, StepIs DEF CodesOnce
  <2>9. SessionsOnce'
    <3> SUFFICES ASSUME NEW d \in DOMAIN code, <<"session", code[d].session>> \notin oauthExcused
        PROVE  /\ \A e \in DOMAIN code : code[e].session = code[d].session => d = e
               /\ \/ ~ session'[code[d].session].open
                  \/ \E r \in Requests : oauthReq'[r].at = "close" /\ oauthReq'[r].id = code[d].session
      BY <1>2, <2>5 DEF SessionsOnce
    <3>1. code[d].session \in DOMAIN session
      BY DEF Placings
    <3> QED
      BY <2>3, <2>4, <3>1 DEF SessionsOnce, s
  <2>10. Chains'
    <3>1. \A r \in Requests : \A d : Saves(r, d)' => Saves(r, d)
      BY <2>4, <2>5, StepIs DEF Saves
    <3> QED
      BY <1>2, <2>5, <3>1 DEF Chains, Live
  <2>11. O!ToldTokensGood' /\ Registrations'
    BY <1>2, <2>4, <2>5, StepIs DEF O!ToldTokensGood, Registrations
  <2> QED
    BY <2>6, <2>7, <2>8, <2>9, <2>10, <2>11
<1> QED
  BY <1>1, <1>2 DEF O!DeleteSession

\* A code is marked by one request, while no token follows from it.
LEMMA MarkKeeps ==
    ASSUME GrantInv, NEW q \in Requests, O!MarkCodeUsed(q)
    PROVE  GrantInv'
<1> USE DEF GrantInv
<1>1. CASE O!Done(q) /\ UNCHANGED code
  BY <1>1, RequestEnds DEF O!MarkCodeUsed
<1>2. CASE O!Fresh(oauthReq[q].id) /\ code' = [code EXCEPT ![oauthReq[q].id].used = TRUE] /\ O!Go(q, "mint")
  <2>0. PICK c \in GrantStep : c = oauthReq[q]
    BY DEF GrantTyped
  <2> DEFINE k == [c EXCEPT !.at = "mint"]
             i == c.id
  <2>1. k \in GrantStep /\ k.at = "mint" /\ k.id = i
    BY StepIs DEF Ats
  <2>2. oauthReq' = [oauthReq EXCEPT ![q] = k]
    BY <1>2, <2>0 DEF O!Go, O!Set
  <2>3. i \in DOMAIN code /\ c.at = "mark" /\ ~ code[i].used
    BY <1>2, <2>0 DEF O!MarkCodeUsed, Placings, Placed, O!Fresh
  <2> HIDE DEF k, i
  <2>4. \A r \in Requests : oauthReq'[r] = IF r = q THEN k ELSE oauthReq[r]
    BY <2>2 DEF GrantTyped
  <2>5. code' = [code EXCEPT ![i].used = TRUE]
    BY <1>2, <2>0 DEF i
  <2>6. /\ DOMAIN code' = DOMAIN code /\ code' \in Seq(Code)
        /\ \A d \in DOMAIN code : code'[d].session = code[d].session /\ code'[d].used = (code[d].used \/ d = i)
    <3> DEFINE x == [code[i] EXCEPT !.used = TRUE]
    <3>1. x \in Code /\ x.used = TRUE /\ x.session = code[i].session
      <4>1. code[i] \in Code
        BY <2>3 DEF GrantTyped
      <4> QED
        BY <4>1 DEF Code
    <3>2. code' = [code EXCEPT ![i] = x]
      BY <2>5
    <3> HIDE DEF x
    <3>3. /\ DOMAIN code' = DOMAIN code /\ code' \in Seq(Code)
          /\ \A d \in DOMAIN code : code'[d] = IF d = i THEN x ELSE code[d]
      BY <2>3, <3>1, <3>2, PutIs DEF GrantTyped
    <3>4. \A d \in DOMAIN code : code[d].used \in BOOLEAN
      <4>1. \A d \in DOMAIN code : code[d] \in Code
        BY DEF GrantTyped
      <4> QED
        BY <4>1 DEF Code
    <3> QED
      BY <2>3, <3>1, <3>3, <3>4
  <2>7. UNCHANGED <<client, session, token, registered, presented, oauthExcused>>
    BY DEF O!MarkCodeUsed
  <2>8. GrantTyped'
    BY <2>1, <2>2, <2>6, <2>7 DEF GrantTyped
  <2>9. Placings'
    <3>1. Placed(k)'
      BY <2>1, <2>3, <2>6 DEF Placed
    <3>2. \A r \in Requests \ {q} : Placed(oauthReq[r])'
      BY <2>4, <2>6, <2>7 DEF Placed, Placings
    <3>3. \A r \in Requests : Placed(oauthReq[r])'
      BY <2>1, <2>3, <2>4, <2>6, <2>7, <3>2 DEF Placed
    <3> QED
      BY <2>6, <2>7, <3>3 DEF Placings
  <2>10. CodesOnce'
    <3>1. \A r \in Requests : oauthReq[r].at = "mint" => oauthReq[r].id # i
      BY <2>3 DEF Placings, Placed
    <3>2. \A t \in DOMAIN token : token[t].code # i
      BY <2>3 DEF Placings
    <3> QED
      BY <2>1, <2>4, <2>7, <3>1, <3>2 DEF CodesOnce
  <2>11. SessionsOnce'
    <3>1. \A r \in Requests : oauthReq[r].at = "close" => oauthReq'[r] = oauthReq[r]
      BY <2>0, <2>3, <2>4
    <3> QED
      BY <2>6, <2>7, <3>1 DEF SessionsOnce
  <2>12. Chains'
    <3>1. \A r \in Requests : \A d : Saves(r, d)' => Saves(r, d)
      BY <2>1, <2>4, <2>7 DEF Saves
    <3> QED
      BY <2>6, <2>7, <3>1 DEF Chains, Live
  <2>13. O!ToldTokensGood' /\ Registrations'
    BY <2>1, <2>4, <2>7 DEF O!ToldTokensGood, Registrations
  <2> QED
    BY <2>8, <2>9, <2>10, <2>11, <2>12, <2>13
<1> QED
  BY <1>1, <1>2 DEF O!MarkCodeUsed

\* A token that is dropped live stood for its chain, and its request stands for it then.
LEMMA DropKeeps ==
    ASSUME GrantInv, NEW q \in Requests, O!DeleteToken(q)
    PROVE  GrantInv'
<1> USE DEF GrantInv
<1>0. PICK c \in GrantStep : c = oauthReq[q]
  BY DEF GrantTyped
<1> DEFINE k == [c EXCEPT !.at = "save"]
           t == c.id
<1>1. k \in GrantStep /\ k.at = "save" /\ k.id = t
  BY StepIs DEF Ats
<1>2. oauthReq' = [oauthReq EXCEPT ![q] = k]
  BY <1>0 DEF O!DeleteToken, O!Go, O!Set
<1>3. t \in DOMAIN token /\ t \in presented /\ c.at = "drop"
  BY <1>0 DEF O!DeleteToken, Placings, Placed
<1>4. /\ oauthExcused \subseteq oauthExcused'
      /\ \A d : <<"session", d>> \in oauthExcused' <=> <<"session", d>> \in oauthExcused
      /\ <<"client", 0>> \in oauthExcused' <=> <<"client", 0>> \in oauthExcused
      /\ \/ <<"chain", token[t].code>> \in oauthExcused'
         \/ token[t].live /\ token' = O!TokenDropped(t)
  <2>1. \/ oauthExcused' = oauthExcused \cup {<<"chain", token[t].code>>}
        \/ oauthExcused' = oauthExcused /\ token[t].live /\ token' = O!TokenDropped(t)
    BY <1>0 DEF O!DeleteToken, O!Excuse
  <2> QED
    BY <2>1
<1>5. UNCHANGED <<client, session, code, registered, presented>>
  BY DEF O!DeleteToken
<1>6. token' = O!TokenDropped(t) \/ token' = token
  BY <1>0 DEF O!DeleteToken
<1> HIDE DEF k, t
<1>7. /\ DOMAIN token' = DOMAIN token /\ token' \in Seq(Token)
      /\ \A u \in DOMAIN token : token'[u].code = token[u].code /\ token'[u].after = token[u].after
                              /\ (token'[u].live => token[u].live)
                              /\ (token[u].live => token'[u].live \/ u = t)
  <2>1. CASE token' = token
    BY <2>1 DEF GrantTyped
  <2>2. CASE token' = O!TokenDropped(t)
    BY <1>3, <2>2, TokenOff DEF GrantTyped, O!TokenDropped
  <2> QED
    BY <1>6, <2>1, <2>2
<1>8. token' = O!TokenDropped(t) => ~ token'[t].live
  BY <1>3, TokenOff DEF O!TokenDropped, GrantTyped
<1>9. \A r \in Requests : oauthReq'[r] = IF r = q THEN k ELSE oauthReq[r]
  BY <1>2 DEF GrantTyped
<1>10. GrantTyped'
  BY <1>1, <1>2, <1>5, <1>7 DEF GrantTyped
<1>11. Placings'
  <2>1. \A r \in Requests : Placed(oauthReq[r])'
    BY <1>1, <1>3, <1>5, <1>7, <1>9 DEF Placed, Placings
  <2> QED
    BY <1>5, <1>7, <2>1 DEF Placings
<1>12. CodesOnce'
  BY <1>1, <1>7, <1>9 DEF CodesOnce
<1>13. SessionsOnce'
  <2>1. \A r \in Requests : oauthReq[r].at = "close" => oauthReq'[r] = oauthReq[r]
    BY <1>0, <1>3, <1>9
  <2> QED
    BY <1>4, <1>5, <2>1 DEF SessionsOnce
<1>14. Chains'
  <2> SUFFICES ASSUME NEW d \in DOMAIN code, <<"chain", d>> \notin oauthExcused'
      PROVE  /\ \A u, v \in DOMAIN token : Live(u, d)' /\ Live(v, d)' => u = v
             /\ \A p, r \in Requests : Saves(p, d)' /\ Saves(r, d)' => p = r
             /\ \A p \in Requests, u \in DOMAIN token : ~ (Saves(p, d)' /\ Live(u, d)')
    BY <1>5, <1>7 DEF Chains
  <2>1. <<"chain", d>> \notin oauthExcused
    BY <1>4
  <2>2. \A u \in DOMAIN token : Live(u, d)' => Live(u, d)
    BY <1>7 DEF Live
  <2>3. \A r \in Requests : r # q => (Saves(r, d)' => Saves(r, d))
    BY <1>7, <1>9 DEF Saves, Placings, Placed
  <2>4. CASE d = token[t].code
    <3>1. Live(t, d) /\ ~ Live(t, d)'
      BY <1>4, <1>8, <2>4 DEF Live
    <3>2. \A u \in DOMAIN token : ~ Live(u, d)'
      BY <1>3, <2>1, <2>2, <3>1 DEF Chains
    <3>3. \A r \in Requests : Saves(r, d)' => r = q
      BY <1>3, <2>1, <2>3, <3>1 DEF Chains
    <3> QED
      BY <3>2, <3>3
  <2>5. CASE d # token[t].code
    <3>1. ~ Saves(q, d)'
      BY <1>1, <1>3, <1>7, <1>9, <2>5 DEF Saves
    <3> QED
      BY <2>1, <2>2, <2>3, <3>1 DEF Chains
  <2> QED
    BY <2>4, <2>5
<1>15. O!ToldTokensGood'
  BY <1>3, <1>4, <1>5, <1>7 DEF O!ToldTokensGood
<1>16. Registrations'
  BY <1>1, <1>4, <1>5, <1>9 DEF Registrations
<1> QED
  BY <1>10, <1>11, <1>12, <1>13, <1>14, <1>15, <1>16

\* What expires stands for nothing any more.
LEMMA ExpiryKeeps ==
    ASSUME GrantInv, O!Expire
    PROVE  GrantInv'
<1> USE DEF GrantInv
<1>1. UNCHANGED <<client, session, oauthReq, registered, presented>>
  BY DEF O!Expire
<1>2. CASE \E c \in DOMAIN code : code' = [code EXCEPT ![c].expired = TRUE] /\ UNCHANGED <<token, oauthExcused>>
  <2>1. PICK c \in DOMAIN code : code' = [code EXCEPT ![c].expired = TRUE]
    BY <1>2
  <2>2. /\ DOMAIN code' = DOMAIN code /\ code' \in Seq(Code)
        /\ \A d \in DOMAIN code : code'[d].session = code[d].session /\ code'[d].used = code[d].used
    <3> DEFINE x == [code[c] EXCEPT !.expired = TRUE]
    <3>1. x \in Code /\ x.used = code[c].used /\ x.session = code[c].session
      <4>1. code[c] \in Code
        BY DEF GrantTyped
      <4> QED
        BY <4>1 DEF Code
    <3>2. code' = [code EXCEPT ![c] = x]
      BY <2>1
    <3> HIDE DEF x
    <3> QED
      BY <3>1, <3>2, PutIs DEF GrantTyped
  <2>3. GrantTyped' /\ CodesOnce'
    BY <1>1, <1>2, <2>2 DEF GrantTyped, CodesOnce
  <2>4. Placings'
    <3>1. \A r \in Requests : Placed(oauthReq[r])'
      BY <1>1, <1>2, <2>2 DEF Placed, Placings
    <3> QED
      BY <1>1, <1>2, <2>2, <3>1 DEF Placings
  <2>5. SessionsOnce'
    BY <1>1, <1>2, <2>2 DEF SessionsOnce
  <2>6. Chains' /\ O!ToldTokensGood' /\ Registrations'
    BY <1>1, <1>2, <2>2 DEF Chains, Live, Saves, O!ToldTokensGood, Registrations
  <2> QED
    BY <2>3, <2>4, <2>5, <2>6
<1>3. CASE \E t \in DOMAIN token : /\ token' = [token EXCEPT ![t].live = FALSE]
                                  /\ O!Excuse(<<"token", t>>) /\ UNCHANGED code
  <2>1. PICK t \in DOMAIN token : token' = [token EXCEPT ![t].live = FALSE] /\ O!Excuse(<<"token", t>>)
    BY <1>3
  <2>2. /\ DOMAIN token' = DOMAIN token /\ token' \in Seq(Token)
        /\ \A u \in DOMAIN token : token'[u].code = token[u].code /\ token'[u].after = token[u].after
                                /\ (token'[u].live => token[u].live)
                                /\ (token[u].live => token'[u].live \/ u = t)
    BY <2>1, TokenOff DEF GrantTyped
  <2>3. /\ oauthExcused \subseteq oauthExcused' /\ <<"token", t>> \in oauthExcused'
        /\ \A d : <<"session", d>> \in oauthExcused' <=> <<"session", d>> \in oauthExcused
        /\ <<"client", 0>> \in oauthExcused' <=> <<"client", 0>> \in oauthExcused
    BY <2>1 DEF O!Excuse
  <2>4. GrantTyped' /\ CodesOnce'
    BY <1>1, <1>3, <2>2 DEF GrantTyped, CodesOnce
  <2>5. Placings'
    <3>1. \A r \in Requests : Placed(oauthReq[r])'
      BY <1>1, <1>3, <2>2 DEF Placed, Placings
    <3> QED
      BY <1>1, <1>3, <2>2, <3>1 DEF Placings
  <2>6. SessionsOnce' /\ O!ToldTokensGood' /\ Registrations'
    BY ZenonT(60), <1>1, <1>3, <2>2, <2>3 DEF SessionsOnce, O!ToldTokensGood, Registrations
  <2>7. Chains'
    <3>1. \A r \in Requests : \A d : Saves(r, d)' => Saves(r, d)
      BY <1>1, <2>2 DEF Saves, Placings, Placed
    <3>2. \A u \in DOMAIN token : \A d : Live(u, d)' => Live(u, d)
      BY <2>2 DEF Live
    <3> QED
      BY <1>3, <2>2, <2>3, <3>1, <3>2 DEF Chains
  <2> QED
    BY <2>4, <2>5, <2>6, <2>7
<1> QED
  BY <1>2, <1>3 DEF O!Expire

LEMMA AtMostOne ==
    ASSUME NEW these, \A x, y \in these : x = y
    PROVE  O!Cardinality(these) <= 1
<1>1. CASE these = {}
  BY <1>1, FS_EmptySet DEF O!Cardinality, Cardinality
<1>2. CASE these # {}
  <2>1. PICK x \in these : TRUE
    BY <1>2
  <2>2. these = {x}
    BY <2>1
  <2> QED
    <3>1. Cardinality(these) = 1
      BY <2>2, FS_Singleton
    <3>2. O!Cardinality(these) = Cardinality(these)
      BY DEF O!Cardinality, Cardinality
    <3> QED
      BY <3>1, <3>2
<1> QED
  BY <1>1, <1>2

\* GrantInv is inductive.
LEMMA GrantNext ==
    ASSUME GrantInv, [O!Next]_O!oauthVars
    PROVE  GrantInv'
<1>1. CASE UNCHANGED O!oauthVars
  <2>1. /\ UNCHANGED <<client, session, code, token, oauthReq, registered, presented, oauthExcused>>
    BY <1>1 DEF O!oauthVars
  <2>2. GrantTyped' /\ CodesOnce' /\ SessionsOnce' /\ O!ToldTokensGood' /\ Registrations'
    BY <2>1 DEF GrantInv, GrantTyped, CodesOnce, SessionsOnce, O!ToldTokensGood, Registrations
  <2>3. Placings' /\ Chains'
    BY <2>1 DEF GrantInv, Placings, Placed, Chains, Live, Saves
  <2> QED
    BY <2>2, <2>3 DEF GrantInv
<1>2. ASSUME NEW q \in Requests, O!SaveFirst(q) PROVE GrantInv'
  <2>1. PICK c \in DOMAIN code : c = oauthReq[q].id /\ code[c].used /\ oauthReq[q].at = "mint"
    BY <1>2 DEF GrantInv, Placings, Placed, O!SaveFirst
  <2>2. O!Saves(q, c, 0) /\ UNCHANGED <<session, code, client, registered, presented>>
    BY <1>2, <2>1 DEF O!SaveFirst
  <2> QED
    BY <2>1, <2>2, TokenKeeps
<1>3. ASSUME NEW q \in Requests, O!SaveNext(q) PROVE GrantInv'
  <2>1. PICK t \in DOMAIN token : t = oauthReq[q].id /\ oauthReq[q].at = "save"
    BY <1>3 DEF GrantInv, Placings, Placed, O!SaveNext
  <2>2. PICK c \in DOMAIN code : c = token[t].code /\ code[c].used
    BY DEF GrantInv, Placings
  <2>3. t \in Nat /\ t # 0
    BY DEF GrantInv, GrantTyped
  <2>4. O!Saves(q, c, t) /\ UNCHANGED <<session, code, client, registered, presented>>
    BY <1>3, <2>1, <2>2 DEF O!SaveNext
  <2> QED
    BY <2>1, <2>2, <2>3, <2>4, TokenKeeps
<1> QED
  BY <1>1, <1>2, <1>3, QuietSteps, ClientKeeps, SessionKeeps, CodeKeeps, CloseKeeps, MarkKeeps,
     DropKeeps, ExpiryKeeps DEF O!Next

LEMMA GrantInit == ASSUME O!Init PROVE GrantInv
<1>1. \A q \in Requests : oauthReq[q] = O!Idle
  BY DEF O!Init
<1>2. GrantTyped
  BY StepIs DEF O!Init, GrantTyped
<1>3. Placings
  BY <1>1, StepIs DEF Placings, Placed, O!Init
<1>4. CodesOnce /\ SessionsOnce /\ Chains
  BY <1>1, StepIs DEF CodesOnce, SessionsOnce, Chains, O!Init
<1>5. O!ToldTokensGood /\ Registrations
  BY <1>1, StepIs DEF O!ToldTokensGood, Registrations, O!Init
<1> QED
  BY <1>2, <1>3, <1>4, <1>5 DEF GrantInv

\* Whatever the order in which requests interleave and whichever of their statements fail: a
\* login ends in one code and a code in one chain of refresh tokens, a chain has one live token,
\* a token the client was told and has not presented is good, and a registration stays; each but
\* the second unless an overlap or a failure excuses it (internal/auth/oauth_server.go,
\* oauth_store_postgres.go).
THEOREM GrantsAreSound == O!Spec => []O!GrantsSound
<1>1. O!Init => GrantInv
  BY GrantInit
<1>2. GrantInv /\ [O!Next]_O!oauthVars => GrantInv'
  BY GrantNext
<1>3. GrantInv => O!GrantsSound
  <2> SUFFICES ASSUME GrantInv PROVE O!GrantsSound
    OBVIOUS
  <2>1. O!CodeOnce
    <3> SUFFICES ASSUME NEW c \in DOMAIN code
        PROVE  O!Cardinality({t \in DOMAIN token : token[t].code = c /\ token[t].after = 0}) <= 1
      BY DEF O!CodeOnce
    <3> DEFINE these == {t \in DOMAIN token : token[t].code = c /\ token[t].after = 0}
    <3>1. \A x, y \in these : x = y
      BY DEF GrantInv, CodesOnce
    <3> HIDE DEF these
    <3>2. O!Cardinality(these) <= 1
      BY <3>1, AtMostOne
    <3> QED
      BY <3>2 DEF these
  <2>2. O!SessionOnce
    <3> SUFFICES ASSUME NEW s \in DOMAIN session, <<"session", s>> \notin oauthExcused
        PROVE  O!Cardinality({c \in DOMAIN code : code[c].session = s}) <= 1
      BY DEF O!SessionOnce
    <3> DEFINE these == {c \in DOMAIN code : code[c].session = s}
    <3>1. \A x, y \in these : x = y
      BY DEF GrantInv, SessionsOnce
    <3> HIDE DEF these
    <3>2. O!Cardinality(these) <= 1
      BY <3>1, AtMostOne
    <3> QED
      BY <3>2 DEF these
  <2>3. O!ChainLinear
    <3> SUFFICES ASSUME NEW c \in DOMAIN code, <<"chain", c>> \notin oauthExcused
        PROVE  O!Cardinality({t \in DOMAIN token : token[t].code = c /\ token[t].live}) <= 1
      BY DEF O!ChainLinear
    <3> DEFINE these == {t \in DOMAIN token : token[t].code = c /\ token[t].live}
    <3>1. \A x, y \in these : x = y
      BY DEF GrantInv, Chains, Live
    <3> HIDE DEF these
    <3>2. O!Cardinality(these) <= 1
      BY <3>1, AtMostOne
    <3> QED
      BY <3>2 DEF these
  <2> QED
    BY <2>1, <2>2, <2>3 DEF O!GrantsSound, O!RegistrationStays, GrantInv, Registrations
<1> QED
  BY <1>1, <1>2, <1>3, PTL DEF O!Spec

------------------------------------------------------------------------------
\* What the types of OAuth say beyond GrantTyped.
Addressed ==
    /\ client \subseteq Uris
    /\ \A s \in DOMAIN session : session[s].uri \in Uris
    /\ \A q \in Requests : oauthReq[q].at \in {"client", "register", "session"} => oauthReq[q].uri \in Uris
    /\ \A t \in DOMAIN token : token[t].after \in 0..(t - 1)
    /\ oauthCame \in 0..OAuthRequests /\ oauthFaults \in 0..OAuthFaults

GrantBounds == OAuthRequests \in Nat /\ OAuthFaults \in Nat

LEMMA CountersKept ==
    ASSUME GrantBounds, Addressed, O!Next
    PROVE  oauthCame' \in 0..OAuthRequests /\ oauthFaults' \in 0..OAuthFaults
<1>1. /\ oauthCame' = oauthCame \/ (oauthCame < OAuthRequests /\ oauthCame' = oauthCame + 1)
      /\ oauthFaults' = oauthFaults \/ (oauthFaults < OAuthFaults /\ oauthFaults' = oauthFaults + 1)
  <2>1. ASSUME NEW q \in Requests, O!Authorize(q) \/ O!Login(q) \/ O!Grant(q) \/ O!Refresh(q)
        PROVE  oauthCame < OAuthRequests /\ oauthCame' = oauthCame + 1 /\ oauthFaults' = oauthFaults
    BY <2>1, Zenon DEF O!Authorize, O!Login, O!Grant, O!Refresh, O!Come
  <2>2. ASSUME NEW q \in Requests, O!SaveClient(q) \/ O!SaveSession(q) \/ O!GetSession(q) \/ O!SaveCode(q) \/ O!MarkCodeUsed(q)
        PROVE  oauthCame' = oauthCame /\ oauthFaults' = oauthFaults
    BY <2>2, Zenon DEF O!SaveClient, O!SaveSession, O!GetSession, O!SaveCode, O!MarkCodeUsed
  <2>3. ASSUME NEW q \in Requests,
               \/ O!GetClient(q) \/ O!DeleteSession(q) \/ O!SaveFirst(q) \/ O!DeleteToken(q) \/ O!SaveNext(q)
               \/ O!CutOff(q) \/ O!Expire
        PROVE  oauthCame' = oauthCame /\ (oauthFaults' = oauthFaults \/ O!Faulty)
    BY <2>3, Zenon DEF O!GetClient, O!DeleteSession, O!SaveFirst, O!DeleteToken, O!SaveNext, O!Saves, O!CutOff, O!Expire
  <2>4. CASE O!Expire
    BY <2>4, Zenon DEF O!Expire, O!Faulty
  <2> QED
    BY <2>1, <2>2, <2>3, <2>4 DEF O!Next, O!Faulty
<1> QED
  BY <1>1 DEF Addressed, GrantBounds

LEMMA AddressesKept ==
    ASSUME GrantInv, Addressed, O!Next
    PROVE  /\ client' \subseteq Uris
           /\ \A s \in DOMAIN session' : session'[s].uri \in Uris
<1>1. ASSUME NEW q \in Requests, O!SaveClient(q)
      PROVE  client' \subseteq Uris /\ session' = session
  BY <1>1 DEF O!SaveClient, Addressed
<1>2. ASSUME NEW q \in Requests, O!SaveSession(q)
      PROVE  client' = client /\ \A s \in DOMAIN session' : session'[s].uri \in Uris
  <2>1. PICK x \in Session : x = [uri |-> oauthReq[q].uri, open |-> TRUE]
    BY <1>2 DEF O!SaveSession, Addressed, Session
  <2>2. client' = client /\ session' = Append(session, x) /\ x.uri \in Uris
    BY <1>2, <2>1 DEF O!SaveSession, Addressed
  <2>3. session \in Seq(Session)
    BY DEF GrantInv, GrantTyped
  <2> QED
    BY <2>2, <2>3, AppendIs DEF Addressed
<1>3. ASSUME NEW q \in Requests, O!DeleteSession(q)
      PROVE  client' = client /\ \A s \in DOMAIN session' : session'[s].uri \in Uris
  <2>1. CASE session' = O!SessionClosed(oauthReq[q].id)
    BY <1>3, <2>1 DEF O!DeleteSession, O!SessionClosed, Addressed, GrantInv, GrantTyped, Session
  <2>2. CASE session' = session
    BY <1>3, <2>2 DEF O!DeleteSession, Addressed
  <2> QED
    BY <1>3, <2>1, <2>2 DEF O!DeleteSession
<1>4. ASSUME NEW q \in Requests,
             \/ O!Authorize(q) \/ O!GetClient(q) \/ O!Login(q) \/ O!GetSession(q) \/ O!SaveCode(q)
             \/ O!Grant(q) \/ O!MarkCodeUsed(q) \/ O!SaveFirst(q)
             \/ O!Refresh(q) \/ O!DeleteToken(q) \/ O!SaveNext(q) \/ O!CutOff(q)
      PROVE  client' = client /\ session' = session
  BY <1>4, Zenon DEF O!Authorize, O!GetClient, O!Login, O!GetSession, O!SaveCode, O!Grant,
     O!MarkCodeUsed, O!SaveFirst, O!Refresh, O!DeleteToken, O!SaveNext, O!CutOff
<1>5. ASSUME O!Expire PROVE client' = client /\ session' = session
  BY <1>5, Zenon DEF O!Expire
<1> QED
  BY <1>1, <1>2, <1>3, <1>4, <1>5 DEF O!Next, Addressed

LEMMA AskedKept ==
    ASSUME GrantInv, Addressed, O!Next, NEW r \in Requests,
           oauthReq'[r].at \in {"client", "register", "session"}
    PROVE  oauthReq'[r].uri \in Uris
<1> DEFINE Asks(k) == k.at \in {"client", "register", "session"}
<1>1. ASSUME NEW q \in Requests, NEW k \in GrantStep, O!Set(q, k), Asks(k) => k.uri \in Uris
      PROVE  oauthReq'[r].uri \in Uris
  <2>1. oauthReq'[r] = IF r = q THEN k ELSE oauthReq[r]
    BY <1>1 DEF O!Set, GrantInv, GrantTyped
  <2> QED
    BY <1>1, <2>1 DEF Addressed
<1>2. ASSUME NEW q \in Requests, NEW at \in Ats, O!Go(q, at),
             at \in {"client", "register", "session"} => oauthReq[q].at \in {"client", "register"}
      PROVE  oauthReq'[r].uri \in Uris
  <2>1. PICK c \in GrantStep : c = oauthReq[q]
    BY DEF GrantInv, GrantTyped
  <2> DEFINE k == [c EXCEPT !.at = at]
  <2>2. k \in GrantStep /\ k.at = at /\ k.uri = c.uri
    BY StepIs
  <2>3. O!Set(q, k)
    BY <1>2, <2>1 DEF O!Go
  <2> HIDE DEF k
  <2> QED
    BY <1>1, <1>2, <2>1, <2>2, <2>3 DEF Addressed
<1>3. ASSUME NEW q \in Requests, O!Done(q) PROVE oauthReq'[r].uri \in Uris
  BY <1>1, <1>3, StepIs DEF O!Done
<1>4. ASSUME NEW q \in Requests, O!Authorize(q) PROVE oauthReq'[r].uri \in Uris
  <2>1. PICK u \in Uris : O!Set(q, [O!Idle EXCEPT !.at = "client", !.uri = u])
    BY <1>4 DEF O!Authorize
  <2> DEFINE k == [O!Idle EXCEPT !.at = "client", !.uri = u]
  <2>2. k \in GrantStep /\ k.uri = u
    BY DEF GrantStep, O!Idle
  <2> HIDE DEF k
  <2>3. O!Set(q, k)
    BY <2>1 DEF k
  <2> QED
    BY <1>1, <2>2, <2>3
<1>5. ASSUME NEW q \in Requests, NEW n \in Nat, NEW at \in {"look", "mark", "drop"},
             O!Set(q, [O!Idle EXCEPT !.at = at, !.id = n])
      PROVE  oauthReq'[r].uri \in Uris
  <2> DEFINE k == [O!Idle EXCEPT !.at = at, !.id = n]
  <2>1. k \in GrantStep /\ k.at = at
    BY DEF GrantStep, O!Idle
  <2> HIDE DEF k
  <2>2. O!Set(q, k)
    BY <1>5 DEF k
  <2> QED
    BY <1>1, <2>1, <2>2
<1>6. session \in Seq(Session) /\ code \in Seq(Code) /\ token \in Seq(Token) /\ Len(session) + 1 \in Nat
  BY DEF GrantInv, GrantTyped
<1>7. \A i : i \in DOMAIN session \/ i \in DOMAIN code \/ i \in DOMAIN token => i \in Nat
  BY SMTT(30), <1>6
<1>8. ASSUME NEW q \in Requests, O!SaveSession(q) \/ O!Login(q) \/ O!Grant(q) \/ O!Refresh(q)
      PROVE  oauthReq'[r].uri \in Uris
  <2>1. \/ O!Done(q)
        \/ \E n \in Nat, at \in {"look", "mark", "drop"} : O!Set(q, [O!Idle EXCEPT !.at = at, !.id = n])
    BY <1>6, <1>7, <1>8 DEF O!SaveSession, O!Login, O!Grant, O!Refresh
  <2> QED
    BY ZenonT(60), <1>3, <1>5, <2>1
<1>9. ASSUME NEW q \in Requests, O!GetClient(q) \/ O!SaveClient(q)
      PROVE  oauthReq'[r].uri \in Uris
  <2>1. O!Done(q) \/ \E at \in {"register", "session"} : O!Go(q, at)
    BY <1>9 DEF O!GetClient, O!SaveClient
  <2>2. oauthReq[q].at \in {"client", "register"}
    BY <1>9 DEF O!GetClient, O!SaveClient
  <2> QED
    BY <1>2, <1>3, <2>1, <2>2 DEF Ats
<1>10. ASSUME NEW q \in Requests,
              \/ O!GetSession(q) \/ O!SaveCode(q) \/ O!DeleteSession(q) \/ O!MarkCodeUsed(q)
              \/ O!SaveFirst(q) \/ O!DeleteToken(q) \/ O!SaveNext(q) \/ O!CutOff(q)
       PROVE  oauthReq'[r].uri \in Uris
  <2>1. O!Done(q) \/ \E at \in {"code", "close", "mint", "save"} : O!Go(q, at)
    BY <1>10 DEF O!GetSession, O!SaveCode, O!DeleteSession, O!MarkCodeUsed, O!SaveFirst, O!DeleteToken,
       O!SaveNext, O!CutOff, O!Saves
  <2> QED
    BY <1>2, <1>3, <2>1 DEF Ats
<1>11. ASSUME O!Expire PROVE oauthReq'[r].uri \in Uris
  BY <1>11 DEF O!Expire, Addressed
<1> QED
  BY <1>4, <1>8, <1>9, <1>10, <1>11 DEF O!Next

LEMMA OrderKept ==
    ASSUME GrantInv, Addressed, O!Next, NEW t \in DOMAIN token' PROVE token'[t].after \in 0..(t - 1)
<1>1. /\ token \in Seq(Token) /\ \A q \in Requests : oauthReq[q].at = "save" => oauthReq[q].id \in DOMAIN token
  BY DEF GrantInv, GrantTyped, Placings, Placed
<1>2. ASSUME token' = token PROVE token'[t].after \in 0..(t - 1)
  BY <1>2 DEF Addressed
<1>3. ASSUME NEW u \in DOMAIN token, token' = [token EXCEPT ![u].live = FALSE]
      PROVE  token'[t].after \in 0..(t - 1)
  <2>1. DOMAIN token' = DOMAIN token /\ \A j \in DOMAIN token : token'[j].after = token[j].after
    BY <1>1, <1>3, TokenOff
  <2> QED
    BY <2>1 DEF Addressed
<1>4. ASSUME NEW q \in Requests, NEW c \in Nat, NEW after \in Nat, O!Saves(q, c, after), after = 0 \/ after \in DOMAIN token
      PROVE  token'[t].after \in 0..(t - 1)
  <2>1. PICK x \in Token : token' = Append(token, x) /\ x.after = after
    <3>1. PICK live \in BOOLEAN : token' = Append(token, [code |-> c, after |-> after, live |-> live])
      BY <1>4 DEF O!Saves
    <3> QED
      BY <3>1 DEF Token
  <2>2. DOMAIN token = 1..Len(token) /\ Len(token) \in Nat
    BY <1>1
  <2>3. /\ t \in DOMAIN token \/ t = Len(token) + 1
        /\ t \in DOMAIN token => token'[t] = token[t]
        /\ t = Len(token) + 1 => token'[t] = x
    BY <1>1, <2>1, AppendIs
  <2>4. after \in 0..Len(token)
    BY <1>4, <2>2
  <2> QED
    BY <2>1, <2>2, <2>3, <2>4 DEF Addressed
<1>5. ASSUME NEW q \in Requests, O!SaveFirst(q) PROVE token'[t].after \in 0..(t - 1)
  <2>1. O!Saves(q, oauthReq[q].id, 0) /\ oauthReq[q].id \in Nat
    BY <1>5 DEF O!SaveFirst, GrantInv, GrantTyped, GrantStep
  <2> QED
    BY <1>4, <2>1
<1>6. ASSUME NEW q \in Requests, O!SaveNext(q) PROVE token'[t].after \in 0..(t - 1)
  <2>1. PICK u \in DOMAIN token : u = oauthReq[q].id
    BY <1>1, <1>6 DEF O!SaveNext
  <2>2. token[u].code \in Nat /\ u \in Nat
    <3>1. token[u] \in Token /\ u \in Nat
      BY <1>1
    <3> QED
      BY <3>1 DEF Token
  <2>3. O!Saves(q, token[u].code, u)
    BY <1>6, <2>1 DEF O!SaveNext
  <2> QED
    BY <1>4, <2>2, <2>3
<1>7. ASSUME NEW q \in Requests, O!DeleteToken(q) PROVE token'[t].after \in 0..(t - 1)
  <2>1. oauthReq[q].id \in DOMAIN token
    BY <1>7 DEF O!DeleteToken, GrantInv, Placings, Placed
  <2>2. token' = token \/ token' = [token EXCEPT ![oauthReq[q].id].live = FALSE]
    BY <1>7 DEF O!DeleteToken, O!TokenDropped
  <2> QED
    BY <1>2, <1>3, <2>1, <2>2
<1>8. ASSUME NEW q \in Requests,
             \/ O!Authorize(q) \/ O!GetClient(q) \/ O!SaveClient(q) \/ O!SaveSession(q) \/ O!Login(q)
             \/ O!GetSession(q) \/ O!SaveCode(q) \/ O!DeleteSession(q) \/ O!Grant(q) \/ O!MarkCodeUsed(q)
             \/ O!Refresh(q) \/ O!CutOff(q)
      PROVE  token' = token
  BY <1>8, Zenon DEF O!Authorize, O!GetClient, O!SaveClient, O!SaveSession, O!Login, O!GetSession, O!SaveCode,
     O!DeleteSession, O!Grant, O!MarkCodeUsed, O!Refresh, O!CutOff
<1>9. ASSUME O!Expire PROVE token'[t].after \in 0..(t - 1)
  <2>1. token' = token \/ \E u \in DOMAIN token : token' = [token EXCEPT ![u].live = FALSE]
    BY <1>9 DEF O!Expire
  <2> QED
    BY <1>2, <1>3, <2>1
<1> QED
  BY <1>2, <1>5, <1>6, <1>7, <1>8, <1>9 DEF O!Next

LEMMA AddressedNext ==
    ASSUME GrantBounds, GrantInv, Addressed, [O!Next]_O!oauthVars PROVE Addressed'
<1>1. CASE UNCHANGED O!oauthVars
  BY <1>1 DEF O!oauthVars, Addressed
<1>2. CASE O!Next
  BY <1>2, CountersKept, AddressesKept, AskedKept, OrderKept DEF Addressed
<1> QED
  BY <1>1, <1>2

\* What the tables of a client hold has the types the code's columns have; a token follows an
\* earlier one (internal/auth/oauth_store_postgres.go).
THEOREM GrantsAreTyped == GrantBounds => (O!Spec => []O!TypeOK)
<1> SUFFICES ASSUME GrantBounds PROVE O!Spec => []O!TypeOK
  OBVIOUS
<1>1. O!Init => GrantInv
  BY GrantInit
<1>2. O!Init => Addressed
  BY StepIs DEF O!Init, Addressed, GrantBounds, O!Idle
<1>3. GrantInv /\ [O!Next]_O!oauthVars => GrantInv'
  BY GrantNext
<1>4. GrantInv /\ Addressed /\ [O!Next]_O!oauthVars => Addressed'
  BY AddressedNext
<1>5. GrantInv /\ Addressed => O!TypeOK
  <2> SUFFICES ASSUME GrantInv, Addressed PROVE O!TypeOK
    OBVIOUS
  <2>1. \A q \in Requests : oauthReq[q].at \in Ats
    BY DEF GrantInv, GrantTyped, GrantStep, Ats
  <2>2. /\ \A c \in DOMAIN code : code[c].session \in DOMAIN session
        /\ \A t \in DOMAIN token : token[t].code \in DOMAIN code
    BY DEF GrantInv, Placings
  <2> QED
    BY <2>1, <2>2 DEF Addressed, O!TypeOK, Ats
<1> QED
  BY <1>1, <1>2, <1>3, <1>4, <1>5, PTL DEF O!Spec

------------------------------------------------------------------------------
\* Sign-ins.
SignInAts == {"idle", "identity", "link", "taken", "insert", "personal", "own", "claim", "session"}
AccountStep ==
    [at : SignInAts, who : I!Ids, email : Emails \cup {""}, id : I!Ids, due : BOOLEAN, whole : BOOLEAN]
Account == [email : Emails, ident : I!Ids, admin : BOOLEAN]

AccountsTyped ==
    /\ DOMAIN user \subseteq I!Ids /\ user \in [DOMAIN user -> Account]
    /\ personal \subseteq DOMAIN user /\ pending \subseteq Emails
    /\ signInReq \in [Requests -> AccountStep]
    /\ signInCame \in 0..SignIns /\ signInFails \in 0..SignInFails

\* What a sign-in knows is so: its account is that of its identity, and has a workspace from
\* the statement that made or found one.
Knows(k) ==
    /\ k.at = "idle" => k = I!Idle
    /\ k.at \in {"identity", "link", "taken", "insert"} => k.who \in Identities /\ k.email \in Emails
    /\ k.at \in {"personal", "own", "claim", "session"} =>
          k.id \in DOMAIN user /\ (k.who \in Identities => user[k.id].ident = k.who)
    /\ k.at = "claim" => k.id \in personal
    /\ k.at = "session" /\ k.whole => k.id \in personal /\ (k.due => k.email \notin pending)

\* An identity has one account, and was signed in to no other.
OneAccount ==
    /\ \A r, s \in DOMAIN user : user[r].ident \in Identities /\ user[r].ident = user[s].ident => r = s
    /\ entered \in [I!Ids -> SUBSET I!Ids]
    /\ \A i \in Identities : \A r \in entered[i] : r \in DOMAIN user /\ user[r].ident = i

SignInInv == AccountsTyped /\ (\A q \in Requests : Knows(signInReq[q])) /\ OneAccount

\* No account goes, nor loses the identity it has.
AccountsLast ==
    /\ DOMAIN user \subseteq DOMAIN user'
    /\ \A r \in DOMAIN user : user[r].ident \in Identities => user'[r].ident = user[r].ident
    /\ personal \subseteq personal' /\ pending' \subseteq pending

LEMMA KnowsLasts == ASSUME NEW k, Knows(k), AccountsLast PROVE Knows(k)'
  BY DEF Knows, AccountsLast

\* A sign-in moves on: it knows what it holds then, and so do the others.
LEMMA SignInMoves ==
    ASSUME SignInInv, NEW q \in Requests, NEW k \in AccountStep,
           signInReq' = [signInReq EXCEPT ![q] = k],
           AccountsTyped', Knows(k)', AccountsLast, OneAccount'
    PROVE  SignInInv'
<1>1. ASSUME NEW r \in Requests PROVE Knows(signInReq[r])'
  <2>1. CASE r = q
    <3>1. signInReq'[r] = k
      BY <2>1 DEF SignInInv, AccountsTyped
    <3> QED
      BY <3>1 DEF Knows
  <2>2. CASE r # q
    <3>1. signInReq'[r] = signInReq[r]
      BY <2>2 DEF SignInInv, AccountsTyped
    <3>2. Knows(signInReq[r])
      BY DEF SignInInv
    <3> HIDE DEF SignInInv
    <3> DEFINE old == signInReq[r]
    <3>3. Knows(old) /\ signInReq'[r] = old
      BY <3>1, <3>2
    <3> QED
      BY <3>3 DEF Knows, AccountsLast
  <2> QED
    BY <2>1, <2>2
<1> QED
  BY <1>1 DEF SignInInv

\* The steps at which the accounts stay as they are.
LEMMA SignInMovesOnly ==
    ASSUME SignInInv, NEW q \in Requests, NEW k \in AccountStep,
           signInReq' = [signInReq EXCEPT ![q] = k],
           UNCHANGED <<user, personal, entered>>, pending' \subseteq pending, Knows(k)',
           signInCame' \in 0..SignIns, signInFails' \in 0..SignInFails
    PROVE  SignInInv'
<1>1. AccountsTyped'
  BY DEF SignInInv, AccountsTyped
<1>2. AccountsLast /\ OneAccount'
  BY DEF SignInInv, OneAccount, AccountsLast
<1> QED
  BY <1>1, <1>2, SignInMoves

\* What a sign-in holds after each of its steps.
LEMMA HoldsThen ==
    ASSUME NEW k \in AccountStep
    PROVE  /\ \A at \in SignInAts :
                 /\ [k EXCEPT !.at = at] \in AccountStep
                 /\ [k EXCEPT !.at = at].at = at
                 /\ \A f \in {"who", "email", "id", "due", "whole"} : [k EXCEPT !.at = at][f] = k[f]
           /\ [k EXCEPT !.at = "session", !.whole = FALSE] \in AccountStep
           /\ [k EXCEPT !.at = "session", !.whole = FALSE].at = "session"
           /\ ~ [k EXCEPT !.at = "session", !.whole = FALSE].whole
           /\ \A f \in {"who", "id"} : [k EXCEPT !.at = "session", !.whole = FALSE][f] = k[f]
           /\ \A id \in I!Ids, e \in Emails, due \in BOOLEAN :
                 LET found == [k EXCEPT !.at = "personal", !.id = id, !.email = e, !.due = due]
                 IN  found \in AccountStep /\ found.at = "personal" /\ found.id = id /\ found.who = k.who
  BY ZenonT(60) DEF AccountStep, SignInAts

LEMMA IdleKnows == I!Idle \in AccountStep /\ Knows(I!Idle) /\ Knows(I!Idle)'
  BY DEF I!Idle, AccountStep, SignInAts, Knows, I!Ids

LEMMA SignInStarts ==
    ASSUME SignInInv, SignIns \in Nat, NoOne \notin Identities, NEW q \in Requests,
           I!Callback(q) \/ I!Password(q)
    PROVE  SignInInv'
<1>1. signInCame' \in 0..SignIns /\ signInFails' \in 0..SignInFails
  <2>1. signInCame < SignIns /\ signInCame' = signInCame + 1 /\ signInFails' = signInFails
    BY Zenon DEF I!Callback, I!Password, I!Come
  <2>2. signInCame \in 0..SignIns /\ signInFails \in 0..SignInFails
    BY DEF SignInInv, AccountsTyped
  <2> QED
    BY <2>1, <2>2
<1>2. CASE I!Callback(q)
  <2>1. PICK i \in Identities, e \in Emails :
            signInReq' = [signInReq EXCEPT ![q] = [I!Idle EXCEPT !.at = "identity", !.who = i, !.email = e]]
    BY <1>2 DEF I!Callback, I!Set
  <2> DEFINE k == [I!Idle EXCEPT !.at = "identity", !.who = i, !.email = e]
  <2>2. k \in AccountStep /\ Knows(k)'
    BY DEF AccountStep, SignInAts, Knows, I!Idle, I!Ids
  <2> HIDE DEF k
  <2>3. UNCHANGED <<user, personal, entered, pending>>
    BY <1>2 DEF I!Callback
  <2>4. signInReq' = [signInReq EXCEPT ![q] = k]
    BY <2>1 DEF k
  <2> QED
    BY <1>1, <2>2, <2>3, <2>4, SignInMovesOnly
<1>3. CASE I!Password(q)
  <2>1. UNCHANGED <<user, personal, entered, pending>> /\ NoOne \in DOMAIN user
    BY <1>3 DEF I!Password, I!Rows
  <2>2. PICK e \in Emails : e = user[NoOne].email
    <3>1. user[NoOne] \in Account
      BY <2>1 DEF SignInInv, AccountsTyped
    <3> QED
      BY <3>1 DEF Account
  <2>6. PICK due \in BOOLEAN : due <=> e \in pending
    OBVIOUS
  <2> DEFINE k == [I!Idle EXCEPT !.at = "personal", !.id = NoOne, !.email = e, !.due = due]
  <2>4. signInReq[q] = I!Idle
    BY <1>3 DEF I!Password, SignInInv, Knows
  <2>3. signInReq' = [signInReq EXCEPT ![q] = k]
    BY <1>3, <2>2, <2>4, <2>6 DEF I!Password, I!Found, I!Set
  <2>5. k \in AccountStep /\ k.at = "personal" /\ k.id = NoOne /\ k.who = NoOne
    BY DEF I!Idle, AccountStep, SignInAts, I!Ids
  <2> HIDE DEF k
  <2>7. Knows(k)'
    BY <2>1, <2>5 DEF Knows
  <2> QED
    BY <1>1, <2>1, <2>3, <2>5, <2>7, SignInMovesOnly
<1> QED
  BY <1>2, <1>3

\* A sign-in has an account that is or becomes that of its identity.
LEMMA Finds ==
    ASSUME SignInInv, NEW q \in Requests, NEW r \in DOMAIN user', NEW e \in Emails,
           I!Found(q, r, e), user' \in [DOMAIN user' -> Account], DOMAIN user' \subseteq I!Ids,
           user'[r].ident = signInReq[q].who,
           DOMAIN user \subseteq DOMAIN user',
           \A s \in DOMAIN user : user[s].ident \in Identities => user'[s].ident = user[s].ident,
           \A s, t \in DOMAIN user' : user'[s].ident \in Identities /\ user'[s].ident = user'[t].ident => s = t,
           UNCHANGED <<personal, pending, entered, signInCame, signInFails>>
    PROVE  SignInInv'
<1>0. PICK old \in AccountStep, id \in I!Ids, mail \in Emails : old = signInReq[q] /\ id = r /\ mail = e
  BY DEF SignInInv, AccountsTyped
<1>6. PICK due \in BOOLEAN : due <=> mail \in pending
  OBVIOUS
<1> DEFINE k == [old EXCEPT !.at = "personal", !.id = id, !.email = mail, !.due = due]
<1>1. signInReq' = [signInReq EXCEPT ![q] = k]
  BY <1>0, <1>6 DEF I!Found, I!Set
<1>2. k \in AccountStep /\ k.at = "personal" /\ k.id = id /\ k.who = old.who
  BY DEF AccountStep, SignInAts
<1> HIDE DEF k
<1>3. Knows(k)'
  BY <1>0, <1>2 DEF Knows
<1>4. AccountsTyped'
  BY <1>1, <1>2 DEF SignInInv, AccountsTyped
<1>5. AccountsLast /\ OneAccount'
  BY DEF SignInInv, AccountsLast, OneAccount
<1> QED
  BY <1>1, <1>2, <1>3, <1>4, <1>5, SignInMoves

\* A step that changes a sign-in's place alone.
LEMMA SignInGoes ==
    ASSUME SignInInv, NEW q \in Requests, NEW at \in SignInAts, at # "idle",
           signInReq[q].at # "idle", I!Go(q, at),
           UNCHANGED <<user, personal, pending, entered, signInCame, signInFails>>,
           at \in {"link", "taken", "insert"} => signInReq[q].at \in {"identity", "link", "taken", "insert"},
           at = "claim" => signInReq[q].id \in personal,
           at = "session" => ~ signInReq[q].whole,
           at \in {"own", "claim"} => signInReq[q].at \in {"personal", "own"},
           at \notin {"identity", "personal", "session"}
    PROVE  SignInInv'
<1>0. PICK old \in AccountStep : old = signInReq[q]
  BY DEF SignInInv, AccountsTyped
<1> DEFINE k == [old EXCEPT !.at = at]
<1>1. old \in AccountStep /\ Knows(old)
  BY <1>0 DEF SignInInv
<1>2. /\ k \in AccountStep /\ k.at = at /\ k.who = old.who /\ k.email = old.email /\ k.id = old.id
  BY ZenonT(60), <1>1, HoldsThen
<1>3. signInReq' = [signInReq EXCEPT ![q] = k]
  BY <1>0 DEF I!Go, I!Set
<1> HIDE DEF k
<1>4. Knows(k)'
  BY <1>0, <1>1, <1>2 DEF Knows
<1>5. signInCame' \in 0..SignIns /\ signInFails' \in 0..SignInFails
  BY DEF SignInInv, AccountsTyped
<1> QED
  BY <1>2, <1>3, <1>4, <1>5, SignInMovesOnly

LEMMA SignInEnds ==
    ASSUME SignInInv, NEW q \in Requests, I!Refused(q),
           UNCHANGED <<user, personal, pending, entered, signInCame>>, signInFails' \in 0..SignInFails
    PROVE  SignInInv'
<1>1. signInReq' = [signInReq EXCEPT ![q] = I!Idle]
  BY DEF I!Refused, I!Set
<1>2. signInCame' \in 0..SignIns
  BY DEF SignInInv, AccountsTyped
<1> QED
  BY <1>1, <1>2, IdleKnows, SignInMovesOnly

\* An account by the identity, by the address, and a new one.
LEMMA AccountFound ==
    ASSUME SignInInv, NoOne \notin Identities, NEW q \in Requests,
           I!ByIdentity(q) \/ I!Link(q) \/ I!Taken(q) \/ I!Insert(q)
    PROVE  SignInInv'
<1> DEFINE old == signInReq[q]
<1>1. UNCHANGED <<personal, pending, entered, signInCame, signInFails>>
  BY DEF I!ByIdentity, I!Link, I!Taken, I!Insert
<1>2. old.at \in {"identity", "link", "taken", "insert"}
  BY DEF I!ByIdentity, I!Link, I!Taken, I!Insert
<1>3. old.who \in Identities /\ old.email \in Emails /\ old.who # NoOne
  BY <1>2 DEF SignInInv, Knows
<1>4. /\ DOMAIN user \subseteq I!Ids /\ user \in [DOMAIN user -> Account]
      /\ \A r, s \in DOMAIN user : user[r].ident \in Identities /\ user[r].ident = user[s].ident => r = s
  BY DEF SignInInv, AccountsTyped, OneAccount
<1>5. CASE I!Refused(q) /\ UNCHANGED user
  <2>1. signInFails' \in 0..SignInFails
    BY <1>1 DEF SignInInv, AccountsTyped
  <2> QED
    BY <1>1, <1>5, <2>1, SignInEnds
<1>6. ASSUME NEW at \in {"link", "taken", "insert"}, I!Go(q, at), UNCHANGED user PROVE SignInInv'
  BY <1>1, <1>2, <1>6, SignInGoes DEF SignInAts
<1>7. ASSUME NEW r \in DOMAIN user, user[r].ident = old.who,
             user' = [user EXCEPT ![r].email = old.email, ![r].admin = I!Promoted(@, old.email)],
             I!Found(q, r, old.email)
      PROVE  SignInInv'
  <2> DEFINE x == [user[r] EXCEPT !.email = old.email, !.admin = I!Promoted(user[r].admin, old.email)]
  <2>1. user' = [user EXCEPT ![r] = x]
    BY <1>7
  <2>2. x \in Account /\ x.ident = user[r].ident
    BY <1>3, <1>4 DEF Account, I!Promoted
  <2> HIDE DEF x
  <2>3. /\ DOMAIN user' = DOMAIN user /\ user' \in [DOMAIN user' -> Account]
        /\ \A s \in DOMAIN user : user'[s].ident = user[s].ident
    BY <1>4, <2>1, <2>2
  <2> HIDE DEF old
  <2>4. user'[r].ident = old.who /\ r \in DOMAIN user'
    BY <1>7, <2>3
  <2> QED
    BY <1>1, <1>3, <1>4, <1>7, <2>3, <2>4, Finds DEF old
<1>8. ASSUME NEW r \in DOMAIN user, user[r].ident = NoOne, \A s \in DOMAIN user : user[s].ident # old.who,
             user' = [user EXCEPT ![r].ident = old.who, ![r].admin = I!Promoted(@, old.email)],
             I!Found(q, r, old.email)
      PROVE  SignInInv'
  <2> DEFINE x == [user[r] EXCEPT !.ident = old.who, !.admin = I!Promoted(user[r].admin, old.email)]
  <2>1. user' = [user EXCEPT ![r] = x]
    BY <1>8
  <2>2. x \in Account /\ x.ident = old.who
    <3>1. user[r] \in Account /\ old.who \in I!Ids
      BY <1>3, <1>4, <1>8 DEF I!Ids
    <3>2. I!Promoted(user[r].admin, old.email) \in BOOLEAN
      BY <3>1 DEF Account, I!Promoted
    <3> HIDE DEF old
    <3> QED
      BY <3>1, <3>2 DEF Account
  <2> HIDE DEF x
  <2>3. /\ DOMAIN user' = DOMAIN user /\ user' \in [DOMAIN user' -> Account]
        /\ \A s \in DOMAIN user : user'[s].ident = IF s = r THEN old.who ELSE user[s].ident
    BY <1>4, <2>1, <2>2
  <2> HIDE DEF old
  <2>4. /\ user'[r].ident = old.who /\ r \in DOMAIN user'
        /\ \A s \in DOMAIN user : user[s].ident \in Identities => user'[s].ident = user[s].ident
        /\ \A s, t \in DOMAIN user' : user'[s].ident \in Identities /\ user'[s].ident = user'[t].ident => s = t
    <3>1. user'[r].ident = old.who /\ r \in DOMAIN user'
      BY <1>8, <2>3
    <3>2. \A s \in DOMAIN user : user[s].ident \in Identities => user'[s].ident = user[s].ident
      BY <1>3, <1>8, <2>3
    <3>3. ASSUME NEW s \in DOMAIN user, NEW t \in DOMAIN user,
                 user'[s].ident \in Identities, user'[s].ident = user'[t].ident
          PROVE  s = t
      BY <1>4, <1>8, <2>3, <3>3
    <3> QED
      BY <2>3, <3>1, <3>2, <3>3
  <2> QED
    BY <1>1, <1>3, <1>4, <1>8, <2>3, <2>4, Finds DEF old
<1>9. ASSUME old.who \notin DOMAIN user, \A s \in DOMAIN user : user[s].ident # old.who,
             user' = [r \in DOMAIN user \cup {old.who} |-> IF r = old.who
                        THEN [email |-> old.email, ident |-> old.who, admin |-> I!Promoted(FALSE, old.email)]
                        ELSE user[r]],
             I!Found(q, old.who, old.email)
      PROVE  SignInInv'
  <2> DEFINE x == [email |-> old.email, ident |-> old.who, admin |-> I!Promoted(FALSE, old.email)]
  <2>1. x \in Account /\ x.ident = old.who /\ old.who \in I!Ids
    BY <1>3 DEF Account, I!Promoted, I!Ids
  <2>2. user' = [r \in DOMAIN user \cup {old.who} |-> IF r = old.who THEN x ELSE user[r]]
    BY <1>9
  <2> HIDE DEF x, old
  <2>3. /\ DOMAIN user' = DOMAIN user \cup {old.who} /\ user' \in [DOMAIN user' -> Account]
        /\ user'[old.who] = x
        /\ \A s \in DOMAIN user : user'[s] = user[s]
    BY <1>4, <1>9, <2>1, <2>2
  <2>4. \A s, t \in DOMAIN user' : user'[s].ident \in Identities /\ user'[s].ident = user'[t].ident => s = t
    BY <1>4, <1>9, <2>1, <2>3
  <2>5. DOMAIN user' \subseteq I!Ids /\ old.who \in DOMAIN user' /\ user'[old.who].ident = old.who
    BY <1>4, <2>1, <2>3
  <2> QED
    BY <1>1, <1>3, <1>9, <2>3, <2>4, <2>5, Finds DEF old
<1> QED
  <2>1. CASE I!ByIdentity(q)
    <3>1. \/ I!Go(q, "link") /\ UNCHANGED user
          \/ \E r \in DOMAIN user :
                /\ user[r].ident = old.who
                /\ \/ I!Refused(q) /\ UNCHANGED user
                   \/ /\ user' = [user EXCEPT ![r].email = old.email, ![r].admin = I!Promoted(@, old.email)]
                      /\ I!Found(q, r, old.email)
      BY <2>1 DEF I!ByIdentity, I!Rows
    <3> QED
      BY <1>5, <1>6, <1>7, <3>1
  <2>2. CASE I!Link(q)
    <3>1. \/ I!Go(q, "taken") /\ UNCHANGED user
          \/ I!Refused(q) /\ UNCHANGED user
          \/ \E r \in DOMAIN user :
                /\ user[r].ident = NoOne /\ \A s \in DOMAIN user : user[s].ident # old.who
                /\ user' = [user EXCEPT ![r].ident = old.who, ![r].admin = I!Promoted(@, old.email)]
                /\ I!Found(q, r, old.email)
      BY <2>2 DEF I!Link, I!Rows, I!Linkable
    <3> QED
      BY ZenonT(60), <1>5, <1>6, <1>8, <3>1
  <2>3. CASE I!Taken(q)
    BY <1>5, <1>6, <2>3 DEF I!Taken
  <2>4. CASE I!Insert(q)
    BY <1>5, <1>9, <2>4 DEF I!Insert, I!Rows
  <2> QED
    BY <2>1, <2>2, <2>3, <2>4

LEMMA AccountMade ==
    ASSUME SignInInv, NoOne \notin Identities, I!CreateUser PROVE SignInInv'
<1>1. PICK e \in Emails :
          user' = [r \in DOMAIN user \cup {NoOne} |-> IF r = NoOne
                       THEN [email |-> e, ident |-> NoOne, admin |-> FALSE] ELSE user[r]]
  BY DEF I!CreateUser, I!Rows
<1> DEFINE x == [email |-> e, ident |-> NoOne, admin |-> FALSE]
<1>2. x \in Account /\ x.ident = NoOne /\ NoOne \in I!Ids
  BY DEF Account, I!Ids
<1>3. UNCHANGED <<personal, pending, signInReq, entered, signInCame, signInFails>> /\ NoOne \notin DOMAIN user
  BY DEF I!CreateUser, I!Rows
<1>4. user' = [r \in DOMAIN user \cup {NoOne} |-> IF r = NoOne THEN x ELSE user[r]]
  BY <1>1
<1> HIDE DEF x
<1>5. /\ DOMAIN user' = DOMAIN user \cup {NoOne} /\ user' \in [DOMAIN user' -> Account]
      /\ user'[NoOne] = x /\ \A s \in DOMAIN user : user'[s] = user[s]
  BY <1>2, <1>3, <1>4 DEF SignInInv, AccountsTyped
<1>6. AccountsTyped'
  BY <1>2, <1>3, <1>5 DEF SignInInv, AccountsTyped
<1>7. AccountsLast
  BY <1>3, <1>5 DEF AccountsLast
<1>8. OneAccount'
  BY <1>2, <1>3, <1>5 DEF SignInInv, OneAccount
<1>9. ASSUME NEW q \in Requests PROVE Knows(signInReq[q])'
  <2>1. Knows(signInReq[q])
    BY DEF SignInInv
  <2> DEFINE old == signInReq[q]
  <2>2. Knows(old) /\ signInReq'[q] = old
    BY <1>3, <2>1
  <2> HIDE DEF old
  <2> QED
    BY <1>7, <2>2 DEF Knows, AccountsLast
<1> QED
  BY <1>6, <1>8, <1>9 DEF SignInInv

\* The workspace, the invitations and the session.
LEMMA AccountEnters ==
    ASSUME SignInInv, NoOne \notin Identities, SignInFails \in Nat, NEW q \in Requests,
           I!Personal(q) \/ I!Own(q) \/ I!Claim(q) \/ I!Session(q) \/ I!StatementFails(q)
    PROVE  SignInInv'
<1>0. PICK old \in AccountStep : old = signInReq[q]
  BY DEF SignInInv, AccountsTyped
<1> DEFINE half == [old EXCEPT !.at = "session", !.whole = FALSE]
<1>1. old \in AccountStep /\ Knows(old) /\ I!Idle \in AccountStep
  BY <1>0, IdleKnows DEF SignInInv
<1>2. signInCame' \in 0..SignIns /\ signInFails' \in 0..SignInFails /\ user' = user
  BY DEF SignInInv, AccountsTyped, I!Personal, I!Own, I!Claim, I!Session, I!StatementFails, I!Fail
<1>3. ASSUME old.at \in {"personal", "own", "claim"}, signInReq' = [signInReq EXCEPT ![q] = half],
             UNCHANGED <<personal, pending, entered>>
      PROVE  SignInInv'
  <2>1. half \in AccountStep /\ half.at = "session" /\ ~ half.whole /\ half.who = old.who /\ half.id = old.id
    BY <1>1, HoldsThen
  <2> HIDE DEF half
  <2>2. Knows(half)'
    BY <1>1, <1>2, <1>3, <2>1 DEF Knows
  <2> QED
    BY <1>2, <1>3, <2>1, <2>2, SignInMovesOnly
<1>4. CASE I!Personal(q)
  <2>1. /\ old.at = "personal" /\ UNCHANGED <<user, personal, pending, entered, signInCame, signInFails>>
        /\ \/ old.id \in personal /\ I!Go(q, "claim")
           \/ I!Go(q, "own")
    BY <1>0, <1>4 DEF I!Personal, I!AfterPersonal
  <2> QED
    BY <1>0, <2>1, SignInGoes DEF SignInAts
<1>5. CASE I!Own(q)
  <2>1. CASE old.id \in personal
    BY <1>0, <1>3, <1>5, <2>1 DEF I!Own, I!Set
  <2>2. CASE old.id \notin personal
    <3> DEFINE k == [old EXCEPT !.at = "claim"]
    <3>1. /\ old.at = "own" /\ personal' = personal \cup {old.id} /\ UNCHANGED <<pending, entered>>
          /\ signInReq' = [signInReq EXCEPT ![q] = k]
      BY <1>0, <1>5, <2>2 DEF I!Own, I!Go, I!Set, I!AfterPersonal
    <3>2. k \in AccountStep /\ k.at = "claim" /\ k.who = old.who /\ k.id = old.id
      BY ZenonT(60), <1>1, HoldsThen DEF SignInAts
    <3> HIDE DEF k
    <3>3. Knows(k)'
      BY <1>1, <1>2, <3>1, <3>2 DEF Knows
    <3>4. AccountsTyped'
      BY <1>1, <1>2, <3>1, <3>2 DEF SignInInv, AccountsTyped, Knows
    <3>5. AccountsLast /\ OneAccount'
      BY <1>2, <3>1 DEF SignInInv, AccountsLast, OneAccount
    <3> QED
      BY <3>1, <3>2, <3>3, <3>4, <3>5, SignInMoves
  <2> QED
    BY <2>1, <2>2
<1>6. CASE I!Claim(q)
  <2> DEFINE k == [old EXCEPT !.at = "session"]
  <2>1. /\ old.at = "claim" /\ pending' = pending \ {old.email} /\ UNCHANGED <<personal, entered>>
        /\ signInReq' = [signInReq EXCEPT ![q] = k]
    BY <1>0, <1>6 DEF I!Claim, I!Go, I!Set
  <2>2. k \in AccountStep /\ k.at = "session" /\ k.who = old.who /\ k.id = old.id /\ k.email = old.email
    BY ZenonT(60), <1>1, HoldsThen DEF SignInAts
  <2> HIDE DEF k
  <2>3. Knows(k)'
    BY <1>1, <1>2, <2>1, <2>2 DEF Knows
  <2> QED
    BY <1>2, <2>1, <2>2, <2>3, SignInMovesOnly
<1>7. CASE I!Session(q)
  <2>1. /\ old.at = "session" /\ UNCHANGED <<personal, pending>>
        /\ entered' = [entered EXCEPT ![old.who] = @ \cup {old.id}]
        /\ signInReq' = [signInReq EXCEPT ![q] = I!Idle]
    BY <1>0, <1>7 DEF I!Session, I!Set
  <2>2. old.who \in I!Ids /\ old.id \in I!Ids /\ old.id \in DOMAIN user
        /\ (old.who \in Identities => user[old.id].ident = old.who)
    BY <1>1, <2>1 DEF AccountStep, Knows
  <2>3. OneAccount'
    <3>1. entered' \in [I!Ids -> SUBSET I!Ids]
      BY <2>1, <2>2 DEF SignInInv, OneAccount
    <3>2. \A i \in Identities : \A r \in entered'[i] : r \in entered[i] \/ (i = old.who /\ r = old.id)
      <4>1. entered \in [I!Ids -> SUBSET I!Ids] /\ Identities \subseteq I!Ids
        BY DEF SignInInv, OneAccount, I!Ids
      <4>2. \A i \in I!Ids : entered'[i] = IF i = old.who THEN entered[i] \cup {old.id} ELSE entered[i]
        BY <2>1, <2>2, <4>1
      <4>3. ASSUME NEW i \in Identities, NEW r \in entered'[i] PROVE r \in entered[i] \/ (i = old.who /\ r = old.id)
        BY <4>1, <4>2
      <4> QED
        BY <4>3
    <3> QED
      BY <1>2, <2>2, <3>1, <3>2 DEF SignInInv, OneAccount
  <2>4. AccountsTyped' /\ AccountsLast
    BY <1>1, <1>2, <2>1 DEF SignInInv, AccountsTyped, AccountsLast
  <2> QED
    BY <1>1, <2>1, <2>3, <2>4, IdleKnows, SignInMoves
<1>8. CASE I!StatementFails(q)
  BY <1>0, <1>2, <1>3, <1>8, SignInEnds DEF I!StatementFails, I!Set
<1> QED
  BY <1>4, <1>5, <1>6, <1>7, <1>8

LEMMA AccountsNext ==
    ASSUME SignIns \in Nat, SignInFails \in Nat, NoOne \notin Identities, SignInInv, [I!Next]_I!signInVars
    PROVE  SignInInv'
<1>1. CASE UNCHANGED I!signInVars
  <2>1. UNCHANGED <<user, personal, pending, signInReq, entered, signInCame, signInFails>>
    BY <1>1 DEF I!signInVars
  <2>2. AccountsTyped' /\ OneAccount'
    BY <2>1 DEF SignInInv, AccountsTyped, OneAccount
  <2>3. \A q \in Requests : Knows(signInReq[q])'
    BY <2>1 DEF SignInInv, Knows
  <2> QED
    BY <2>2, <2>3 DEF SignInInv
<1>2. ASSUME NEW q \in Requests, I!Callback(q) \/ I!Password(q) PROVE SignInInv'
  BY <1>2, SignInStarts
<1>3. ASSUME NEW q \in Requests, I!ByIdentity(q) \/ I!Link(q) \/ I!Taken(q) \/ I!Insert(q) PROVE SignInInv'
  BY <1>3, AccountFound
<1>4. ASSUME NEW q \in Requests,
             I!Personal(q) \/ I!Own(q) \/ I!Claim(q) \/ I!Session(q) \/ I!StatementFails(q)
      PROVE  SignInInv'
  BY <1>4, AccountEnters
<1>5. ASSUME I!CreateUser PROVE SignInInv'
  BY <1>5, AccountMade
<1> QED
  BY <1>1, <1>2, <1>3, <1>4, <1>5 DEF I!Next

LEMMA SignInInit == ASSUME SignIns \in Nat, SignInFails \in Nat, I!Init PROVE SignInInv
<1>1. /\ \A q \in Requests : signInReq[q] = I!Idle
      /\ signInReq \in [Requests -> AccountStep]
  BY IdleKnows DEF I!Init
<1>2. AccountsTyped
  <2>0. personal = {} /\ pending \subseteq Emails /\ signInCame \in 0..SignIns /\ signInFails \in 0..SignInFails
    BY DEF I!Init
  <2>1. CASE user = [i \in {} |-> 0]
    <3>1. DOMAIN user = {} /\ user \in [DOMAIN user -> Account]
      BY <2>1
    <3> QED
      BY <1>1, <2>0, <3>1 DEF AccountsTyped
  <2>2. CASE user \in [{NoOne} -> [email : Emails, ident : {NoOne}, admin : {FALSE}]]
    <3>1. DOMAIN user = {NoOne} /\ user \in [DOMAIN user -> Account]
      BY <2>2 DEF Account, I!Ids
    <3> QED
      BY <1>1, <2>0, <3>1 DEF AccountsTyped, I!Ids
  <2> QED
    BY <2>1, <2>2 DEF I!Init
<1>3. \A q \in Requests : Knows(signInReq[q])
  BY <1>1, IdleKnows
<1>4. OneAccount
  BY DEF I!Init, OneAccount, I!Ids
<1> QED
  BY <1>2, <1>3, <1>4 DEF SignInInv

\* An identity signs in to one account, and two to two, whatever their addresses become; and a
\* sign-in that is about to end brings what it promises (internal/server/oauth.go,
\* internal/auth/store.go).
THEOREM AccountsAreSound ==
    SignIns \in Nat /\ SignInFails \in Nat /\ NoOne \notin Identities =>
        (I!Spec => [](I!TypeOK /\ I!AccountsApart /\ I!Provisioned))
<1> SUFFICES ASSUME SignIns \in Nat, SignInFails \in Nat, NoOne \notin Identities
             PROVE  I!Spec => [](I!TypeOK /\ I!AccountsApart /\ I!Provisioned)
  OBVIOUS
<1>1. I!Init => SignInInv
  BY SignInInit
<1>2. SignInInv => I!TypeOK /\ I!AccountsApart /\ I!Provisioned
  <2> SUFFICES ASSUME SignInInv PROVE I!TypeOK /\ I!AccountsApart /\ I!Provisioned
    OBVIOUS
  <2>1. I!TypeOK
    BY DEF SignInInv, AccountsTyped, I!TypeOK, I!Rows, Account, AccountStep, SignInAts
  <2>2. I!Provisioned
    BY DEF SignInInv, Knows, I!Provisioned
  <2>3. ASSUME NEW i \in Identities PROVE I!Cardinality(entered[i]) <= 1
    <3> DEFINE these == entered[i]
    <3>1. \A x, y \in these : x = y
      BY DEF SignInInv, OneAccount
    <3> HIDE DEF these
    <3>2. I!Cardinality(these) <= 1
      BY <3>1, AtMostOne DEF I!Cardinality, O!Cardinality
    <3> QED
      BY <3>2 DEF these
  <2>4. \A i, j \in Identities : i # j => entered[i] \cap entered[j] = {}
    BY DEF SignInInv, OneAccount
  <2> QED
    BY <2>1, <2>2, <2>3, <2>4 DEF I!AccountsApart
<1>3. SignInInv /\ [I!Next]_I!signInVars => SignInInv'
  BY AccountsNext
<1> QED
  BY <1>1, <1>2, <1>3, PTL DEF I!Spec

\* An administrator stays one.
THEOREM AdministratorsStay ==
    SignIns \in Nat /\ SignInFails \in Nat /\ NoOne \notin Identities => (I!Spec => I!AdminStays)
<1> SUFFICES ASSUME SignIns \in Nat, SignInFails \in Nat, NoOne \notin Identities
             PROVE  I!Spec => I!AdminStays
  BY SMTT(30)
<1>1. ASSUME SignInInv, [I!Next]_I!signInVars
      PROVE  [\A r \in I!Rows : user[r].admin => user'[r].admin]_user
  <2> SUFFICES ASSUME I!Next, NEW r \in DOMAIN user, user[r].admin PROVE user'[r].admin
    BY <1>1 DEF I!signInVars, I!Rows
  <2>1. user \in [DOMAIN user -> Account]
    BY <1>1 DEF SignInInv, AccountsTyped
  <2>2. ASSUME NEW q \in Requests, I!ByIdentity(q) \/ I!Link(q) PROVE user'[r].admin
    BY ZenonT(60), <2>1, <2>2 DEF I!ByIdentity, I!Link, I!Rows, I!Promoted, Account
  <2>3. ASSUME NEW q \in Requests, I!Insert(q) PROVE user'[r].admin
    BY <2>3 DEF I!Insert, I!Rows
  <2>4. ASSUME I!CreateUser PROVE user'[r].admin
    BY <2>4 DEF I!CreateUser, I!Rows
  <2> QED
    BY <2>2, <2>3, <2>4 DEF I!Next, I!Callback, I!Password, I!Taken, I!Personal, I!Own, I!Claim, I!Session, I!StatementFails
<1>2. I!Init => SignInInv
  BY SignInInit
<1>3. SignInInv /\ [I!Next]_I!signInVars => SignInInv'
  BY AccountsNext
<1> QED
  BY <1>1, <1>2, <1>3, PTL DEF I!Spec, I!AdminStays

------------------------------------------------------------------------------
\* Keys and the files they are saved in.
Credential == [server : Servers, key : Nat]
KeyAts == {"idle", "mint", "read", "load", "write", "rename"}
KeyRun ==
    [at : KeyAts, machine : Machines \cup {""}, server : Servers \cup {""},
     project : Projects \cup {NoProject}, key : Nat, base : Seq(Credential)]
KeyRow == [server : Servers, project : Projects \cup {NoProject}, id : Nat, key : Nat, revoked : BOOLEAN]

\* A nonempty set of naturals has a least member.
LEMMA LeastIndex ==
    ASSUME NEW these \in SUBSET Nat, these # {}
    PROVE  \E i \in these : \A j \in these : i <= j
<1>1. PICK m \in these : \A k \in these : ~(<<k, m>> \in OpToRel(<, Nat))
  BY NatLessThanWellFounded, WFMin
<1>2. ASSUME NEW k \in these PROVE m <= k
  <2>1. <<k, m>> \in Nat \X Nat
    OBVIOUS
  <2> QED
    BY <1>1, <2>1 DEF OpToRel
<1> QED
  BY <1>2

\* The first credential of a server is one of the server, and none is before it.
LEMMA FirstIs ==
    ASSUME NEW s, NEW c \in Seq(Credential)
    PROVE  LET i == K!CredentialOf(c, s)
           IN  /\ i = 0 => \A j \in DOMAIN c : c[j].server # s
               /\ i # 0 => i \in DOMAIN c /\ c[i].server = s
<1> DEFINE ofIt == {i \in 1..Len(c) : c[i].server = s}
<1>1. K!CredentialOf(c, s) = IF ofIt # {} THEN K!Min(ofIt) ELSE 0
  BY DEF K!CredentialOf, K!SelectInSeq
<1>2. DOMAIN c = 1..Len(c) /\ Len(c) \in Nat
  OBVIOUS
<1>3. ASSUME ofIt # {} PROVE K!Min(ofIt) \in ofIt
  <2>1. ofIt \in SUBSET Nat
    BY <1>2
  <2> HIDE DEF ofIt
  <2>2. \E i \in ofIt : \A j \in ofIt : i <= j
    BY <1>3, <2>1, LeastIndex
  <2> QED
    BY <2>2 DEF K!Min
<1>4. \A i \in ofIt : i \in DOMAIN c /\ c[i].server = s /\ i # 0
  BY <1>2
<1>5. ofIt = {} => \A j \in DOMAIN c : c[j].server # s
  BY <1>2
<1> HIDE DEF ofIt
<1> QED
  BY <1>1, <1>3, <1>4, <1>5

\* The first is the same in two files in which the same credentials are of the server.
LEMMA FirstSame ==
    ASSUME NEW s, NEW c \in Seq(Credential), NEW d \in Seq(Credential),
           {i \in 1..Len(c) : c[i].server = s} = {i \in 1..Len(d) : d[i].server = s}
    PROVE  K!CredentialOf(c, s) = K!CredentialOf(d, s)
  BY DEF K!CredentialOf, K!SelectInSeq

\* A credential that is saved is the one that is loaded for its server, and those of the other
\* servers stay as they were.
Upserted(c, s, k, d) ==
    /\ d \in Seq(Credential)
    /\ \A j \in DOMAIN d : d[j].key = k \/ (j \in DOMAIN c /\ d[j].key = c[j].key)
    /\ \A r \in Servers : K!LoadCredential(d, r) = IF r = s THEN k ELSE K!LoadCredential(c, r)

LEMMA UpsertIs ==
    ASSUME NEW c \in Seq(Credential), NEW s \in Servers, NEW k \in Nat, NEW d, d = K!Upsert(c, s, k)
    PROVE  Upserted(c, s, k, d)
<1> USE DEF Upserted
<1> DEFINE i == K!CredentialOf(c, s)
           x == [server |-> s, key |-> k]
<1>1. x \in Credential /\ x.server = s /\ x.key = k
  BY DEF Credential
<1>2. /\ i = 0 => \A j \in DOMAIN c : c[j].server # s
      /\ i # 0 => i \in DOMAIN c /\ c[i].server = s
  BY FirstIs
<1>3. DOMAIN c = 1..Len(c) /\ Len(c) \in Nat /\ \A j \in DOMAIN c : c[j] \in Credential
  OBVIOUS
<1>4. CASE i # 0
  <2>1. d = [c EXCEPT ![i].key = k]
    BY <1>4 DEF K!Upsert
  <2>2. [c[i] EXCEPT !.key = k] = x
    BY <1>2, <1>3, <1>4 DEF Credential
  <2>3. d = [c EXCEPT ![i] = x]
    BY <2>1, <2>2
  <2> HIDE DEF x
  <2>4. /\ d \in Seq(Credential) /\ DOMAIN d = DOMAIN c
        /\ \A j \in DOMAIN c : d[j] = IF j = i THEN x ELSE c[j]
    BY <1>1, <1>2, <1>4, <2>3, PutIs
  <2>5. Len(d) = Len(c)
    BY <1>3, <2>4
  <2> HIDE DEF i
  <2>6. ASSUME NEW r \in Servers
        PROVE  K!LoadCredential(d, r) = IF r = s THEN k ELSE K!LoadCredential(c, r)
    <3>1. {j \in 1..Len(c) : c[j].server = r} = {j \in 1..Len(d) : d[j].server = r}
      BY <1>1, <1>2, <1>3, <1>4, <2>4, <2>5
    <3>2. K!CredentialOf(d, r) = K!CredentialOf(c, r)
      BY <2>4, <3>1, FirstSame
    <3>3. CASE r = s
      BY <1>1, <1>2, <1>4, <2>4, <3>2, <3>3 DEF K!LoadCredential, i
    <3>4. CASE r # s
      <4> DEFINE j == K!CredentialOf(c, r)
      <4>1. j # 0 => j \in DOMAIN c /\ c[j].server = r
        BY FirstIs
      <4>2. j # 0 => d[j] = c[j]
        BY <1>2, <1>4, <2>4, <3>4, <4>1
      <4> QED
        BY <3>2, <3>4, <4>2 DEF K!LoadCredential
    <3> QED
      BY <3>3, <3>4
  <2>7. \A j \in DOMAIN d : d[j].key = k \/ (j \in DOMAIN c /\ d[j].key = c[j].key)
    BY <1>1, <2>4
  <2> QED
    BY <2>4, <2>6, <2>7
<1>5. CASE i = 0
  <2>1. d = Append(c, x)
    BY <1>5 DEF K!Upsert
  <2> DEFINE n == Len(c) + 1
  <2> HIDE DEF x
  <2>2. /\ d \in Seq(Credential) /\ n \in DOMAIN d /\ d[n] = x /\ n \in Nat /\ n # 0 /\ n \notin DOMAIN c
        /\ \A j \in DOMAIN d : j \in DOMAIN c \/ j = n
        /\ \A j \in DOMAIN c : j \in DOMAIN d /\ d[j] = c[j]
    BY <1>1, <2>1, AppendIs
  <2> HIDE DEF n, i
  <2>3. ASSUME NEW r \in Servers
        PROVE  K!LoadCredential(d, r) = IF r = s THEN k ELSE K!LoadCredential(c, r)
    <3> DEFINE j == K!CredentialOf(d, r)
    <3>1. /\ j = 0 => \A m \in DOMAIN d : d[m].server # r
          /\ j # 0 => j \in DOMAIN d /\ d[j].server = r
      BY <2>2, FirstIs
    <3>2. CASE r = s
      <4>1. j = n
        BY <1>1, <1>2, <1>5, <2>2, <3>1, <3>2
      <4> QED
        BY <1>1, <2>2, <3>2, <4>1 DEF K!LoadCredential
    <3>3. CASE r # s
      <4>1. 1..Len(d) = DOMAIN d
        BY <2>2
      <4>2. {m \in 1..Len(c) : c[m].server = r} = {m \in 1..Len(d) : d[m].server = r}
        BY <1>1, <1>3, <2>2, <3>3, <4>1
      <4>3. j = K!CredentialOf(c, r)
        BY <2>2, <4>2, FirstSame
      <4>4. j # 0 => j \in DOMAIN c
        BY <4>3, FirstIs
      <4>5. j # 0 => d[j] = c[j]
        BY <2>2, <4>4
      <4> HIDE DEF j
      <4> QED
        BY <3>3, <4>3, <4>5 DEF K!LoadCredential, j
    <3> QED
      BY <3>2, <3>3
  <2>4. \A j \in DOMAIN d : d[j].key = k \/ (j \in DOMAIN c /\ d[j].key = c[j].key)
    BY <1>1, <2>2
  <2> QED
    BY <2>2, <2>3, <2>4
<1> QED
  BY <1>4, <1>5

\* The rows: a key has one row, or had; it is revoked if its revocation was answered.
RowsOfKeys ==
    /\ keyRows \subseteq KeyRow /\ minted \in 0..Mints
    /\ \A x \in keyRows : x.id = x.key /\ x.key <= minted /\ (x.key = 0 => x.project = NoProject)
    /\ \A x, y \in keyRows : x.key = y.key /\ (x.key # 0 \/ x.server = y.server) => x = y
    /\ \A x \in keyRows : x.key \notin replaced /\ (x.revoked <=> <<x.server, x.key>> \in revoked)
    /\ replaced \subseteq 1..minted
    /\ \A v \in revoked : \E t \in told : v = <<t.server, t.key>>

\* What a caller was told has a row until another key takes it.
Told ==
    /\ told \subseteq [server : Servers, id : Nat, key : Nat]
    /\ \A t \in told : t.id = t.key /\ t.key <= minted
    /\ \A t \in told : t.key \notin replaced => \E x \in keyRows : x.server = t.server /\ x.key = t.key

\* The commands and the files.
RunsOfKeys ==
    /\ keyRun \in [Requests -> KeyRun]
    /\ \A q \in Requests :
          /\ keyRun[q].at # "idle" => keyRun[q].machine \in Machines /\ keyRun[q].server \in Servers
          /\ keyRun[q].at \in {"read", "load", "write", "rename"} => keyRun[q].key \in 1..minted
          /\ \A i \in DOMAIN keyRun[q].base : keyRun[q].base[i].key \in 1..minted
    /\ file \in [Machines -> Seq(Credential)]
    /\ temp \in [Machines -> [there : BOOLEAN, content : Seq(Credential)]]
    /\ \A m \in Machines :
          /\ \A i \in DOMAIN file[m] : file[m][i].key \in 1..minted
          /\ \A i \in DOMAIN temp[m].content : temp[m].content[i].key \in 1..minted
    /\ saved \in [Machines -> [Servers -> Nat]]
    /\ revokes \in 0..Revokes /\ keyFails \in 0..KeyFails

\* A save that is alone on its machine writes what the file holds and the key.
Saving(q, m) == keyRun[q].at \in {"write", "rename"} /\ keyRun[q].machine = m
Alone(m) ==
    /\ \A q, r \in Requests : Saving(q, m) /\ Saving(r, m) => q = r
    /\ \A q \in Requests : Saving(q, m) /\ keyRun[q].at = "write" => keyRun[q].base = file[m]
    /\ \A q \in Requests : Saving(q, m) /\ keyRun[q].at = "rename" =>
          temp[m].there /\ temp[m].content = K!Upsert(file[m], keyRun[q].server, keyRun[q].key)
    /\ \A s \in Servers : K!LoadCredential(file[m], s) = saved[m][s]

KeysInv == RowsOfKeys /\ Told /\ RunsOfKeys /\ \A m \in Machines : m \notin lost => Alone(m)

LEMMA RowsLast ==
    ASSUME RowsOfKeys, Told, UNCHANGED <<keyRows, minted, told, revoked, replaced>>
    PROVE  RowsOfKeys' /\ Told'
  BY DEF RowsOfKeys, Told

\* What a command that goes on holds.
KeyHeld(k) ==
    /\ k.at # "idle" => k.machine \in Machines /\ k.server \in Servers
    /\ k.at \in {"read", "load", "write", "rename"} => k.key \in 1..minted
    /\ \A i \in DOMAIN k.base : k.base[i].key \in 1..minted

LEMMA KeyIdle == K!Idle \in KeyRun /\ K!Idle.at = "idle" /\ DOMAIN K!Idle.base = {}
<1>1. <<>> \in Seq(Credential) /\ DOMAIN <<>> = {}
  OBVIOUS
<1> QED
  BY <1>1 DEF K!Idle, KeyRun, KeyAts

LEMMA KeyGoes ==
    ASSUME NEW k \in KeyRun, NEW at \in KeyAts
    PROVE  LET then == [k EXCEPT !.at = at]
           IN  /\ then \in KeyRun /\ then.at = at /\ then.machine = k.machine /\ then.server = k.server
               /\ then.key = k.key /\ then.base = k.base /\ then.project = k.project
  BY DEF KeyRun

\* A command moves on, and leaves the files.
LEMMA RunsMove ==
    ASSUME KeysInv, NEW q \in Requests, NEW k \in KeyRun, keyRun' = [keyRun EXCEPT ![q] = k],
           UNCHANGED <<file, temp, saved, lost>>, minted' \in Nat, minted <= minted',
           KeyHeld(k)', k.at \notin {"write", "rename"},
           revokes' \in 0..Revokes, keyFails' \in 0..KeyFails
    PROVE  RunsOfKeys' /\ \A m \in Machines : m \notin lost' => Alone(m)'
<1>1. \A r \in Requests : keyRun'[r] = IF r = q THEN k ELSE keyRun[r]
  BY DEF KeysInv, RunsOfKeys
<1>2. minted \in Nat /\ 1..minted \subseteq 1..minted'
  BY DEF KeysInv, RowsOfKeys
<1>3. RunsOfKeys'
  <2>1. keyRun' \in [Requests -> KeyRun]
    BY DEF KeysInv, RunsOfKeys
  <2>2. ASSUME NEW r \in Requests
        PROVE  /\ keyRun'[r].at # "idle" => keyRun'[r].machine \in Machines /\ keyRun'[r].server \in Servers
               /\ keyRun'[r].at \in {"read", "load", "write", "rename"} => keyRun'[r].key \in 1..minted'
               /\ \A i \in DOMAIN keyRun'[r].base : keyRun'[r].base[i].key \in 1..minted'
    <3>1. CASE r = q
      BY <1>1, <3>1 DEF KeyHeld
    <3>2. CASE r # q
      <4>1. keyRun'[r] = keyRun[r]
        BY <1>1, <3>2
      <4> QED
        BY <1>2, <4>1 DEF KeysInv, RunsOfKeys
    <3> QED
      BY <3>1, <3>2
  <2>3. \A m \in Machines :
          /\ \A i \in DOMAIN file'[m] : file'[m][i].key \in 1..minted'
          /\ \A i \in DOMAIN temp'[m].content : temp'[m].content[i].key \in 1..minted'
    BY <1>2 DEF KeysInv, RunsOfKeys
  <2>4. /\ file' \in [Machines -> Seq(Credential)]
        /\ temp' \in [Machines -> [there : BOOLEAN, content : Seq(Credential)]]
        /\ saved' \in [Machines -> [Servers -> Nat]]
    BY DEF KeysInv, RunsOfKeys
  <2> QED
    BY <2>1, <2>2, <2>3, <2>4 DEF RunsOfKeys
<1>4. ASSUME NEW m \in Machines, m \notin lost' PROVE Alone(m)'
  <2>1. \A r \in Requests : Saving(r, m)' => keyRun'[r] = keyRun[r] /\ Saving(r, m)
    BY <1>1 DEF Saving
  <2>2. Alone(m)
    BY <1>4 DEF KeysInv
  <2> QED
    BY <2>1, <2>2 DEF Alone
<1> QED
  BY <1>3, <1>4

\* The commands that are not at a file, and the steps of the server that change no row.
LEMMA CommandSteps ==
    ASSUME KeysInv, KeyFails \in Nat, NEW q \in Requests, K!Login(q) \/ K!MintedOver(q) \/ K!CutOff(q)
    PROVE  KeysInv'
<1>1. /\ UNCHANGED <<keyRows, minted, told, revoked, replaced>> /\ UNCHANGED <<file, temp, saved, lost>>
      /\ minted' \in Nat /\ minted <= minted' /\ revokes' \in 0..Revokes /\ keyFails' \in 0..KeyFails
  <2>1. /\ UNCHANGED <<keyRows, minted, told, revoked, replaced>> /\ UNCHANGED <<file, temp, saved, lost, revokes>>
        /\ keyFails' = keyFails \/ (keyFails < KeyFails /\ keyFails' = keyFails + 1)
    BY DEF K!Login, K!MintedOver, K!CutOff, K!Fail
  <2> QED
    BY <2>1 DEF KeysInv, RowsOfKeys, RunsOfKeys
<1>2. RowsOfKeys' /\ Told'
  BY <1>1, RowsLast DEF KeysInv
<1>3. PICK k \in KeyRun : /\ keyRun' = [keyRun EXCEPT ![q] = k] /\ KeyHeld(k)'
                          /\ k.at \notin {"write", "rename"}
  <2>1. CASE K!Login(q)
    <3>1. PICK m \in Machines, s \in Servers, p \in Projects \cup {NoProject} :
              keyRun' = [keyRun EXCEPT ![q] = [K!Idle EXCEPT !.at = "mint", !.machine = m, !.server = s, !.project = p]]
      BY <2>1 DEF K!Login, K!Set
    <3> DEFINE k == [K!Idle EXCEPT !.at = "mint", !.machine = m, !.server = s, !.project = p]
    <3>2. k \in KeyRun /\ k.at = "mint" /\ k.machine = m /\ k.server = s /\ k.base = K!Idle.base
      BY KeyIdle DEF KeyRun, KeyAts
    <3>3. keyRun' = [keyRun EXCEPT ![q] = k]
      BY <3>1
    <3> HIDE DEF k
    <3>4. KeyHeld(k)'
      BY <3>2, KeyIdle DEF KeyHeld
    <3> QED
      BY <3>2, <3>3, <3>4
  <2>2. CASE K!MintedOver(q) \/ K!CutOff(q)
    <3>1. keyRun' = [keyRun EXCEPT ![q] = K!Idle]
      BY <2>2 DEF K!MintedOver, K!CutOff, K!Set
    <3>2. KeyHeld(K!Idle)'
      BY KeyIdle DEF KeyHeld
    <3> QED
      BY <3>1, <3>2, KeyIdle
  <2> QED
    BY <2>1, <2>2
<1>4. RunsOfKeys' /\ \A m \in Machines : m \notin lost' => Alone(m)'
  BY <1>1, <1>3, RunsMove
<1> QED
  BY <1>2, <1>4 DEF KeysInv

\* A key that is minted has the only row of its number, and the one it took is replaced.
LEMMA MintSteps ==
    ASSUME KeysInv, Mints \in Nat, NEW q \in Requests, K!Mint(q) PROVE KeysInv'
<1>0. PICK old \in KeyRun, s \in Servers, p \in Projects \cup {NoProject}, k \in Nat :
          /\ old = keyRun[q] /\ s = old.server /\ p = old.project /\ k = minted + 1 /\ old.at = "mint"
          /\ old.machine \in Machines
  <2>1. keyRun[q] \in KeyRun /\ keyRun[q].at = "mint" /\ keyRun[q].machine \in Machines /\ keyRun[q].server \in Servers
    BY DEF K!Mint, KeysInv, RunsOfKeys
  <2>2. keyRun[q].project \in Projects \cup {NoProject}
    BY <2>1 DEF KeyRun
  <2>3. minted + 1 \in Nat
    BY DEF KeysInv, RowsOfKeys
  <2> QED
    BY <2>1, <2>2, <2>3
<1> DEFINE slot == K!SlotOf(s, p)
           row == [server |-> s, project |-> p, id |-> k, key |-> k, revoked |-> FALSE]
<1>1. /\ minted' = k /\ minted < Mints /\ keyRows' = (keyRows \ slot) \cup {row}
      /\ replaced' = replaced \cup {x.key : x \in slot}
      /\ keyRun' = [keyRun EXCEPT ![q] = [old EXCEPT !.at = "read", !.key = k]]
      /\ UNCHANGED <<file, temp, told, revoked, saved, lost, revokes, keyFails>>
  BY <1>0 DEF K!Mint, K!Set, K!Rotated
<1>2. /\ slot \subseteq keyRows
      /\ \A x \in slot : x.project # NoProject
  BY <1>0 DEF K!SlotOf
<1>3. row \in KeyRow /\ row.key = k /\ row.id = k /\ row.server = s /\ ~ row.revoked
  BY DEF KeyRow
<1>4. minted \in Nat /\ k # 0 /\ minted < k /\ k <= Mints
  BY <1>0, <1>1 DEF KeysInv, RowsOfKeys
<1> HIDE DEF slot, row
<1>5. \A x \in keyRows : /\ x \in KeyRow /\ x.key \in Nat /\ x.key <= minted /\ x.id = x.key
                         /\ (x.key = 0 => x.project = NoProject)
  BY DEF KeysInv, RowsOfKeys, KeyRow
<1>6. \A x \in keyRows' : x \in keyRows \ slot \/ x = row
  BY <1>1
<1>7. \A x, y \in keyRows : x.key = y.key /\ (x.key # 0 \/ x.server = y.server) => x = y
  BY DEF KeysInv, RowsOfKeys
<1>8. replaced \subseteq 1..minted /\ \A x \in slot : x.key \in 1..minted
  BY <1>2, <1>4, <1>5 DEF KeysInv, RowsOfKeys
<1>9. \A t \in told : t.key \in Nat /\ t.key <= minted
  BY DEF KeysInv, Told
<1>10. RowsOfKeys'
  <2>1. keyRows' \subseteq KeyRow /\ minted' \in 0..Mints
    BY <1>1, <1>3, <1>4, <1>5
  <2>2. \A x \in keyRows' : x.id = x.key /\ x.key <= minted' /\ (x.key = 0 => x.project = NoProject)
    BY <1>1, <1>3, <1>4, <1>5, <1>6
  <2>3. \A x, y \in keyRows' : x.key = y.key /\ (x.key # 0 \/ x.server = y.server) => x = y
    BY <1>3, <1>4, <1>5, <1>6, <1>7
  <2>4. ASSUME NEW x \in keyRows'
        PROVE  x.key \notin replaced' /\ (x.revoked <=> <<x.server, x.key>> \in revoked')
    <3>1. CASE x = row
      <4>1. k \notin replaced'
        BY <1>1, <1>4, <1>8
      <4>2. <<s, k>> \notin revoked
        <5> SUFFICES ASSUME <<s, k>> \in revoked PROVE FALSE
          OBVIOUS
        <5>1. PICK t \in told : <<s, k>> = <<t.server, t.key>>
          BY DEF KeysInv, RowsOfKeys
        <5>2. t.key = k
          BY <5>1
        <5> QED
          BY <1>4, <1>9, <5>2
      <4> QED
        BY <1>1, <1>3, <3>1, <4>1, <4>2
    <3>2. CASE x \in keyRows \ slot
      <4>1. x.key \notin replaced /\ (x.revoked <=> <<x.server, x.key>> \in revoked)
        BY <3>2 DEF KeysInv, RowsOfKeys
      <4>2. ASSUME NEW y \in slot, y.key = x.key PROVE FALSE
        BY <1>2, <1>5, <1>7, <3>2, <4>2
      <4> QED
        BY <1>1, <4>1, <4>2
    <3> QED
      BY <1>6, <3>1, <3>2
  <2>5. replaced' \subseteq 1..minted'
    BY <1>1, <1>4, <1>8
  <2>6. \A v \in revoked' : \E t \in told' : v = <<t.server, t.key>>
    BY <1>1 DEF KeysInv, RowsOfKeys
  <2> QED
    BY <2>1, <2>2, <2>3, <2>4, <2>5, <2>6 DEF RowsOfKeys
<1>11. Told'
  <2>1. told' \subseteq [server : Servers, id : Nat, key : Nat] /\ \A t \in told' : t.id = t.key /\ t.key <= minted'
    BY <1>1, <1>4, <1>9 DEF KeysInv, Told
  <2>2. ASSUME NEW t \in told', t.key \notin replaced'
        PROVE  \E x \in keyRows' : x.server = t.server /\ x.key = t.key
    <3>1. PICK x \in keyRows : x.server = t.server /\ x.key = t.key
      BY <1>1, <2>2 DEF KeysInv, Told
    <3>2. x \notin slot
      BY <1>1, <2>2, <3>1
    <3> QED
      BY <1>1, <3>1, <3>2
  <2> QED
    BY <2>1, <2>2 DEF Told
<1>12. RunsOfKeys' /\ \A m \in Machines : m \notin lost' => Alone(m)'
  <2> DEFINE to == [old EXCEPT !.at = "read", !.key = k]
  <2>1. to \in KeyRun /\ to.at = "read" /\ to.machine = old.machine /\ to.server = s /\ to.key = k /\ to.base = old.base
    BY <1>0 DEF KeyRun, KeyAts
  <2>2. keyRun' = [keyRun EXCEPT ![q] = to]
    BY <1>1
  <2> HIDE DEF to
  <2>3. \A i \in DOMAIN old.base : old.base[i].key \in 1..minted
    BY <1>0 DEF KeysInv, RunsOfKeys
  <2>4. KeyHeld(to)'
    BY <1>0, <1>1, <1>4, <2>1, <2>3 DEF KeyHeld
  <2>5. minted' \in Nat /\ minted <= minted' /\ revokes' \in 0..Revokes /\ keyFails' \in 0..KeyFails
    BY <1>1, <1>4 DEF KeysInv, RunsOfKeys
  <2> QED
    BY <1>1, <2>1, <2>2, <2>4, <2>5, RunsMove
<1> QED
  BY <1>10, <1>11, <1>12 DEF KeysInv

LEMMA AnswerSteps ==
    ASSUME KeysInv, NEW q \in Requests, K!ReadBack(q) PROVE KeysInv'
<1>0. PICK old \in KeyRun : old = keyRun[q]
  BY DEF KeysInv, RunsOfKeys
<1> DEFINE to == [old EXCEPT !.at = "load"]
<1>1. /\ old.at = "read"
      /\ told' = told \cup {[server |-> old.server, id |-> x.id, key |-> x.key] :
                               x \in {y \in keyRows : y.server = old.server /\ y.key = old.key}}
      /\ keyRun' = [keyRun EXCEPT ![q] = to]
      /\ UNCHANGED <<keyRows, minted, revoked, replaced>> /\ UNCHANGED <<file, temp, saved, lost>>
      /\ UNCHANGED <<revokes, keyFails>>
  BY <1>0 DEF K!ReadBack, K!Go, K!Set
<1>2. RowsOfKeys'
  BY <1>1 DEF KeysInv, RowsOfKeys
<1>3. Told'
  <2>1. ASSUME NEW t \in told', t \notin told
        PROVE  /\ t \in [server : Servers, id : Nat, key : Nat] /\ t.id = t.key /\ t.key <= minted
               /\ \E x \in keyRows : x.server = t.server /\ x.key = t.key
    <3>1. PICK x \in keyRows : x.server = old.server /\ t = [server |-> old.server, id |-> x.id, key |-> x.key]
      BY <1>1, <2>1
    <3>2. x \in KeyRow /\ x.id = x.key /\ x.key <= minted
      BY DEF KeysInv, RowsOfKeys
    <3> QED
      BY <3>1, <3>2 DEF KeyRow
  <2> QED
    BY <1>1, <2>1 DEF KeysInv, Told
<1>4. RunsOfKeys' /\ \A m \in Machines : m \notin lost' => Alone(m)'
  <2>1. /\ to \in KeyRun /\ to.at = "load" /\ to.machine = old.machine /\ to.server = old.server
        /\ to.key = old.key /\ to.base = old.base
    BY KeyGoes DEF KeyAts
  <2> HIDE DEF to
  <2>2. KeyHeld(to)'
    BY <1>0, <1>1, <2>1 DEF KeysInv, RunsOfKeys, KeyHeld
  <2>3. minted' \in Nat /\ minted <= minted' /\ revokes' \in 0..Revokes /\ keyFails' \in 0..KeyFails
    BY <1>1 DEF KeysInv, RowsOfKeys, RunsOfKeys
  <2> QED
    BY <1>1, <2>1, <2>2, <2>3, RunsMove
<1> QED
  BY <1>2, <1>3, <1>4 DEF KeysInv

\* The steps at which no command moves: a start in dev mode and a revocation.
LEMMA FilesStay ==
    ASSUME KeysInv, UNCHANGED <<keyRun, file, temp, saved, lost, minted, keyFails>>, revokes' \in 0..Revokes
    PROVE  RunsOfKeys' /\ \A m \in Machines : m \notin lost' => Alone(m)'
<1>1. RunsOfKeys'
  BY DEF KeysInv, RunsOfKeys
<1>2. ASSUME NEW m \in Machines, m \notin lost' PROVE Alone(m)'
  <2>1. Alone(m)
    BY <1>2 DEF KeysInv
  <2> QED
    BY <2>1 DEF Alone, Saving
<1> QED
  BY <1>1, <1>2

LEMMA SeedSteps ==
    ASSUME KeysInv, NEW s \in Servers, K!DevSeed(s) PROVE KeysInv'
<1> DEFINE row == [server |-> s, project |-> NoProject, id |-> 0, key |-> 0, revoked |-> FALSE]
           answer == [server |-> s, id |-> 0, key |-> 0]
<1>1. /\ \A x \in keyRows : x.server = s => x.key # 0
      /\ keyRows' = keyRows \cup {row} /\ told' = told \cup {answer}
      /\ UNCHANGED <<keyRun, file, temp, saved, lost, minted, keyFails>>
      /\ UNCHANGED <<revoked, replaced, revokes>>
  BY DEF K!DevSeed, K!DevKey
<1>2. /\ row \in KeyRow /\ row.key = 0 /\ row.id = 0 /\ row.server = s /\ row.project = NoProject /\ ~ row.revoked
      /\ answer \in [server : Servers, id : Nat, key : Nat] /\ answer.server = s /\ answer.id = 0 /\ answer.key = 0
  BY DEF KeyRow
<1> HIDE DEF row, answer
<1>3. minted \in Nat /\ replaced \subseteq 1..minted /\ 0 \notin replaced
  BY DEF KeysInv, RowsOfKeys
<1>4. <<s, 0>> \notin revoked
  <2> SUFFICES ASSUME <<s, 0>> \in revoked PROVE FALSE
    OBVIOUS
  <2>1. PICK t \in told : <<s, 0>> = <<t.server, t.key>>
    BY DEF KeysInv, RowsOfKeys
  <2>2. PICK x \in keyRows : x.server = t.server /\ x.key = t.key
    BY <1>3, <2>1 DEF KeysInv, Told
  <2> QED
    BY <1>1, <2>1, <2>2
<1>5. RowsOfKeys'
  <2>1. keyRows' \subseteq KeyRow /\ minted' \in 0..Mints
    BY <1>1, <1>2 DEF KeysInv, RowsOfKeys
  <2>2. \A x \in keyRows' : x.id = x.key /\ x.key <= minted' /\ (x.key = 0 => x.project = NoProject)
    BY <1>1, <1>2, <1>3 DEF KeysInv, RowsOfKeys
  <2>3. \A x, y \in keyRows' : x.key = y.key /\ (x.key # 0 \/ x.server = y.server) => x = y
    BY <1>1, <1>2 DEF KeysInv, RowsOfKeys
  <2>4. \A x \in keyRows' : x.key \notin replaced' /\ (x.revoked <=> <<x.server, x.key>> \in revoked')
    BY <1>1, <1>2, <1>3, <1>4 DEF KeysInv, RowsOfKeys
  <2>5. replaced' \subseteq 1..minted' /\ \A v \in revoked' : \E t \in told' : v = <<t.server, t.key>>
    BY <1>1 DEF KeysInv, RowsOfKeys
  <2> QED
    BY <2>1, <2>2, <2>3, <2>4, <2>5 DEF RowsOfKeys
<1>6. Told'
  BY <1>1, <1>2, <1>3 DEF KeysInv, Told
<1>7. revokes' \in 0..Revokes
  BY <1>1 DEF KeysInv, RunsOfKeys
<1> QED
  BY <1>1, <1>5, <1>6, <1>7, FilesStay DEF KeysInv

\* A revocation is of the key that was told with the id.
LEMMA RevokeSteps ==
    ASSUME KeysInv, Revokes \in Nat, K!Revoke PROVE KeysInv'
<1>1. PICK t \in told :
          LET hit == {x \in keyRows : x.server = t.server /\ x.id = t.id /\ ~ x.revoked}
          IN  /\ hit # {} /\ keyRows' = (keyRows \ hit) \cup {[x EXCEPT !.revoked = TRUE] : x \in hit}
              /\ revoked' = revoked \cup {<<t.server, t.key>>}
  BY DEF K!Revoke
<1>2. /\ revokes < Revokes /\ revokes' = revokes + 1
      /\ UNCHANGED <<keyRun, file, temp, saved, lost, minted, keyFails>> /\ UNCHANGED <<told, replaced>>
  BY DEF K!Revoke
<1>3. t.id = t.key
  BY DEF KeysInv, Told
<1>4. PICK x \in keyRows : x.server = t.server /\ x.id = t.id /\ ~ x.revoked
  BY <1>1
<1>5. \A y \in keyRows : /\ y \in KeyRow /\ y.id = y.key /\ y.key <= minted /\ (y.key = 0 => y.project = NoProject)
                         /\ y.key \notin replaced /\ (y.revoked <=> <<y.server, y.key>> \in revoked)
  BY DEF KeysInv, RowsOfKeys
<1>6. \A y, z \in keyRows : y.key = z.key /\ (y.key # 0 \/ y.server = z.server) => y = z
  BY DEF KeysInv, RowsOfKeys
<1>7. {y \in keyRows : y.server = t.server /\ y.id = t.id /\ ~ y.revoked} = {x}
  BY ZenonT(60), <1>4, <1>5, <1>6
<1> DEFINE gone == [x EXCEPT !.revoked = TRUE]
<1>8. keyRows' = (keyRows \ {x}) \cup {gone}
  BY <1>1, <1>7
<1>9. /\ gone \in KeyRow /\ gone.key = x.key /\ gone.id = x.id /\ gone.server = x.server
      /\ gone.project = x.project /\ gone.revoked
  BY <1>5 DEF KeyRow
<1> HIDE DEF gone
<1>10. \A y \in keyRows' : y = gone \/ (y \in keyRows /\ y # x)
  BY <1>8
<1>11. RowsOfKeys'
  <2>1. keyRows' \subseteq KeyRow /\ minted' \in 0..Mints
    BY <1>2, <1>5, <1>9, <1>10 DEF KeysInv, RowsOfKeys
  <2>2. \A y \in keyRows' : y.id = y.key /\ y.key <= minted' /\ (y.key = 0 => y.project = NoProject)
    BY <1>2, <1>5, <1>9, <1>10
  <2>3. \A y, z \in keyRows' : y.key = z.key /\ (y.key # 0 \/ y.server = z.server) => y = z
    BY <1>6, <1>9, <1>10
  <2>4. ASSUME NEW y \in keyRows'
        PROVE  y.key \notin replaced' /\ (y.revoked <=> <<y.server, y.key>> \in revoked')
    <3>1. x.key = t.key
      BY <1>3, <1>4, <1>5
    <3>2. CASE y = gone
      BY <1>1, <1>2, <1>4, <1>5, <1>9, <3>1, <3>2
    <3>3. CASE y \in keyRows /\ y # x
      <4>1. <<y.server, y.key>> # <<t.server, t.key>>
        BY <1>4, <1>6, <3>1, <3>3
      <4> QED
        BY <1>1, <1>2, <1>5, <3>3, <4>1
    <3> QED
      BY <1>10, <3>2, <3>3
  <2>5. replaced' \subseteq 1..minted' /\ \A v \in revoked' : \E u \in told' : v = <<u.server, u.key>>
    BY <1>1, <1>2 DEF KeysInv, RowsOfKeys
  <2> QED
    BY <2>1, <2>2, <2>3, <2>4, <2>5 DEF RowsOfKeys
<1>12. Told'
  <2>1. told' \subseteq [server : Servers, id : Nat, key : Nat] /\ \A u \in told' : u.id = u.key /\ u.key <= minted'
    BY <1>2 DEF KeysInv, Told
  <2>2. ASSUME NEW u \in told', u.key \notin replaced'
        PROVE  \E y \in keyRows' : y.server = u.server /\ y.key = u.key
    <3>1. PICK y \in keyRows : y.server = u.server /\ y.key = u.key
      BY <1>2, <2>2 DEF KeysInv, Told
    <3> QED
      BY <1>8, <1>9, <3>1
  <2> QED
    BY <2>1, <2>2 DEF Told
<1>13. revokes' \in 0..Revokes
  BY <1>2 DEF KeysInv, RunsOfKeys
<1> QED
  BY <1>2, <1>11, <1>12, <1>13, FilesStay DEF KeysInv

\* The files: a save reads, writes beside, and renames.
LEMMA FileRuns ==
    ASSUME KeysInv, NEW q \in Requests, NEW k \in KeyRun, keyRun' = [keyRun EXCEPT ![q] = k], KeyHeld(k),
           UNCHANGED <<keyRows, minted, told, revoked, replaced, revokes, keyFails>>,
           file' \in [Machines -> Seq(Credential)],
           temp' \in [Machines -> [there : BOOLEAN, content : Seq(Credential)]],
           saved' \in [Machines -> [Servers -> Nat]],
           \A m \in Machines :
              /\ \A i \in DOMAIN file'[m] : file'[m][i].key \in 1..minted
              /\ \A i \in DOMAIN temp'[m].content : temp'[m].content[i].key \in 1..minted
    PROVE  RowsOfKeys' /\ Told' /\ RunsOfKeys'
<1>1. RowsOfKeys' /\ Told'
  BY RowsLast DEF KeysInv
<1>2. keyRun' \in [Requests -> KeyRun] /\ \A r \in Requests : keyRun'[r] = IF r = q THEN k ELSE keyRun[r]
  BY DEF KeysInv, RunsOfKeys
<1>3. ASSUME NEW r \in Requests
      PROVE  /\ keyRun'[r].at # "idle" => keyRun'[r].machine \in Machines /\ keyRun'[r].server \in Servers
             /\ keyRun'[r].at \in {"read", "load", "write", "rename"} => keyRun'[r].key \in 1..minted'
             /\ \A i \in DOMAIN keyRun'[r].base : keyRun'[r].base[i].key \in 1..minted'
  <2>1. CASE r = q
    BY <1>2, <2>1 DEF KeyHeld
  <2>2. CASE r # q
    <3>1. keyRun'[r] = keyRun[r]
      BY <1>2, <2>2
    <3> QED
      BY <3>1 DEF KeysInv, RunsOfKeys
  <2> QED
    BY <2>1, <2>2
<1>4. revokes' \in 0..Revokes /\ keyFails' \in 0..KeyFails
  BY DEF KeysInv, RunsOfKeys
<1>5. \A m \in Machines :
        /\ \A i \in DOMAIN file'[m] : file'[m][i].key \in 1..minted'
        /\ \A i \in DOMAIN temp'[m].content : temp'[m].content[i].key \in 1..minted'
  OBVIOUS
<1> QED
  BY <1>1, <1>2, <1>3, <1>4, <1>5 DEF RunsOfKeys

LEMMA LoadSteps ==
    ASSUME KeysInv, NEW q \in Requests, K!Load(q) PROVE KeysInv'
<1>0. PICK old \in KeyRun, m \in Machines, base \in Seq(Credential) :
          old = keyRun[q] /\ m = old.machine /\ base = file[m] /\ old.at = "load"
  BY DEF K!Load, KeysInv, RunsOfKeys
<1> DEFINE k == [old EXCEPT !.at = "write", !.base = base]
<1>1. /\ keyRun' = [keyRun EXCEPT ![q] = k]
      /\ lost' = IF \E r \in Requests \ {q} : Saving(r, m) THEN lost \cup {m} ELSE lost
      /\ UNCHANGED <<keyRows, minted, told, revoked, replaced, revokes, keyFails>>
      /\ UNCHANGED <<file, temp, saved>>
  BY <1>0 DEF K!Load, K!Set, Saving
<1>2. /\ k \in KeyRun /\ k.at = "write" /\ k.machine = m /\ k.server = old.server
      /\ k.key = old.key /\ k.base = base
  BY <1>0 DEF KeyRun, KeyAts
<1> HIDE DEF k
<1>3. KeyHeld(k)
  BY <1>0, <1>2 DEF KeyHeld, KeysInv, RunsOfKeys
<1>4. RowsOfKeys' /\ Told' /\ RunsOfKeys'
  BY <1>1, <1>2, <1>3, FileRuns DEF KeysInv, RunsOfKeys
<1>5. \A r \in Requests : keyRun'[r] = IF r = q THEN k ELSE keyRun[r]
  BY <1>1 DEF KeysInv, RunsOfKeys
<1>6. ASSUME NEW n \in Machines, n \notin lost' PROVE Alone(n)'
  <2>1. Alone(n)
    BY <1>1, <1>6 DEF KeysInv
  <2>2. CASE n # m
    <3>1. \A r \in Requests : Saving(r, n)' => keyRun'[r] = keyRun[r] /\ Saving(r, n)
      BY <1>0, <1>2, <1>5, <2>2 DEF Saving
    <3> QED
      BY <1>1, <2>1, <3>1 DEF Alone
  <2>3. CASE n = m
    <3>1. \A r \in Requests : Saving(r, n)' => r = q
      BY <1>1, <1>5, <1>6, <2>3 DEF Saving
    <3> QED
      BY <1>0, <1>1, <1>2, <1>5, <2>1, <2>3, <3>1 DEF Alone
  <2> QED
    BY <2>2, <2>3
<1> QED
  BY <1>4, <1>6 DEF KeysInv

LEMMA WriteSteps ==
    ASSUME KeysInv, NEW q \in Requests, K!WriteTemp(q) PROVE KeysInv'
<1>0. PICK old \in KeyRun, m \in Machines, s \in Servers, key \in Nat, content \in Seq(Credential) :
          /\ old = keyRun[q] /\ m = old.machine /\ s = old.server /\ key = old.key /\ old.at = "write"
          /\ content = K!Upsert(old.base, s, key)
  <2>1. /\ keyRun[q] \in KeyRun /\ keyRun[q].at = "write"
        /\ keyRun[q].machine \in Machines /\ keyRun[q].server \in Servers
    BY DEF K!WriteTemp, KeysInv, RunsOfKeys
  <2>2. keyRun[q].key \in Nat /\ keyRun[q].base \in Seq(Credential)
    BY <2>1 DEF KeyRun
  <2>3. PICK d : d = K!Upsert(keyRun[q].base, keyRun[q].server, keyRun[q].key)
    OBVIOUS
  <2>4. Upserted(keyRun[q].base, keyRun[q].server, keyRun[q].key, d)
    BY <2>1, <2>2, <2>3, UpsertIs
  <2>5. d \in Seq(Credential)
    BY <2>4 DEF Upserted
  <2> QED
    BY <2>1, <2>2, <2>3, <2>5
<1> DEFINE k == [old EXCEPT !.at = "rename"]
           x == [there |-> TRUE, content |-> content]
<1>1. /\ keyRun' = [keyRun EXCEPT ![q] = k] /\ temp' = [temp EXCEPT ![m] = x]
      /\ UNCHANGED <<keyRows, minted, told, revoked, replaced, revokes, keyFails>>
      /\ UNCHANGED <<file, saved, lost>>
  BY <1>0 DEF K!WriteTemp, K!Go, K!Set
<1>2. /\ k \in KeyRun /\ k.at = "rename" /\ k.machine = m /\ k.server = s /\ k.key = key /\ k.base = old.base
  BY <1>0, KeyGoes DEF KeyAts
<1>3. x \in [there : BOOLEAN, content : Seq(Credential)] /\ x.there /\ x.content = content
  OBVIOUS
<1> HIDE DEF k, x
<1>4. /\ temp' \in [Machines -> [there : BOOLEAN, content : Seq(Credential)]]
      /\ \A n \in Machines : temp'[n] = IF n = m THEN x ELSE temp[n]
  BY <1>1, <1>3 DEF KeysInv, RunsOfKeys
<1>5. KeyHeld(old) /\ KeyHeld(k)
  BY <1>0, <1>2 DEF KeyHeld, KeysInv, RunsOfKeys
<1>6. \A i \in DOMAIN content : content[i].key \in 1..minted
  <2>1. old.base \in Seq(Credential) /\ key \in 1..minted
    BY <1>0, <1>5 DEF KeyRun, KeyHeld
  <2>2. \A i \in DOMAIN content : content[i].key = key \/ (i \in DOMAIN old.base /\ content[i].key = old.base[i].key)
    <3> DEFINE base == old.base
    <3>1. base \in Seq(Credential) /\ content = K!Upsert(base, s, key)
      BY <1>0, <2>1
    <3> HIDE DEF base
    <3>2. Upserted(base, s, key, content)
      BY <3>1, UpsertIs
    <3>3. \A i \in DOMAIN content : content[i].key = key \/ (i \in DOMAIN base /\ content[i].key = base[i].key)
      BY <3>2 DEF Upserted
    <3> QED
      BY <3>3 DEF base
  <2> QED
    BY <1>5, <2>1, <2>2 DEF KeyHeld
<1>7. RowsOfKeys' /\ Told' /\ RunsOfKeys'
  <2>1. \A n \in Machines :
          /\ \A i \in DOMAIN file'[n] : file'[n][i].key \in 1..minted
          /\ \A i \in DOMAIN temp'[n].content : temp'[n].content[i].key \in 1..minted
    BY <1>1, <1>3, <1>4, <1>6 DEF KeysInv, RunsOfKeys
  <2>2. file' \in [Machines -> Seq(Credential)] /\ saved' \in [Machines -> [Servers -> Nat]]
    BY <1>1 DEF KeysInv, RunsOfKeys
  <2> QED
    BY <1>1, <1>2, <1>4, <1>5, <2>1, <2>2, FileRuns
<1>8. \A r \in Requests : keyRun'[r] = IF r = q THEN k ELSE keyRun[r]
  BY <1>1 DEF KeysInv, RunsOfKeys
<1>9. ASSUME NEW n \in Machines, n \notin lost' PROVE Alone(n)'
  <2>1. Alone(n)
    BY <1>1, <1>9 DEF KeysInv
  <2>2. CASE n # m
    <3>1. \A r \in Requests : Saving(r, n)' => keyRun'[r] = keyRun[r] /\ Saving(r, n)
      BY <1>2, <1>8, <2>2 DEF Saving
    <3>2. temp'[n] = temp[n]
      BY <1>4, <2>2
    <3> QED
      BY <1>1, <2>1, <3>1, <3>2 DEF Alone
  <2>3. CASE n = m
    <3>1. Saving(q, n) /\ old.base = file[n]
      BY <1>0, <2>1, <2>3 DEF Alone, Saving
    <3>2. \A r \in Requests : Saving(r, n)' => r = q
      BY <1>8, <2>1, <3>1 DEF Alone, Saving
    <3>3. temp'[n].there /\ temp'[n].content = K!Upsert(file[n], s, key)
      BY <1>0, <1>3, <1>4, <2>3, <3>1
    <3> QED
      BY <1>1, <1>2, <1>8, <2>1, <2>3, <3>2, <3>3 DEF Alone
  <2> QED
    BY <2>2, <2>3
<1> QED
  BY <1>7, <1>9 DEF KeysInv

LEMMA RenameSteps ==
    ASSUME KeysInv, NEW q \in Requests, K!Rename(q) PROVE KeysInv'
<1>0. PICK old \in KeyRun, m \in Machines, s \in Servers, key \in Nat :
          /\ old = keyRun[q] /\ m = old.machine /\ s = old.server /\ key = old.key /\ old.at = "rename"
          /\ key \in 1..minted
  BY DEF K!Rename, KeysInv, RunsOfKeys, KeyRun
<1>1. /\ keyRun' = [keyRun EXCEPT ![q] = K!Idle]
      /\ UNCHANGED <<keyRows, minted, told, revoked, replaced, revokes, keyFails>> /\ UNCHANGED lost
  BY DEF K!Rename, K!Set
<1>2. \A r \in Requests : keyRun'[r] = IF r = q THEN K!Idle ELSE keyRun[r]
  BY <1>1 DEF KeysInv, RunsOfKeys
<1>3. \A r \in Requests, n \in Machines : Saving(r, n)' => keyRun'[r] = keyRun[r] /\ Saving(r, n) /\ r # q
  BY <1>2, KeyIdle DEF Saving
<1>4. KeyHeld(K!Idle)
  BY KeyIdle DEF KeyHeld
<1>5. CASE ~ temp[m].there
  <2>1. UNCHANGED <<file, temp, saved>>
    BY <1>0, <1>5 DEF K!Rename
  <2>2. RowsOfKeys' /\ Told' /\ RunsOfKeys'
    BY <1>1, <1>4, <2>1, KeyIdle, FileRuns DEF KeysInv, RunsOfKeys
  <2>3. ASSUME NEW n \in Machines, n \notin lost' PROVE Alone(n)'
    <3>1. Alone(n)
      BY <1>1, <2>3 DEF KeysInv
    <3> QED
      BY <1>3, <2>1, <3>1 DEF Alone
  <2> QED
    BY <2>2, <2>3 DEF KeysInv
<1>6. CASE temp[m].there
  <2>1. PICK content \in Seq(Credential) : content = temp[m].content
    BY DEF KeysInv, RunsOfKeys
  <2>2. /\ file' = [file EXCEPT ![m] = content] /\ temp' = [temp EXCEPT ![m] = K!NoTemp]
        /\ saved' = [saved EXCEPT ![m] = [saved[m] EXCEPT ![s] = key]]
    BY <1>0, <1>6, <2>1 DEF K!Rename
  <2>3. /\ file \in [Machines -> Seq(Credential)] /\ saved \in [Machines -> [Servers -> Nat]]
        /\ temp \in [Machines -> [there : BOOLEAN, content : Seq(Credential)]]
    BY DEF KeysInv, RunsOfKeys
  <2>4. K!NoTemp \in [there : BOOLEAN, content : Seq(Credential)] /\ DOMAIN K!NoTemp.content = {}
    <3>1. <<>> \in Seq(Credential) /\ DOMAIN <<>> = {}
      OBVIOUS
    <3> QED
      BY <3>1 DEF K!NoTemp
  <2>5. /\ file' \in [Machines -> Seq(Credential)]
        /\ temp' \in [Machines -> [there : BOOLEAN, content : Seq(Credential)]]
        /\ saved' \in [Machines -> [Servers -> Nat]]
        /\ \A n \in Machines : /\ file'[n] = IF n = m THEN content ELSE file[n]
                               /\ temp'[n] = IF n = m THEN K!NoTemp ELSE temp[n]
                               /\ n # m => saved'[n] = saved[n]
        /\ \A r \in Servers : saved'[m][r] = IF r = s THEN key ELSE saved[m][r]
    BY <2>2, <2>3, <2>4
  <2>6. \A n \in Machines :
          /\ \A i \in DOMAIN file'[n] : file'[n][i].key \in 1..minted
          /\ \A i \in DOMAIN temp'[n].content : temp'[n].content[i].key \in 1..minted
    BY <2>1, <2>4, <2>5 DEF KeysInv, RunsOfKeys
  <2>7. RowsOfKeys' /\ Told' /\ RunsOfKeys'
    BY <1>1, <1>4, <2>5, <2>6, KeyIdle, FileRuns
  <2>8. ASSUME NEW n \in Machines, n \notin lost' PROVE Alone(n)'
    <3>1. Alone(n)
      BY <1>1, <2>8 DEF KeysInv
    <3>2. CASE n # m
      <4>1. file'[n] = file[n] /\ temp'[n] = temp[n] /\ saved'[n] = saved[n]
        BY <2>5, <3>2
      <4> QED
        BY <1>3, <3>1, <4>1 DEF Alone
    <3>3. CASE n = m
      <4>1. Saving(q, n) /\ content = K!Upsert(file[n], s, key)
        BY <1>0, <2>1, <3>1, <3>3 DEF Alone, Saving
      <4>2. \A r \in Requests : ~ Saving(r, n)'
        BY <1>3, <3>1, <4>1 DEF Alone
      <4>3. \A r \in Servers : K!LoadCredential(content, r) = IF r = s THEN key ELSE K!LoadCredential(file[n], r)
        <5>1. PICK base \in Seq(Credential) : base = file[n]
          BY <2>3
        <5>2. content = K!Upsert(base, s, key)
          BY <4>1, <5>1
        <5>3. Upserted(base, s, key, content)
          BY <5>2, UpsertIs
        <5>4. \A r \in Servers : K!LoadCredential(content, r) = IF r = s THEN key ELSE K!LoadCredential(base, r)
          BY <5>3 DEF Upserted
        <5> QED
          BY <5>1, <5>4
      <4>4. \A r \in Servers : K!LoadCredential(file'[n], r) = saved'[n][r]
        BY ZenonT(60), <2>5, <3>1, <3>3, <4>3 DEF Alone
      <4> QED
        BY <4>2, <4>4 DEF Alone
    <3> QED
      BY <3>2, <3>3
  <2> QED
    BY <2>7, <2>8 DEF KeysInv
<1> QED
  BY <1>5, <1>6

LEMMA KeysStep ==
    ASSUME Mints \in Nat, Revokes \in Nat, KeyFails \in Nat, DevServers \subseteq Servers,
           KeysInv, [K!Next]_K!keysVars
    PROVE  KeysInv'
<1>1. CASE UNCHANGED K!keysVars
  <2>1. /\ UNCHANGED <<keyRows, minted, told, revoked, replaced>> /\ UNCHANGED <<revokes, keyFails>>
        /\ UNCHANGED <<keyRun, file, temp, saved, lost>>
    BY <1>1 DEF K!keysVars
  <2>2. revokes' \in 0..Revokes
    BY <2>1 DEF KeysInv, RunsOfKeys
  <2>3. UNCHANGED <<keyRun, file, temp, saved, lost, minted, keyFails>>
    BY <2>1
  <2> QED
    BY <2>1, <2>2, <2>3, RowsLast, FilesStay DEF KeysInv
<1>2. ASSUME NEW q \in Requests, K!Login(q) \/ K!MintedOver(q) \/ K!CutOff(q) PROVE KeysInv'
  BY <1>2, CommandSteps
<1>3. ASSUME NEW q \in Requests, K!Mint(q) PROVE KeysInv'
  BY <1>3, MintSteps
<1>4. ASSUME NEW q \in Requests, K!ReadBack(q) PROVE KeysInv'
  BY <1>4, AnswerSteps
<1>5. ASSUME NEW q \in Requests, K!Load(q) PROVE KeysInv'
  BY <1>5, LoadSteps
<1>6. ASSUME NEW q \in Requests, K!WriteTemp(q) PROVE KeysInv'
  BY <1>6, WriteSteps
<1>7. ASSUME NEW q \in Requests, K!Rename(q) PROVE KeysInv'
  BY <1>7, RenameSteps
<1>8. ASSUME NEW s \in DevServers, K!DevSeed(s) PROVE KeysInv'
  BY <1>8, SeedSteps
<1>9. ASSUME K!Revoke PROVE KeysInv'
  BY <1>9, RevokeSteps
<1> QED
  BY <1>1, <1>2, <1>3, <1>4, <1>5, <1>6, <1>7, <1>8, <1>9 DEF K!Next

LEMMA KeysInit == ASSUME Mints \in Nat, Revokes \in Nat, KeyFails \in Nat, K!Init PROVE KeysInv
<1>1. /\ keyRows = {} /\ minted = 0 /\ told = {} /\ revoked = {} /\ replaced = {}
      /\ file = [m \in Machines |-> <<>>] /\ temp = [m \in Machines |-> K!NoTemp]
      /\ keyRun = [q \in Requests |-> K!Idle]
      /\ saved = [m \in Machines |-> [s \in Servers |-> 0]]
      /\ revokes = 0 /\ keyFails = 0
  BY DEF K!Init
<1>2. <<>> \in Seq(Credential) /\ DOMAIN <<>> = {}
  OBVIOUS
<1>3. K!NoTemp \in [there : BOOLEAN, content : Seq(Credential)] /\ DOMAIN K!NoTemp.content = {}
  BY <1>2 DEF K!NoTemp
<1>4. RowsOfKeys /\ Told
  BY <1>1 DEF RowsOfKeys, Told
<1>5. RunsOfKeys
  <2>1. keyRun \in [Requests -> KeyRun] /\ \A q \in Requests : keyRun[q].at = "idle" /\ DOMAIN keyRun[q].base = {}
    BY <1>1, KeyIdle
  <2>2. /\ file \in [Machines -> Seq(Credential)] /\ \A m \in Machines : DOMAIN file[m] = {}
        /\ temp \in [Machines -> [there : BOOLEAN, content : Seq(Credential)]]
        /\ \A m \in Machines : DOMAIN temp[m].content = {}
    BY <1>1, <1>2, <1>3
  <2>3. saved \in [Machines -> [Servers -> Nat]] /\ revokes \in 0..Revokes /\ keyFails \in 0..KeyFails
    BY <1>1
  <2> QED
    BY <2>1, <2>2, <2>3 DEF RunsOfKeys
<1>6. ASSUME NEW m \in Machines PROVE Alone(m)
  <2>1. \A q \in Requests : ~ Saving(q, m)
    BY <1>1, KeyIdle DEF Saving
  <2>2. ASSUME NEW s \in Servers PROVE K!LoadCredential(file[m], s) = saved[m][s]
    <3>1. K!CredentialOf(<<>>, s) = 0
      BY <1>2, FirstIs
    <3> QED
      BY <1>1, <3>1 DEF K!LoadCredential
  <2> QED
    BY <2>1, <2>2 DEF Alone
<1> QED
  BY <1>4, <1>5, <1>6 DEF KeysInv

\* A key a caller was told works until it is revoked or replaced, and not after; and a machine
\* on which no two saves met presents the key it saved last (internal/auth/store.go,
\* internal/cliconfig/credstore.go).
THEOREM KeysAreSound ==
    Mints \in Nat /\ Revokes \in Nat /\ KeyFails \in Nat /\ DevServers \subseteq Servers =>
        (K!Spec => [](K!TypeOK /\ K!KeysWork /\ K!SavedIsPresented))
<1> SUFFICES ASSUME Mints \in Nat, Revokes \in Nat, KeyFails \in Nat, DevServers \subseteq Servers
             PROVE  K!Spec => [](K!TypeOK /\ K!KeysWork /\ K!SavedIsPresented)
  OBVIOUS
<1>1. K!Init => KeysInv
  BY KeysInit
<1>2. KeysInv /\ [K!Next]_K!keysVars => KeysInv'
  BY KeysStep
<1>3. KeysInv => K!TypeOK /\ K!KeysWork /\ K!SavedIsPresented
  <2> SUFFICES ASSUME KeysInv PROVE K!TypeOK /\ K!KeysWork /\ K!SavedIsPresented
    OBVIOUS
  <2>1. K!TypeOK
    <3>1. ASSUME NEW x \in keyRows
          PROVE  x \in [server : Servers, project : Projects \cup {NoProject}, id : 0..Mints,
                        key : 0..Mints, revoked : BOOLEAN]
      <4>1. x \in KeyRow /\ x.id = x.key /\ x.key <= minted /\ minted \in 0..Mints
        BY DEF KeysInv, RowsOfKeys
      <4> QED
        BY <4>1 DEF KeyRow
    <3>2. \A m \in Machines : \A i \in DOMAIN file[m] : file[m][i].server \in Servers /\ file[m][i].key \in 1..minted
      <4> SUFFICES ASSUME NEW m \in Machines, NEW i \in DOMAIN file[m]
                   PROVE  file[m][i].server \in Servers /\ file[m][i].key \in 1..minted
        OBVIOUS
      <4>1. file[m] \in Seq(Credential) /\ file[m][i].key \in 1..minted
        BY DEF KeysInv, RunsOfKeys
      <4>2. file[m][i] \in Credential
        BY <4>1
      <4> QED
        BY <4>1, <4>2 DEF Credential
    <3>3. \A q \in Requests : keyRun[q].at \in KeyAts
      BY DEF KeysInv, RunsOfKeys, KeyRun
    <3>4. minted \in 0..Mints /\ revokes \in 0..Revokes /\ keyFails \in 0..KeyFails
      BY DEF KeysInv, RowsOfKeys, RunsOfKeys
    <3> QED
      BY <3>1, <3>2, <3>3, <3>4 DEF K!TypeOK, KeyAts
  <2>2. ASSUME NEW t \in told
        PROVE  K!Works(t.server, t.key) <=> <<t.server, t.key>> \notin revoked /\ t.key \notin replaced
    <3>1. \A x \in keyRows : x.key \notin replaced /\ (x.revoked <=> <<x.server, x.key>> \in revoked)
      BY DEF KeysInv, RowsOfKeys
    <3>2. t.key \notin replaced => \E x \in keyRows : x.server = t.server /\ x.key = t.key
      BY DEF KeysInv, Told
    <3> QED
      BY <3>1, <3>2 DEF K!Works
  <2>3. K!SavedIsPresented
    BY DEF KeysInv, Alone, K!SavedIsPresented
  <2> QED
    BY <2>1, <2>2, <2>3 DEF K!KeysWork
<1> QED
  BY <1>1, <1>2, <1>3, PTL DEF K!Spec

------------------------------------------------------------------------------
\* What a start of the server provides (Provision).
StarterAts == {"down", "knob", "read", "set", "insert", "update", "user", "hash",
               "secret?", "secret insert", "secret again", "up", "dead"}
\* The steps at which a start writes a credential, has hashed the password, and holds both.
WritesAt == {"set", "insert", "update"}
HashedAt == {"secret?", "secret insert", "secret again", "up"}
HoldsAt == {"user", "hash"} \cup HashedAt
EmailValues == {Nothing, 0, P!Chosen}
PasswordValues == {Nothing, P!Chosen} \cup 1..Boots
ChosenValues == {Nothing, P!Chosen}
Starter ==
    [at : StarterAts, cred : {"", "email", "password"}, email : EmailValues,
     password : PasswordValues, secret : {Nothing} \cup 1..Boots, boot : 0..Boots]

ProvisionTyped ==
    /\ knob \in EmailValues
    /\ cred \in [P!Creds -> EmailValues \cup PasswordValues]
    /\ cred["email"] \in EmailValues /\ cred["password"] \in PasswordValues
    /\ devUser \in [email : EmailValues, password : PasswordValues]
    /\ secret \in {Nothing} \cup 1..Boots /\ starter \in [Instances -> Starter]
    /\ crossed \subseteq P!Creds /\ late \in BOOLEAN
    /\ chosen \in [knob : ChosenValues, email : ChosenValues, password : ChosenValues]
    /\ boots \in 0..Boots /\ sets \in 0..OperatorSets /\ cuts \in 0..Cuts

\* What a start that is where k is knows, and what that says of the tables.
HasCredentials(k) ==
    /\ k.at # "down" => k.boot # 0
    /\ k.at \in {"read"} \cup WritesAt => k.cred \in P!Creds
    /\ k.at \in HoldsAt => k.cred = "password" /\ cred["password"] # Nothing
    /\ chosen.email = Nothing /\ k.cred = "password" => k.email = 0
    /\ k.password = P!Chosen => chosen.password = P!Chosen
HasPrincipal(k) ==
    /\ k.at \in {"user", "hash"} /\ "password" \notin crossed /\ ~ late => k.password = cred["password"]
    /\ k.at \in HashedAt /\ "password" \notin crossed /\ ~ late /\ cred["password"] = k.password =>
          devUser.password = cred["password"]
HasSecret(k) ==
    /\ k.at = "secret again" => secret # Nothing
    /\ k.at = "up" => k.secret = secret /\ secret # Nothing
    /\ k.at = "dead" => chosen.email # Nothing \/ crossed # {}
Provided(k) == HasCredentials(k) /\ HasPrincipal(k) /\ HasSecret(k)

\* Only what the operator set is the operator's.
OperatorsOwn ==
    /\ chosen.email = Nothing => cred["email"] # P!Chosen /\ devUser.email # P!Chosen
    /\ cred["password"] = P!Chosen => chosen.password = P!Chosen

\* The start that writes a credential on which no two meet writes the first.
WritesOf(k, c) == k.at \in WritesAt /\ k.cred = c
WritesFirst(c) ==
    /\ \A q, r \in Instances : WritesOf(starter[q], c) /\ WritesOf(starter[r], c) => q = r
    /\ \A q \in Instances : WritesOf(starter[q], c) => starter[q].at # "update" /\ cred[c] = Nothing

ProvisionInv ==
    /\ ProvisionTyped /\ (\A s \in Instances : Provided(starter[s]))
    /\ OperatorsOwn /\ (\A c \in P!Creds : c \notin crossed => WritesFirst(c)) /\ P!OperatorStands

ProvisionBounds == Boots \in Nat /\ OperatorSets \in Nat /\ Cuts \in Nat /\ Nothing \notin Nat

LEMMA ValuesApart ==
    ASSUME ProvisionBounds
    PROVE  /\ P!Chosen # Nothing /\ P!Chosen # 0 /\ P!Chosen \notin 0..Boots
           /\ Nothing # 0 /\ Nothing \notin 0..Boots /\ 0 \notin PasswordValues
           /\ \A b \in 0..Boots : b # 0 => b \in 1..Boots
BY DEF ProvisionBounds, P!Chosen, PasswordValues

\* A start moves on, or dies, and the tables stay as they are.
LEMMA StarterMoves ==
    ASSUME ProvisionInv, NEW s \in Instances, NEW k \in Starter, Provided(k)',
           starter' = [starter EXCEPT ![s] = k],
           UNCHANGED <<knob, cred, devUser, secret, chosen, late, sets>>,
           crossed \subseteq crossed', crossed' \subseteq P!Creds,
           boots' \in 0..Boots, cuts' \in 0..Cuts,
           \A c \in P!Creds : c \notin crossed' /\ WritesOf(k, c) =>
               /\ k.at # "update" /\ cred[c] = Nothing
               /\ \A q \in Instances \ {s} : ~ WritesOf(starter[q], c)
    PROVE  ProvisionInv'
<1>1. \A q \in Instances : starter'[q] = IF q = s THEN k ELSE starter[q]
  BY DEF ProvisionInv, ProvisionTyped
<1>2. ProvisionTyped'
  BY DEF ProvisionInv, ProvisionTyped
<1>3. ASSUME NEW q \in Instances PROVE Provided(starter[q])'
  <2>1. CASE q = s
    BY ZenonT(60), <1>1, <2>1 DEF Provided, HasCredentials, HasPrincipal, HasSecret
  <2>2. CASE q # s
    <3>1. Provided(starter[q]) /\ starter'[q] = starter[q]
      BY <1>1, <2>2 DEF ProvisionInv
    <3> QED
      BY ZenonT(60), <3>1 DEF Provided, HasCredentials, HasPrincipal, HasSecret
  <2> QED
    BY <2>1, <2>2
<1>4. OperatorsOwn' /\ P!OperatorStands'
  BY DEF ProvisionInv, OperatorsOwn, P!OperatorStands
<1>5. ASSUME NEW c \in P!Creds, c \notin crossed' PROVE WritesFirst(c)'
  <2>1. WritesFirst(c)
    BY <1>5 DEF ProvisionInv
  <2> QED
    BY <1>1, <1>5, <2>1 DEF WritesFirst, WritesOf
<1> QED
  BY <1>2, <1>3, <1>4, <1>5 DEF ProvisionInv

LEMMA StarterGoes ==
    ASSUME NEW s \in Instances, NEW old \in Starter, old = starter[s], NEW at \in StarterAts
    PROVE  \E k \in Starter :
              /\ k.at = at /\ (P!Go(s, at) => starter' = [starter EXCEPT ![s] = k])
              /\ k.cred = old.cred /\ k.email = old.email /\ k.password = old.password
              /\ k.secret = old.secret /\ k.boot = old.boot
<1>1. PICK k : k = [old EXCEPT !.at = at]
  OBVIOUS
<1>2. /\ k \in Starter /\ k.at = at /\ k.cred = old.cred /\ k.email = old.email
      /\ k.password = old.password /\ k.secret = old.secret /\ k.boot = old.boot
  BY <1>1 DEF Starter
<1>3. P!Go(s, at) => starter' = [starter EXCEPT ![s] = k]
  BY <1>1 DEF P!Go
<1> QED
  BY <1>2, <1>3

LEMMA DownIs ==
    ASSUME ProvisionBounds
    PROVE  P!Down \in Starter /\ P!Down.at = "down" /\ P!Down.cred = "" /\ P!Down.password = Nothing
BY DEF ProvisionBounds, P!Down, Starter, StarterAts, EmailValues, PasswordValues

\* A start begins, and one is cut off.
LEMMA BootSteps ==
    ASSUME ProvisionBounds, ProvisionInv, NEW s \in Instances, P!Start(s) \/ P!Cut(s)
    PROVE  ProvisionInv'
<1>1. CASE P!Start(s)
  <2>1. /\ boots' = boots + 1 /\ boots \in 0..Boots /\ boots < Boots
        /\ UNCHANGED <<knob, cred, devUser, secret, chosen, late, sets>> /\ UNCHANGED <<crossed, cuts>>
    BY <1>1 DEF P!Start, ProvisionInv, ProvisionTyped
  <2>2. PICK boot \in 0..Boots : boot = boots + 1 /\ boot # 0
    BY <2>1 DEF ProvisionBounds
  <2>3. PICK k : k = [P!Down EXCEPT !.at = "knob", !.boot = boot]
    OBVIOUS
  <2>4. k \in Starter /\ k.at = "knob" /\ k.cred = "" /\ k.password = Nothing /\ k.boot = boot
    BY <2>3, DownIs DEF Starter, StarterAts
  <2>5. starter' = [starter EXCEPT ![s] = k]
    BY <1>1, <2>2, <2>3 DEF P!Start
  <2>6. Provided(k)'
    BY <2>2, <2>4, ValuesApart
       DEF Provided, HasCredentials, HasPrincipal, HasSecret, WritesAt, HashedAt, HoldsAt
  <2>7. boots' \in 0..Boots /\ cuts' \in 0..Cuts /\ crossed' \subseteq P!Creds
    BY <2>1, <2>2 DEF ProvisionInv, ProvisionTyped
  <2> QED
    BY <2>1, <2>4, <2>5, <2>6, <2>7, StarterMoves DEF WritesOf, WritesAt
<1>2. CASE P!Cut(s)
  <2>1. /\ cuts' = cuts + 1 /\ cuts \in 0..Cuts /\ cuts < Cuts /\ starter' = [starter EXCEPT ![s] = P!Down]
        /\ UNCHANGED <<knob, cred, devUser, secret, chosen, late, sets>> /\ UNCHANGED <<crossed, boots>>
    BY <1>2 DEF P!Cut, ProvisionInv, ProvisionTyped
  <2>2. boots' \in 0..Boots /\ cuts' \in 0..Cuts /\ crossed' \subseteq P!Creds
    BY <2>1 DEF ProvisionInv, ProvisionTyped, ProvisionBounds
  <2>3. PICK k \in Starter : k = P!Down
    BY DownIs
  <2>4. Provided(k)'
    BY <2>3, DownIs, ValuesApart
       DEF Provided, HasCredentials, HasPrincipal, HasSecret, WritesAt, HashedAt, HoldsAt
  <2> QED
    BY <2>1, <2>2, <2>3, <2>4, DownIs, StarterMoves DEF WritesOf, WritesAt
<1> QED
  BY <1>1, <1>2

\* A default of a system variable.
LEMMA KnobSteps ==
    ASSUME ProvisionBounds, ProvisionInv, NEW s \in Instances, P!SeedKnob(s)
    PROVE  ProvisionInv'
<1>1. PICK old \in Starter : old = starter[s]
  BY DEF ProvisionInv, ProvisionTyped
<1>2. PICK k : k = [old EXCEPT !.at = "read", !.cred = "email"]
  OBVIOUS
<1>3. /\ k \in Starter /\ k.at = "read" /\ k.cred = "email" /\ k.password = old.password /\ k.boot = old.boot
  BY <1>2 DEF Starter, StarterAts
<1>4. /\ old.at = "knob" /\ starter' = [starter EXCEPT ![s] = k] /\ knob' = P!Seeded
      /\ UNCHANGED <<cred, devUser, secret, chosen, late, sets, crossed>> /\ UNCHANGED <<boots, cuts>>
  BY <1>1, <1>2 DEF P!SeedKnob
<1>5. \A q \in Instances : starter'[q] = IF q = s THEN k ELSE starter[q]
  BY <1>4 DEF ProvisionInv, ProvisionTyped
<1>6. knob' \in EmailValues /\ (knob # Nothing => knob' = knob)
  BY <1>4 DEF P!Seeded, ProvisionInv, ProvisionTyped, EmailValues
<1>7. ProvisionTyped'
  BY <1>3, <1>4, <1>6 DEF ProvisionInv, ProvisionTyped
<1>8. ASSUME NEW q \in Instances PROVE Provided(starter[q])'
  <2>1. Provided(starter[q]) /\ Provided(old)
    BY <1>1 DEF ProvisionInv
  <2>2. CASE q = s
    BY <1>3, <1>4, <1>5, <2>1, <2>2
       DEF Provided, HasCredentials, HasPrincipal, HasSecret, WritesAt, HashedAt, HoldsAt, P!Creds
  <2>3. CASE q # s
    BY ZenonT(60), <1>4, <1>5, <2>1, <2>3 DEF Provided, HasCredentials, HasPrincipal, HasSecret
  <2> QED
    BY <2>2, <2>3
<1>9. OperatorsOwn' /\ P!OperatorStands'
  BY <1>4, <1>6, ValuesApart DEF ProvisionInv, ProvisionTyped, OperatorsOwn, P!OperatorStands
<1>10. ASSUME NEW c \in P!Creds, c \notin crossed' PROVE WritesFirst(c)'
  <2>1. WritesFirst(c)
    BY <1>4, <1>10 DEF ProvisionInv
  <2>2. \A q \in Instances : WritesOf(starter[q], c)' => q # s /\ starter'[q] = starter[q]
    BY <1>3, <1>5 DEF WritesOf, WritesAt
  <2> QED
    BY <1>4, <2>1, <2>2 DEF WritesFirst, WritesOf
<1> QED
  BY <1>7, <1>8, <1>9, <1>10 DEF ProvisionInv

\* What a start has of a credential once it is past it.
LEMMA PastIs ==
    ASSUME NEW s \in Instances, NEW old \in Starter, old = starter[s], NEW v,
           old.cred = "email" => v \in EmailValues,
           old.cred # "email" => v \in PasswordValues
    PROVE  \E k \in Starter :
              /\ k = P!Past(s, v) /\ k.boot = old.boot
              /\ old.cred = "email" => k.at = "read" /\ k.cred = "password" /\ k.email = v /\ k.password = old.password
              /\ old.cred # "email" => k.at = "user" /\ k.cred = old.cred /\ k.email = old.email /\ k.password = v
<1>1. CASE old.cred = "email"
  <2>1. PICK k : k = [old EXCEPT !.at = "read", !.cred = "password", !.email = v]
    OBVIOUS
  <2>2. /\ k \in Starter /\ k.at = "read" /\ k.cred = "password" /\ k.email = v
        /\ k.password = old.password /\ k.boot = old.boot
    BY <1>1, <2>1 DEF Starter, StarterAts
  <2>3. k = P!Past(s, v)
    BY <1>1, <2>1 DEF P!Past
  <2> QED
    BY <1>1, <2>2, <2>3
<1>2. CASE old.cred # "email"
  <2>1. PICK k : k = [old EXCEPT !.at = "user", !.password = v]
    OBVIOUS
  <2>2. /\ k \in Starter /\ k.at = "user" /\ k.cred = old.cred /\ k.email = old.email
        /\ k.password = v /\ k.boot = old.boot
    BY <1>2, <2>1 DEF Starter, StarterAts
  <2>3. k = P!Past(s, v)
    BY <1>2, <2>1 DEF P!Past
  <2> QED
    BY <1>2, <2>2, <2>3
<1> QED
  BY <1>1, <1>2

\* A credential there is is taken; of one there is not, the start is about to write the first.
LEMMA ReadSteps ==
    ASSUME ProvisionBounds, ProvisionInv, NEW s \in Instances, P!ReadCred(s) \/ P!LookAgain(s)
    PROVE  ProvisionInv'
<1>1. PICK old \in Starter : old = starter[s] /\ Provided(old)
  BY DEF ProvisionInv, ProvisionTyped
<1>2. /\ UNCHANGED <<knob, cred, devUser, secret, chosen, late, sets>> /\ UNCHANGED <<boots, cuts>>
      /\ boots' \in 0..Boots /\ cuts' \in 0..Cuts
  BY DEF P!ReadCred, P!LookAgain, ProvisionInv, ProvisionTyped
<1>3. old.at \in {"read"} \cup WritesAt
  BY <1>1 DEF P!ReadCred, P!LookAgain, WritesAt
<1>4. old.cred \in P!Creds
  BY <1>1, <1>3 DEF Provided, HasCredentials
<1>5. CASE P!ReadCred(s) /\ cred[old.cred] # Nothing
  <2> DEFINE v == cred[old.cred]
  <2>1. /\ old.cred = "email" => v \in EmailValues
        /\ old.cred # "email" => v \in PasswordValues /\ old.cred = "password"
    BY <1>4 DEF ProvisionInv, ProvisionTyped, P!Creds
  <2>2. starter' = [starter EXCEPT ![s] = P!Past(s, v)] /\ UNCHANGED crossed
    BY <1>1, <1>5 DEF P!ReadCred
  <2> HIDE DEF v
  <2>3. PICK k \in Starter :
            /\ k = P!Past(s, v) /\ k.boot = old.boot
            /\ old.cred = "email" => k.at = "read" /\ k.cred = "password" /\ k.email = v /\ k.password = old.password
            /\ old.cred # "email" => k.at = "user" /\ k.cred = old.cred /\ k.email = old.email /\ k.password = v
    BY <1>1, <2>1, PastIs
  <2>4. Provided(k)'
    <3>1. CASE old.cred = "email"
      <4>1. k.at = "read" /\ k.cred = "password" /\ k.email = cred["email"] /\ k.password = old.password
        BY <2>3, <3>1 DEF v
      <4>2. chosen.email = Nothing => cred["email"] = 0
        BY <1>5, <3>1 DEF ProvisionInv, OperatorsOwn, ProvisionTyped, EmailValues
      <4> QED
        BY <1>1, <1>2, <1>3, <2>2, <2>3, <4>1, <4>2
           DEF Provided, HasCredentials, HasPrincipal, HasSecret, WritesAt, HashedAt, HoldsAt, P!Creds
    <3>2. CASE old.cred # "email"
      <4>1. /\ old.cred = "password" /\ k.at = "user" /\ k.cred = "password" /\ k.email = old.email
            /\ k.password = cred["password"]
        BY <2>1, <2>3, <3>2 DEF v
      <4>2. cred["password"] # Nothing /\ (cred["password"] = P!Chosen => chosen.password = P!Chosen)
        BY <1>5, <4>1 DEF ProvisionInv, OperatorsOwn
      <4> QED
        BY <1>1, <1>2, <1>3, <2>2, <2>3, <4>1, <4>2
           DEF Provided, HasCredentials, HasPrincipal, HasSecret, WritesAt, HashedAt, HoldsAt, P!Creds
    <3> QED
      BY <3>1, <3>2
  <2>5. k.at \notin WritesAt
    BY <2>3 DEF WritesAt
  <2>6. crossed' \subseteq P!Creds /\ starter' = [starter EXCEPT ![s] = k]
    BY <2>2, <2>3 DEF ProvisionInv, ProvisionTyped
  <2> QED
    BY <1>2, <2>2, <2>4, <2>5, <2>6, StarterMoves DEF WritesOf
<1>6. CASE P!ReadCred(s) /\ cred[old.cred] = Nothing
  <2>1. PICK k : k = [old EXCEPT !.at = "set"]
    OBVIOUS
  <2>2. /\ k \in Starter /\ k.at = "set" /\ k.cred = old.cred /\ k.email = old.email
        /\ k.password = old.password /\ k.boot = old.boot
    BY <2>1 DEF Starter, StarterAts
  <2>3. /\ starter' = [starter EXCEPT ![s] = k] /\ crossed \subseteq crossed' /\ crossed' \subseteq P!Creds
        /\ \A q \in Instances \ {s} : P!Writing(q, old.cred) => old.cred \in crossed'
    BY <1>1, <1>4, <1>6, <2>1 DEF P!ReadCred, ProvisionInv, ProvisionTyped
  <2>4. Provided(k)'
    BY <1>1, <1>2, <1>3, <1>4, <2>2, <2>3
       DEF Provided, HasCredentials, HasPrincipal, HasSecret, WritesAt, HashedAt, HoldsAt
  <2>5. ASSUME NEW c \in P!Creds, c \notin crossed', WritesOf(k, c)
        PROVE  /\ k.at # "update" /\ cred[c] = Nothing
               /\ \A q \in Instances \ {s} : ~ WritesOf(starter[q], c)
    <3>1. c = old.cred
      BY <2>2, <2>5 DEF WritesOf
    <3> QED
      BY <1>6, <2>2, <2>3, <2>5, <3>1 DEF WritesOf, WritesAt, P!Writing
  <2> QED
    BY <1>2, <2>2, <2>3, <2>4, <2>5, StarterMoves
<1>7. CASE P!LookAgain(s)
  <2>1. PICK at \in {"insert", "update"} : at = IF cred[old.cred] = Nothing THEN "insert" ELSE "update"
    OBVIOUS
  <2>2. old.at = "set" /\ P!Go(s, at) /\ UNCHANGED crossed
    BY <1>1, <1>7, <2>1 DEF P!LookAgain
  <2>3. at \in StarterAts
    BY DEF StarterAts
  <2>4. PICK k \in Starter :
            /\ k.at = at /\ starter' = [starter EXCEPT ![s] = k] /\ k.cred = old.cred /\ k.email = old.email
            /\ k.password = old.password /\ k.boot = old.boot
    BY <1>1, <2>2, <2>3, StarterGoes
  <2>5. Provided(k)'
    BY <1>1, <1>2, <1>3, <1>4, <2>2, <2>4
       DEF Provided, HasCredentials, HasPrincipal, HasSecret, WritesAt, HashedAt, HoldsAt
  <2>6. ASSUME NEW c \in P!Creds, c \notin crossed', WritesOf(k, c)
        PROVE  /\ k.at # "update" /\ cred[c] = Nothing
               /\ \A q \in Instances \ {s} : ~ WritesOf(starter[q], c)
    <3>1. c = old.cred /\ WritesOf(starter[s], c) /\ WritesFirst(c)
      BY <1>1, <2>2, <2>4, <2>6 DEF WritesOf, WritesAt, ProvisionInv
    <3> QED
      BY <2>1, <2>4, <3>1 DEF WritesFirst
  <2>7. crossed' \subseteq P!Creds
    BY <2>2 DEF ProvisionInv, ProvisionTyped
  <2> QED
    BY <1>2, <2>2, <2>4, <2>5, <2>6, <2>7, StarterMoves
<1> QED
  BY <1>5, <1>6, <1>7

LEMMA WriteCredSteps ==
    ASSUME ProvisionBounds, ProvisionInv, NEW s \in Instances, P!WriteCred(s)
    PROVE  ProvisionInv'
<1>1. PICK old \in Starter : old = starter[s] /\ Provided(old)
  BY DEF ProvisionInv, ProvisionTyped
<1>2. /\ UNCHANGED <<knob, devUser, secret, chosen, late, sets, crossed>> /\ UNCHANGED <<boots, cuts>>
      /\ boots' \in 0..Boots /\ cuts' \in 0..Cuts /\ crossed' \subseteq P!Creds
  BY DEF P!WriteCred, ProvisionInv, ProvisionTyped
<1>3. PICK c \in P!Creds : c = old.cred /\ old.at \in {"insert", "update"}
  BY <1>1 DEF P!WriteCred, Provided, HasCredentials, WritesAt
<1>4. c \notin crossed => WritesFirst(c) /\ WritesOf(starter[s], c) /\ cred[c] = Nothing /\ old.at = "insert"
  BY <1>1, <1>3 DEF ProvisionInv, WritesFirst, WritesOf, WritesAt
<1>5. CASE old.at = "insert" /\ cred[c] # Nothing
  <2>1. P!Go(s, "dead") /\ UNCHANGED cred /\ c \in crossed
    BY <1>1, <1>3, <1>4, <1>5 DEF P!WriteCred
  <2>2. PICK k \in Starter :
            /\ k.at = "dead" /\ starter' = [starter EXCEPT ![s] = k] /\ k.cred = old.cred /\ k.email = old.email
            /\ k.password = old.password /\ k.boot = old.boot
    <3>1. "dead" \in StarterAts
      BY DEF StarterAts
    <3> QED
      BY <1>1, <2>1, <3>1, StarterGoes
  <2>3. Provided(k)'
    BY <1>1, <1>2, <1>3, <2>1, <2>2
       DEF Provided, HasCredentials, HasPrincipal, HasSecret, WritesAt, HashedAt, HoldsAt
  <2>4. k.at \notin WritesAt
    BY <2>2 DEF WritesAt
  <2> QED
    BY <1>2, <2>1, <2>2, <2>3, <2>4, StarterMoves DEF WritesOf
<1>6. CASE ~ (old.at = "insert" /\ cred[c] # Nothing)
  <2>1. PICK v : v = P!Generated(s, c)
    OBVIOUS
  <2>2. cred' = [cred EXCEPT ![c] = v] /\ starter' = [starter EXCEPT ![s] = P!Past(s, v)]
    BY <1>1, <1>3, <1>6, <2>1 DEF P!WriteCred
  <2>3. /\ c = "email" => v = 0
        /\ c # "email" => c = "password" /\ v = old.boot /\ v \in 1..Boots
    <3>1. old.boot \in 0..Boots /\ old.boot # 0
      BY <1>1, <1>3 DEF Provided, HasCredentials, Starter
    <3>2. old.boot \in 1..Boots
      BY <3>1, ValuesApart
    <3> QED
      BY <1>1, <1>3, <2>1, <3>2 DEF P!Generated, P!Creds
  <2>4. /\ v # Nothing /\ v # P!Chosen
        /\ c = "email" => v \in EmailValues
        /\ c # "email" => v \in PasswordValues
    BY <2>3, ValuesApart DEF EmailValues, PasswordValues
  <2>5. PICK k \in Starter :
            /\ k = P!Past(s, v) /\ k.boot = old.boot
            /\ c = "email" => k.at = "read" /\ k.cred = "password" /\ k.email = v /\ k.password = old.password
            /\ c # "email" => k.at = "user" /\ k.cred = c /\ k.email = old.email /\ k.password = v
    BY <1>1, <1>3, <2>4, PastIs
  <2>6. \A q \in Instances : starter'[q] = IF q = s THEN k ELSE starter[q]
    BY <2>2, <2>5 DEF ProvisionInv, ProvisionTyped
  <2>7. \A b \in P!Creds : cred'[b] = IF b = c THEN v ELSE cred[b]
    BY <2>2 DEF ProvisionInv, ProvisionTyped
  <2>8. ProvisionTyped'
    <3>1. cred' \in [P!Creds -> EmailValues \cup PasswordValues]
      BY <2>2, <2>4 DEF ProvisionInv, ProvisionTyped
    <3>2. cred'["email"] \in EmailValues /\ cred'["password"] \in PasswordValues
      BY <2>3, <2>4, <2>7 DEF ProvisionInv, ProvisionTyped, P!Creds
    <3>3. starter' \in [Instances -> Starter]
      BY <2>2, <2>5 DEF ProvisionInv, ProvisionTyped
    <3> QED
      BY <1>2, <3>1, <3>2, <3>3 DEF ProvisionInv, ProvisionTyped
  <2>9. OperatorsOwn' /\ P!OperatorStands'
    BY <1>2, <1>4, <2>3, <2>4, <2>7, ValuesApart
       DEF ProvisionInv, ProvisionTyped, OperatorsOwn, P!OperatorStands, P!Creds
  <2>10. ASSUME NEW q \in Instances PROVE Provided(starter[q])'
    <3>1. CASE q = s
      <4>1. CASE c = "email"
        <5>1. k.at = "read" /\ k.cred = "password" /\ k.email = 0 /\ k.password = old.password
          BY <2>3, <2>5, <4>1
        <5> QED
          BY <1>1, <1>2, <1>3, <2>5, <2>6, <3>1, <5>1
             DEF Provided, HasCredentials, HasPrincipal, HasSecret, WritesAt, HashedAt, HoldsAt, P!Creds
      <4>2. CASE c # "email"
        <5>1. c = "password" /\ k.at = "user" /\ k.cred = "password" /\ k.email = old.email /\ k.password = v
          BY <2>3, <2>5, <4>2
        <5>2. cred'["password"] = v
          BY <2>7, <5>1
        <5> QED
          BY <1>1, <1>2, <1>3, <2>4, <2>5, <2>6, <3>1, <5>1, <5>2
             DEF Provided, HasCredentials, HasPrincipal, HasSecret, WritesAt, HashedAt, HoldsAt, P!Creds
      <4> QED
        BY <4>1, <4>2
    <3>2. CASE q # s
      <4>1. Provided(starter[q]) /\ starter'[q] = starter[q]
        BY <2>6, <3>2 DEF ProvisionInv
      <4>2. CASE c = "email"
        <5>1. cred'["password"] = cred["password"]
          BY <2>7, <4>2 DEF P!Creds
        <5> QED
          BY <1>2, <4>1, <5>1 DEF Provided, HasCredentials, HasPrincipal, HasSecret
      <4>3. CASE c # "email"
        <5>1. c = "password" /\ cred'["password"] = v
          BY <2>3, <2>7, <4>3
        <5>2. starter[q].at \in HoldsAt => "password" \in crossed
          BY <1>4, <4>1, <5>1 DEF Provided, HasCredentials
        <5> QED
          BY <1>2, <2>4, <4>1, <5>1, <5>2 DEF Provided, HasCredentials, HasPrincipal, HasSecret, HoldsAt
      <4> QED
        BY <4>2, <4>3
    <3> QED
      BY <3>1, <3>2
  <2>11. ASSUME NEW b \in P!Creds, b \notin crossed' PROVE WritesFirst(b)'
    <3>1. WritesFirst(b)
      BY <1>2, <2>11 DEF ProvisionInv
    <3>2. \A q \in Instances : WritesOf(starter[q], b)' => q # s /\ starter'[q] = starter[q] /\ WritesOf(starter[q], b)
      BY <2>5, <2>6 DEF WritesOf, WritesAt
    <3>3. b = c => \A q \in Instances : ~ WritesOf(starter[q], b)'
      BY <1>2, <1>4, <2>11, <3>1, <3>2 DEF WritesFirst
    <3>4. b # c => cred'[b] = cred[b]
      BY <2>7
    <3> QED
      BY <3>1, <3>2, <3>3, <3>4 DEF WritesFirst
  <2> QED
    BY <2>8, <2>9, <2>10, <2>11 DEF ProvisionInv
<1> QED
  BY <1>5, <1>6

\* A start moves past the credentials: the user and the secret may change, and nothing else.
LEMMA StarterGoesOn ==
    ASSUME ProvisionInv, NEW s \in Instances, NEW k \in Starter, starter' = [starter EXCEPT ![s] = k],
           k.at \notin WritesAt,
           UNCHANGED <<knob, cred, chosen, late, sets, crossed>>, UNCHANGED <<boots, cuts>>,
           devUser' \in [email : EmailValues, password : PasswordValues],
           secret' \in {Nothing} \cup 1..Boots,
           chosen.email = Nothing => devUser'.email # P!Chosen,
           \A q \in Instances : Provided(starter[q])'
    PROVE  ProvisionInv'
<1>1. \A q \in Instances : starter'[q] = IF q = s THEN k ELSE starter[q]
  BY DEF ProvisionInv, ProvisionTyped
<1>2. ProvisionTyped'
  <2>1. starter' \in [Instances -> Starter]
    BY DEF ProvisionInv, ProvisionTyped
  <2> QED
    BY <2>1 DEF ProvisionInv, ProvisionTyped
<1>3. OperatorsOwn' /\ P!OperatorStands'
  BY DEF ProvisionInv, OperatorsOwn, P!OperatorStands
<1>4. ASSUME NEW c \in P!Creds, c \notin crossed' PROVE WritesFirst(c)'
  <2>1. WritesFirst(c)
    BY <1>4 DEF ProvisionInv
  <2>2. \A q \in Instances : WritesOf(starter[q], c)' => starter'[q] = starter[q]
    BY <1>1 DEF WritesOf
  <2> QED
    BY <2>1, <2>2 DEF WritesFirst, WritesOf
<1> QED
  BY <1>2, <1>3, <1>4 DEF ProvisionInv

LEMMA UserSteps ==
    ASSUME ProvisionBounds, ProvisionInv, NEW s \in Instances, P!MakeUser(s) \/ P!HashPassword(s)
    PROVE  ProvisionInv'
<1>1. PICK old \in Starter : old = starter[s] /\ Provided(old)
  BY DEF ProvisionInv, ProvisionTyped
<1>2. /\ UNCHANGED <<knob, cred, secret, chosen, late, sets, crossed>> /\ UNCHANGED <<boots, cuts>>
      /\ secret' \in {Nothing} \cup 1..Boots
  BY DEF P!MakeUser, P!HashPassword, ProvisionInv, ProvisionTyped
<1>3. PICK at \in {"hash", "dead", "secret?"} :
          /\ P!Go(s, at) /\ (at = "secret?" <=> P!HashPassword(s))
          /\ at = "dead" => devUser.email \notin {Nothing, old.email} /\ UNCHANGED devUser
          /\ at = "hash" => devUser' = [devUser EXCEPT !.email = old.email]
          /\ at = "secret?" => devUser' = [devUser EXCEPT !.password = old.password]
          /\ old.at = IF at = "secret?" THEN "hash" ELSE "user"
  BY <1>1 DEF P!MakeUser, P!HashPassword, P!Hashed
<1>4. PICK k \in Starter :
          /\ k.at = at /\ starter' = [starter EXCEPT ![s] = k] /\ k.cred = old.cred /\ k.email = old.email
          /\ k.password = old.password /\ k.boot = old.boot
  <2>1. at \in StarterAts
    BY DEF StarterAts
  <2> QED
    BY <1>1, <1>3, <2>1, StarterGoes
<1>5. \A q \in Instances : starter'[q] = IF q = s THEN k ELSE starter[q]
  BY <1>4 DEF ProvisionInv, ProvisionTyped
<1>6. /\ old.email \in EmailValues /\ old.password \in PasswordValues
      /\ old.cred = "password" /\ cred["password"] # Nothing /\ (chosen.email = Nothing => old.email = 0)
  BY <1>1, <1>3 DEF Starter, Provided, HasCredentials, HoldsAt
<1>7. /\ devUser' \in [email : EmailValues, password : PasswordValues]
      /\ chosen.email = Nothing => devUser'.email # P!Chosen
      /\ at # "secret?" => devUser'.password = devUser.password
      /\ at = "secret?" => devUser'.password = old.password
  BY <1>3, <1>6, ValuesApart DEF ProvisionInv, ProvisionTyped, OperatorsOwn
<1>8. at = "dead" => chosen.email # Nothing
  BY <1>3, <1>6 DEF ProvisionInv, ProvisionTyped, OperatorsOwn, EmailValues
<1>9. ASSUME NEW q \in Instances PROVE Provided(starter[q])'
  <2>1. CASE q = s
    <3>1. k.at \in {"hash", "dead", "secret?"} /\ starter'[q] = k
      BY <1>3, <1>4, <1>5, <2>1
    <3>2. HasCredentials(k)'
      BY <1>1, <1>2, <1>3, <1>4, <1>6, <3>1 DEF Provided, HasCredentials, WritesAt, HashedAt, HoldsAt
    <3>3. HasPrincipal(k)'
      BY <1>1, <1>2, <1>3, <1>4, <1>7, <3>1 DEF Provided, HasPrincipal, HashedAt
    <3>4. HasSecret(k)'
      BY <1>2, <1>4, <1>8, <3>1 DEF HasSecret
    <3> QED
      BY <3>1, <3>2, <3>3, <3>4 DEF Provided
  <2>2. CASE q # s
    <3>1. Provided(starter[q]) /\ starter'[q] = starter[q]
      BY <1>5, <2>2 DEF ProvisionInv
    <3>2. HasPrincipal(starter[q])'
      <4>1. CASE at = "secret?"
        <5>1. "password" \notin crossed /\ ~ late => devUser'.password = cred["password"]
          BY <1>1, <1>3, <1>7, <4>1 DEF Provided, HasPrincipal
        <5> QED
          BY <1>2, <3>1, <5>1 DEF Provided, HasPrincipal
      <4>2. CASE at # "secret?"
        BY <1>2, <1>7, <3>1, <4>2 DEF Provided, HasPrincipal
      <4> QED
        BY <4>1, <4>2
    <3> QED
      BY <1>2, <3>1, <3>2 DEF Provided, HasCredentials, HasSecret
  <2> QED
    BY <2>1, <2>2
<1>10. k.at \notin WritesAt
  BY <1>4 DEF WritesAt
<1> QED
  BY <1>2, <1>4, <1>7, <1>9, <1>10, StarterGoesOn

\* The secret of the table is made once, and read.
LEMMA SecretSteps ==
    ASSUME ProvisionBounds, ProvisionInv, NEW s \in Instances,
           P!ReadSecret(s) \/ P!InsertSecret(s) \/ P!ReadSecretAgain(s)
    PROVE  ProvisionInv'
<1>1. PICK old \in Starter : old = starter[s] /\ Provided(old)
  BY DEF ProvisionInv, ProvisionTyped
<1>2. /\ UNCHANGED <<knob, cred, devUser, chosen, late, sets, crossed>> /\ UNCHANGED <<boots, cuts>>
      /\ devUser' \in [email : EmailValues, password : PasswordValues]
      /\ chosen.email = Nothing => devUser'.email # P!Chosen
  BY DEF P!ReadSecret, P!InsertSecret, P!ReadSecretAgain, ProvisionInv, ProvisionTyped, OperatorsOwn
<1>3. PICK at \in {"up", "secret insert", "secret again"}, held \in {Nothing} \cup 1..Boots :
          /\ starter' = [starter EXCEPT ![s] = [old EXCEPT !.at = at, !.secret = held]]
          /\ at = "secret again" => secret' = (IF secret = Nothing THEN old.boot ELSE secret)
          /\ at # "secret again" => secret' = secret
          /\ at = "up" => held = secret /\ secret # Nothing
          /\ old.at \in HashedAt
  <2>1. CASE P!ReadSecret(s)
    <3>1. PICK at \in {"up", "secret insert"} : at = IF secret # Nothing THEN "up" ELSE "secret insert"
      OBVIOUS
    <3>2. secret \in {Nothing} \cup 1..Boots
      BY DEF ProvisionInv, ProvisionTyped
    <3>3. starter' = [starter EXCEPT ![s] = [old EXCEPT !.at = at, !.secret = secret]]
      BY <1>1, <2>1, <3>1 DEF P!ReadSecret
    <3>4. secret' = secret /\ old.at \in HashedAt
      BY <1>1, <2>1 DEF P!ReadSecret, HashedAt
    <3> QED
      BY <3>1, <3>2, <3>3, <3>4
  <2>2. CASE P!InsertSecret(s)
    <3>1. old.secret \in {Nothing} \cup 1..Boots
      BY DEF Starter
    <3>2. starter' = [starter EXCEPT ![s] = [old EXCEPT !.at = "secret again", !.secret = old.secret]]
      BY <1>1, <2>2 DEF P!InsertSecret, P!Go, Starter
    <3>3. secret' = (IF secret = Nothing THEN old.boot ELSE secret) /\ old.at \in HashedAt
      BY <1>1, <2>2 DEF P!InsertSecret, HashedAt
    <3> QED
      BY <3>1, <3>2, <3>3
  <2>3. CASE P!ReadSecretAgain(s)
    <3>1. secret \in {Nothing} \cup 1..Boots
      BY DEF ProvisionInv, ProvisionTyped
    <3>2. starter' = [starter EXCEPT ![s] = [old EXCEPT !.at = "up", !.secret = secret]]
      BY <1>1, <2>3 DEF P!ReadSecretAgain, P!Found
    <3>3. secret' = secret /\ secret # Nothing /\ old.at \in HashedAt
      BY <1>1, <2>3 DEF P!ReadSecretAgain, HashedAt, Provided, HasSecret
    <3> QED
      BY <3>1, <3>2, <3>3
  <2> QED
    BY <2>1, <2>2, <2>3
<1>4. PICK k : k = [old EXCEPT !.at = at, !.secret = held]
  OBVIOUS
<1>5. /\ k \in Starter /\ k.at = at /\ k.secret = held /\ k.cred = old.cred /\ k.email = old.email
      /\ k.password = old.password /\ k.boot = old.boot
  BY <1>4 DEF Starter, StarterAts
<1>6. /\ starter' = [starter EXCEPT ![s] = k] /\ k.at \notin WritesAt
      /\ \A q \in Instances : starter'[q] = IF q = s THEN k ELSE starter[q]
  BY <1>3, <1>4, <1>5 DEF WritesAt, ProvisionInv, ProvisionTyped
<1>7. /\ secret' \in {Nothing} \cup 1..Boots /\ (secret # Nothing => secret' = secret)
      /\ at = "secret again" => secret' # Nothing
  <2>1. old.boot \in 0..Boots /\ old.boot # 0
    BY <1>1, <1>3 DEF Starter, Provided, HasCredentials, HashedAt
  <2>2. old.boot \in 1..Boots /\ old.boot # Nothing
    <3>1. old.boot # Nothing
      BY <2>1, ValuesApart
    <3>2. old.boot \in 1..Boots
      BY <2>1, ValuesApart
    <3> QED
      BY <3>1, <3>2
  <2> QED
    BY <1>3, <2>2 DEF ProvisionInv, ProvisionTyped
<1>8. ASSUME NEW q \in Instances PROVE Provided(starter[q])'
  <2>1. CASE q = s
    <3>1. starter'[q] = k /\ old.at \in HashedAt /\ k.at \in {"secret insert", "secret again", "up"}
      BY <1>3, <1>5, <1>6, <2>1
    <3>2. HasCredentials(k)'
      BY <1>1, <1>2, <1>5, <3>1 DEF Provided, HasCredentials, WritesAt, HashedAt, HoldsAt
    <3>3. HasPrincipal(k)'
      BY <1>1, <1>2, <1>5, <3>1 DEF Provided, HasPrincipal, HashedAt
    <3>4. HasSecret(k)'
      BY <1>3, <1>5, <1>7, <3>1 DEF HasSecret
    <3> QED
      BY <3>1, <3>2, <3>3, <3>4 DEF Provided, HasCredentials, HasPrincipal, HasSecret
  <2>2. CASE q # s
    <3>1. Provided(starter[q]) /\ starter'[q] = starter[q]
      BY <1>6, <2>2 DEF ProvisionInv
    <3> QED
      BY <1>2, <1>7, <3>1 DEF Provided, HasCredentials, HasPrincipal, HasSecret
  <2> QED
    BY <2>1, <2>2
<1> QED
  BY <1>2, <1>5, <1>6, <1>7, <1>8, StarterGoesOn

\* An operator sets a variable.
LEMMA OperatorSteps ==
    ASSUME ProvisionBounds, ProvisionInv, P!Operator PROVE ProvisionInv'
<1>1. /\ UNCHANGED <<devUser, secret, starter>> /\ UNCHANGED <<boots, cuts>> /\ sets' \in 0..OperatorSets
  BY DEF P!Operator, ProvisionInv, ProvisionTyped, ProvisionBounds
<1>2. CASE /\ knob' = P!Chosen /\ chosen' = [chosen EXCEPT !.knob = P!Chosen]
           /\ UNCHANGED <<cred, crossed, late>>
  <2>1. /\ chosen' \in [knob : ChosenValues, email : ChosenValues, password : ChosenValues]
        /\ chosen'.knob = P!Chosen /\ chosen'.email = chosen.email /\ chosen'.password = chosen.password
        /\ \A c \in P!Creds : chosen'[c] = chosen[c]
    BY <1>2 DEF ProvisionInv, ProvisionTyped, ChosenValues, P!Creds
  <2>2. ProvisionTyped'
    BY <1>1, <1>2, <2>1 DEF ProvisionInv, ProvisionTyped, EmailValues
  <2>3. ASSUME NEW q \in Instances PROVE Provided(starter[q])'
    BY <1>1, <1>2, <2>1 DEF ProvisionInv, Provided, HasCredentials, HasPrincipal, HasSecret
  <2>4. OperatorsOwn' /\ P!OperatorStands'
    BY <1>1, <1>2, <2>1 DEF ProvisionInv, OperatorsOwn, P!OperatorStands
  <2>5. \A c \in P!Creds : c \notin crossed' => WritesFirst(c)'
    BY <1>1, <1>2 DEF ProvisionInv, WritesFirst, WritesOf
  <2> QED
    BY <2>2, <2>3, <2>4, <2>5 DEF ProvisionInv
<1>3. ASSUME NEW c \in P!Creds,
             /\ cred' = [cred EXCEPT ![c] = P!Chosen] /\ chosen' = [chosen EXCEPT ![c] = P!Chosen]
             /\ crossed' = IF \E s \in Instances : P!Writing(s, c) THEN crossed \cup {c} ELSE crossed
             /\ late' = (late \/ (c = "password" /\ \E s \in Instances : starter[s].at \in {"user", "hash"}))
             /\ UNCHANGED knob
      PROVE  ProvisionInv'
  <2>1. /\ chosen' \in [knob : ChosenValues, email : ChosenValues, password : ChosenValues]
        /\ chosen'.knob = chosen.knob
        /\ \A b \in P!Creds : chosen'[b] = IF b = c THEN P!Chosen ELSE chosen[b]
    <3>1. CASE c = "email"
      BY <1>3, <3>1 DEF ProvisionInv, ProvisionTyped, ChosenValues, P!Creds
    <3>2. CASE c = "password"
      BY <1>3, <3>2 DEF ProvisionInv, ProvisionTyped, ChosenValues, P!Creds
    <3> QED
      BY <3>1, <3>2 DEF P!Creds
  <2>2. \A b \in P!Creds : cred'[b] = IF b = c THEN P!Chosen ELSE cred[b]
    BY <1>3 DEF ProvisionInv, ProvisionTyped
  <2>3. /\ crossed \subseteq crossed' /\ crossed' \subseteq P!Creds /\ late' \in BOOLEAN /\ (late => late')
        /\ c \notin crossed' => \A s \in Instances : ~ WritesOf(starter[s], c)
        /\ c = "password" /\ ~ late' => \A s \in Instances : starter[s].at \notin {"user", "hash"}
    <3>1. /\ crossed \subseteq crossed' /\ crossed' \subseteq P!Creds
          /\ c \notin crossed' => \A s \in Instances : ~ WritesOf(starter[s], c)
      BY <1>3 DEF ProvisionInv, ProvisionTyped, WritesOf, WritesAt, P!Writing
    <3>2. PICK meets \in BOOLEAN : meets <=> (c = "password" /\ \E s \in Instances : starter[s].at \in {"user", "hash"})
      OBVIOUS
    <3>3. late' = (late \/ meets)
      BY <1>3, <3>2
    <3>4. late' \in BOOLEAN /\ (late => late') /\ (~ late' => ~ meets)
      BY <3>3 DEF ProvisionInv, ProvisionTyped
    <3> QED
      BY <3>1, <3>2, <3>4
  <2>4. ProvisionTyped'
    <3>1. cred' \in [P!Creds -> EmailValues \cup PasswordValues]
      BY <1>3 DEF ProvisionInv, ProvisionTyped, EmailValues
    <3>2. cred'["email"] \in EmailValues /\ cred'["password"] \in PasswordValues
      BY <2>2 DEF ProvisionInv, ProvisionTyped, EmailValues, PasswordValues, P!Creds
    <3> QED
      BY <1>1, <1>3, <2>1, <2>3, <3>1, <3>2 DEF ProvisionInv, ProvisionTyped
  <2>5. OperatorsOwn' /\ P!OperatorStands'
    <3>1. OperatorsOwn'
      BY <1>1, <2>1, <2>2, ValuesApart DEF ProvisionInv, OperatorsOwn, P!Creds
    <3>2. P!OperatorStands'
      BY <1>1, <1>3, <2>1, <2>2, <2>3 DEF ProvisionInv, P!OperatorStands
    <3> QED
      BY <3>1, <3>2
  <2>6. ASSUME NEW q \in Instances PROVE Provided(starter[q])'
    <3>1. Provided(starter[q]) /\ starter[q] \in Starter /\ starter'[q] = starter[q]
      BY <1>1 DEF ProvisionInv, ProvisionTyped
    <3>2. CASE c = "email"
      <4>1. /\ cred'["password"] = cred["password"] /\ chosen'.password = chosen.password
            /\ chosen'.email # Nothing
        BY <2>1, <2>2, <3>2, ValuesApart DEF P!Creds
      <4> QED
        BY <1>1, <2>3, <3>1, <4>1 DEF Provided, HasCredentials, HasPrincipal, HasSecret
    <3>3. CASE c = "password"
      <4>1. /\ cred'["password"] = P!Chosen /\ chosen'.password = P!Chosen /\ P!Chosen # Nothing
            /\ chosen'.email = chosen.email
        BY <2>1, <2>2, <3>3, ValuesApart DEF P!Creds
      <4>2. starter[q].at \in HashedAt /\ "password" \notin crossed /\ starter[q].password = P!Chosen =>
                cred["password"] = P!Chosen
        <5>1. starter[q].password = P!Chosen => chosen.password = P!Chosen
          BY <3>1 DEF Provided, HasCredentials
        <5> QED
          BY <5>1, ValuesApart DEF ProvisionInv, P!OperatorStands, P!Creds
      <4>3. HasPrincipal(starter[q])'
        BY <1>1, <2>3, <3>1, <3>3, <4>1, <4>2 DEF Provided, HasPrincipal
      <4>4. HasCredentials(starter[q])' /\ HasSecret(starter[q])'
        BY <1>1, <2>3, <3>1, <4>1 DEF Provided, HasCredentials, HasSecret
      <4> QED
        BY <4>3, <4>4 DEF Provided
    <3> QED
      BY <3>2, <3>3 DEF P!Creds
  <2>7. ASSUME NEW b \in P!Creds, b \notin crossed' PROVE WritesFirst(b)'
    BY <1>1, <2>2, <2>3, <2>7 DEF ProvisionInv, WritesFirst, WritesOf
  <2> QED
    BY <2>4, <2>5, <2>6, <2>7 DEF ProvisionInv
<1> QED
  BY <1>2, <1>3 DEF P!Operator

LEMMA ProvisionInit == ASSUME ProvisionBounds, P!Init PROVE ProvisionInv
<1>1. /\ knob = Nothing /\ cred = [c \in P!Creds |-> Nothing]
      /\ devUser = [email |-> Nothing, password |-> Nothing] /\ secret = Nothing
      /\ starter = [s \in Instances |-> P!Down] /\ crossed = {}
      /\ chosen = [knob |-> Nothing, email |-> Nothing, password |-> Nothing]
      /\ late = FALSE /\ boots = 0 /\ sets = 0 /\ cuts = 0
  BY DEF P!Init
<1>2. ProvisionTyped
  <2>1. starter \in [Instances -> Starter]
    BY <1>1, DownIs
  <2>2. cred \in [P!Creds -> EmailValues \cup PasswordValues] /\ cred["email"] = Nothing /\ cred["password"] = Nothing
    BY <1>1 DEF EmailValues, P!Creds
  <2>3. boots \in 0..Boots /\ sets \in 0..OperatorSets /\ cuts \in 0..Cuts
    BY <1>1 DEF ProvisionBounds
  <2> QED
    BY <1>1, <2>1, <2>2, <2>3 DEF ProvisionTyped, EmailValues, PasswordValues, ChosenValues
<1>3. ASSUME NEW s \in Instances PROVE Provided(starter[s])
  BY <1>1, DownIs, ValuesApart DEF Provided, HasCredentials, HasPrincipal, HasSecret, WritesAt, HashedAt, HoldsAt
<1>4. OperatorsOwn /\ P!OperatorStands
  BY <1>1, ValuesApart DEF OperatorsOwn, P!OperatorStands, P!Creds
<1>5. ASSUME NEW c \in P!Creds PROVE WritesFirst(c)
  BY <1>1, DownIs DEF WritesFirst, WritesOf, WritesAt
<1> QED
  BY <1>2, <1>3, <1>4, <1>5 DEF ProvisionInv

LEMMA ProvisionStep ==
    ASSUME ProvisionBounds, ProvisionInv, [P!Next]_P!provisionVars PROVE ProvisionInv'
<1>1. CASE UNCHANGED P!provisionVars
  <2>1. /\ UNCHANGED <<knob, cred, devUser, secret, chosen, late, sets>>
        /\ UNCHANGED <<starter, crossed, boots, cuts>>
    BY <1>1 DEF P!provisionVars
  <2>2. ProvisionTyped'
    BY <2>1 DEF ProvisionInv, ProvisionTyped
  <2>3. \A s \in Instances : Provided(starter[s])'
    BY <2>1 DEF ProvisionInv, Provided, HasCredentials, HasPrincipal, HasSecret
  <2>4. OperatorsOwn' /\ P!OperatorStands'
    BY <2>1 DEF ProvisionInv, OperatorsOwn, P!OperatorStands
  <2>5. \A c \in P!Creds : c \notin crossed' => WritesFirst(c)'
    BY <2>1 DEF ProvisionInv, WritesFirst, WritesOf
  <2> QED
    BY <2>2, <2>3, <2>4, <2>5 DEF ProvisionInv
<1>2. ASSUME NEW s \in Instances, P!Start(s) \/ P!Cut(s) PROVE ProvisionInv'
  BY <1>2, BootSteps
<1>3. ASSUME NEW s \in Instances, P!SeedKnob(s) PROVE ProvisionInv'
  BY <1>3, KnobSteps
<1>4. ASSUME NEW s \in Instances, P!ReadCred(s) \/ P!LookAgain(s) PROVE ProvisionInv'
  BY <1>4, ReadSteps
<1>5. ASSUME NEW s \in Instances, P!WriteCred(s) PROVE ProvisionInv'
  BY <1>5, WriteCredSteps
<1>6. ASSUME NEW s \in Instances, P!MakeUser(s) \/ P!HashPassword(s) PROVE ProvisionInv'
  BY <1>6, UserSteps
<1>7. ASSUME NEW s \in Instances, P!ReadSecret(s) \/ P!InsertSecret(s) \/ P!ReadSecretAgain(s) PROVE ProvisionInv'
  BY <1>7, SecretSteps
<1>8. ASSUME P!Operator PROVE ProvisionInv'
  BY <1>8, OperatorSteps
<1> QED
  BY <1>1, <1>2, <1>3, <1>4, <1>5, <1>6, <1>7, <1>8 DEF P!Next

\* What an operator set stands, the dev login opens with the password its variable tells, the
\* instances that listen share the secret of the table, and a start dies by itself only for the
\* operator's email or another start, but where a start and another writer met on a credential
\* (internal/auth/devlogin.go, sessionsecret.go, internal/variable/store.go).
THEOREM StartsProvide ==
    ProvisionBounds =>
        (P!Spec => [](P!TypeOK /\ P!DiesOnlyIf /\ P!OperatorStands /\ P!LoginOpens /\ P!OneSecret))
<1> SUFFICES ASSUME ProvisionBounds
             PROVE  P!Spec => [](P!TypeOK /\ P!DiesOnlyIf /\ P!OperatorStands /\ P!LoginOpens /\ P!OneSecret)
  OBVIOUS
<1>1. P!Init => ProvisionInv
  BY ProvisionInit
<1>2. ProvisionInv /\ [P!Next]_P!provisionVars => ProvisionInv'
  BY ProvisionStep
<1>3. ProvisionInv => P!TypeOK /\ P!DiesOnlyIf /\ P!OperatorStands /\ P!LoginOpens /\ P!OneSecret
  <2> SUFFICES ASSUME ProvisionInv
               PROVE  P!TypeOK /\ P!DiesOnlyIf /\ P!OperatorStands /\ P!LoginOpens /\ P!OneSecret
    OBVIOUS
  <2>1. P!TypeOK
    <3>1. \A c \in P!Creds : cred[c] \in {Nothing, P!Chosen} \cup 0..Boots
      <4>1. \A c \in P!Creds : cred[c] \in EmailValues \cup PasswordValues
        BY DEF ProvisionInv, ProvisionTyped
      <4>2. 0 \in 0..Boots /\ 1..Boots \subseteq 0..Boots
        BY DEF ProvisionBounds
      <4> QED
        BY <4>1, <4>2 DEF EmailValues, PasswordValues
    <3> QED
      BY <3>1 DEF ProvisionInv, ProvisionTyped, EmailValues, PasswordValues, P!TypeOK
  <2>2. P!DiesOnlyIf /\ P!OneSecret
    BY DEF ProvisionInv, Provided, HasSecret, P!DiesOnlyIf, P!OneSecret
  <2>3. P!LoginOpens
    BY DEF ProvisionInv, Provided, HasPrincipal, HashedAt, P!LoginOpens
  <2> QED
    BY <2>1, <2>2, <2>3 DEF ProvisionInv
<1> QED
  BY <1>1, <1>2, <1>3, PTL DEF P!Spec

------------------------------------------------------------------------------
\* What a start makes of the artifacts of its binary (SystemSeed).
SeedFile == [kind : {"file"}, type : STRING, body : Nat, labels : Nat]
Unkept == {B!Absent, B!ClientHomed}
SeedHash == [body : Nat, labels : Nat]
SeedDocument ==
    [status : {"none", "active", "deleted"}, type : STRING \cup {""}, body : Nat \cup {Nothing}, labels : Nat]

SeedBounds ==
    /\ Boots \in Nat /\ Cuts \in Nat /\ Nothing \notin SeedHash
    /\ Artifacts \in Seq(B!NameSet)
    /\ Releases \subseteq [B!NameSet -> SeedFile \cup Unkept \cup {B!Malformed}]

\* The steps at which a start is at work on an artifact of its binary, and on one to prune.
ReconcilesAt == {"register", "mirror", "label"}
PrunesAt == {"delete", "unregister"}
SeederAts == {"down", "look", "done", "dead"} \cup ReconcilesAt \cup PrunesAt
WorksAt(k, n) ==
    \/ k.at \in ReconcilesAt /\ Artifacts[k.n] = n
    \/ k.at \in PrunesAt /\ B!First(k.gone) = n

\* What a start that is where k is knows of its release.
SeederKnows(k) ==
    /\ k.at # "down" => k.release \in Releases /\ \A n \in k.gone : k.release[n] \in Unkept
    /\ k.at \in ReconcilesAt \cup {"dead"} => k.n \in DOMAIN Artifacts
    /\ k.at \in ReconcilesAt => k.release[Artifacts[k.n]] \in SeedFile
    /\ k.at \in PrunesAt => k.gone # {}
    /\ k.at = "look" => k.n # 0
    /\ k.at = "dead" => \E r \in Releases :
          B!Kept(r, Artifacts[k.n]) /\ r[Artifacts[k.n]].type # k.release[Artifacts[k.n]].type
SeederRecord ==
    [at : SeederAts, release : Releases \cup {Nothing}, n : 0..Len(Artifacts) + 1,
     gone : SUBSET B!NameSet, met : BOOLEAN]
Seeder == {k \in SeederRecord : SeederKnows(k)}

SeedTyped ==
    /\ registry \in [B!NameSet -> SeedHash \cup {Nothing}] /\ document \in [B!NameSet -> SeedDocument]
    /\ became \in [B!NameSet -> SeedFile \cup {B!Absent}] /\ seeder \in [Instances -> Seeder]
    /\ torn \subseteq B!NameSet /\ seedBoots \in 0..Boots /\ seedCuts \in 0..Cuts

\* What the only start that is at work on a name has made of it.
InHand(k, n) ==
    /\ k.at \in {"mirror", "label"} => registry[n] = B!Hash(k.release[n])
    /\ k.at = "label" => document[n].status = "active" /\ document[n].body = k.release[n].body
    /\ k.at = "unregister" => document[n].status # "active"

\* Where none is at work and none was cut off, the registry and the document tell the same.
Rested(n) ==
    IF became[n] = B!Absent THEN registry[n] = Nothing /\ document[n].status # "active"
    ELSE /\ registry[n] = B!Hash(became[n])
         /\ document[n].status = "active" /\ document[n].body = became[n].body
         /\ became[n].labels # 0 => document[n].labels = became[n].labels

\* Starts that met on a name know it, and the name is torn; a document has the type of a release.
NameInv(n) ==
    /\ \A q, r \in Instances : q # r /\ WorksAt(seeder[q], n) /\ WorksAt(seeder[r], n) => seeder[q].met
    /\ \A q \in Instances : WorksAt(seeder[q], n) =>
          IF seeder[q].met THEN n \in torn ELSE InHand(seeder[q], n)
    /\ n \notin torn /\ (\A q \in Instances : ~ WorksAt(seeder[q], n)) => Rested(n)
    /\ document[n].status # "none" => \E r \in Releases : B!Kept(r, n) /\ r[n].type = document[n].type
SeedInv == SeedTyped /\ \A n \in B!NameSet : NameInv(n)

\* What is first of the names to prune is one of them.
LEMMA FirstGone ==
    ASSUME SeedBounds, NEW gone \in SUBSET B!NameSet, gone # {}
    PROVE  B!First(gone) \in gone
<1> DEFINE ofIt == {i \in 1..Len(Artifacts) : Artifacts[i] \in gone}
<1>1. B!First(gone) = Artifacts[IF ofIt # {} THEN B!Min(ofIt) ELSE 0]
  BY DEF B!First, B!SelectInSeq
<1>2. DOMAIN Artifacts = 1..Len(Artifacts) /\ Len(Artifacts) \in Nat
  BY DEF SeedBounds
<1>3. ofIt # {} /\ ofIt \in SUBSET Nat
  BY <1>2 DEF B!NameSet, B!Range
<1>4. \A i \in ofIt : Artifacts[i] \in gone
  OBVIOUS
<1> HIDE DEF ofIt
<1>5. \E i \in ofIt : \A j \in ofIt : i <= j
  BY <1>3, LeastIndex
<1>6. B!Min(ofIt) \in ofIt
  BY <1>5 DEF B!Min
<1> QED
  BY <1>1, <1>3, <1>4, <1>6

\* The files of a release are told from what is not kept.
LEMMA FilesApart ==
    ASSUME SeedBounds, NEW r \in Releases, NEW n \in B!NameSet
    PROVE  /\ r[n] \in SeedFile <=> B!Kept(r, n)
           /\ r[n] \notin SeedFile /\ r[n] # B!Malformed => r[n] \in Unkept
           /\ r[n] \in SeedFile => r[n] # B!Absent /\ B!Hash(r[n]) \in SeedHash
<1>1. r[n] \in SeedFile \cup Unkept \cup {B!Malformed}
  BY DEF SeedBounds
<1>2. \A f \in SeedFile : f.kind = "file" /\ B!Hash(f) \in SeedHash
  BY DEF SeedFile, SeedHash, B!Hash
<1>3. \A f \in Unkept \cup {B!Malformed} : f.kind # "file"
  <2>1. B!Absent.kind = "absent" /\ B!ClientHomed.kind = "client" /\ B!Malformed.kind = "malformed"
    BY DEF B!Absent, B!ClientHomed, B!Malformed, B!Mark
  <2> QED
    BY <2>1 DEF Unkept
<1> QED
  BY <1>1, <1>2, <1>3 DEF B!Kept, Unkept

\* A start is at work on one name, which there is.
LEMMA WorksOnOne ==
    ASSUME SeedBounds, NEW k \in Seeder, NEW n, WorksAt(k, n)
    PROVE  /\ n \in B!NameSet /\ k.release \in Releases /\ k.at \in ReconcilesAt \cup PrunesAt
           /\ \A m : WorksAt(k, m) => m = n
           /\ k.at \in ReconcilesAt => k.n \in DOMAIN Artifacts /\ Artifacts[k.n] = n /\ k.release[n] \in SeedFile
           /\ k.at \in PrunesAt => n \in k.gone /\ B!First(k.gone) = n /\ k.release[n] \in Unkept
<1>1. k \in SeederRecord /\ SeederKnows(k)
  BY DEF Seeder
<1>2. CASE k.at \in ReconcilesAt
  BY <1>1, <1>2 DEF SeedBounds, WorksAt, SeederKnows, ReconcilesAt, PrunesAt
<1>3. CASE k.at \in PrunesAt
  <2>1. k.gone \in SUBSET B!NameSet /\ k.gone # {}
    BY <1>1, <1>3 DEF SeederRecord, SeederKnows
  <2>2. B!First(k.gone) \in k.gone
    BY <2>1, FirstGone
  <2> QED
    BY <1>1, <1>3, <2>1, <2>2 DEF WorksAt, SeederKnows, ReconcilesAt, PrunesAt
<1> QED
  BY <1>2, <1>3 DEF WorksAt

\* A name at which the tables stay as they are, and where nobody comes or goes.
LEMMA NamePasses ==
    ASSUME NEW n \in B!NameSet, NameInv(n), registry'[n] = registry[n], document'[n] = document[n],
           Rested(n) => Rested(n)', n \in torn' <=> n \in torn,
           \A q \in Instances :
              seeder'[q] = seeder[q] \/ (~ WorksAt(seeder[q], n) /\ ~ WorksAt(seeder'[q], n))
    PROVE  NameInv(n)'
BY DEF NameInv, InHand

LEMMA NameStays ==
    ASSUME NEW n \in B!NameSet, NameInv(n), registry'[n] = registry[n], document'[n] = document[n],
           became'[n] = became[n], n \in torn' <=> n \in torn,
           \A q \in Instances :
              seeder'[q] = seeder[q] \/ (~ WorksAt(seeder[q], n) /\ ~ WorksAt(seeder'[q], n))
    PROVE  NameInv(n)'
BY NamePasses DEF Rested

\* A name that a start goes on with, and one it is done with.
LEMMA NameWorked ==
    ASSUME NEW n \in B!NameSet, NameInv(n), NEW s \in Instances, NEW k, WorksAt(seeder[s], n),
           WorksAt(k, n), seeder'[s] = k, k.met = seeder[s].met, n \in torn' <=> n \in torn,
           \A q \in Instances \ {s} : seeder'[q] = seeder[q],
           ~ k.met => InHand(k, n)',
           document'[n].status # "none" => \E r \in Releases : B!Kept(r, n) /\ r[n].type = document'[n].type
    PROVE  NameInv(n)'
BY DEF NameInv

LEMMA NameLeft ==
    ASSUME NEW n \in B!NameSet, NameInv(n), NEW s \in Instances, WorksAt(seeder[s], n),
           ~ WorksAt(seeder'[s], n), n \in torn' \/ (~ seeder[s].met /\ Rested(n)'),
           \A q \in Instances \ {s} :
              seeder'[q] = seeder[q] \/ (~ WorksAt(seeder[q], n) /\ ~ WorksAt(seeder'[q], n)),
           document'[n].status # "none" => \E r \in Releases : B!Kept(r, n) /\ r[n].type = document'[n].type
    PROVE  NameInv(n)'
BY DEF NameInv

\* A start enters a name: it and those that are there know that they met.
Entered(s, n, k, clean) ==
    /\ k.met <=> \E q \in Instances \ {s} : WorksAt(seeder[q], n)
    /\ seeder' \in [Instances -> Seeder] /\ seeder'[s] = k
    /\ \A q \in Instances \ {s} :
          seeder'[q] = IF WorksAt(seeder[q], n) THEN [seeder[q] EXCEPT !.met = TRUE] ELSE seeder[q]
    /\ torn' = IF k.met THEN clean \cup {n} ELSE clean

LEMMA MetIs ==
    ASSUME NEW old \in Seeder, NEW met \in BOOLEAN
    PROVE  \E k \in Seeder :
              /\ k = [old EXCEPT !.met = met] /\ k.met = met /\ k.at = old.at /\ k.n = old.n
              /\ k.gone = old.gone /\ k.release = old.release /\ \A n : WorksAt(k, n) <=> WorksAt(old, n)
<1>1. PICK k : k = [old EXCEPT !.met = met]
  OBVIOUS
<1>2. /\ k \in SeederRecord /\ k.met = met /\ k.at = old.at /\ k.n = old.n
      /\ k.gone = old.gone /\ k.release = old.release
  BY <1>1 DEF Seeder, SeederRecord
<1>3. SeederKnows(k)
  BY <1>2 DEF Seeder, SeederKnows
<1>4. \A n : WorksAt(k, n) <=> WorksAt(old, n)
  BY <1>2 DEF WorksAt
<1> QED
  BY <1>1, <1>2, <1>3, <1>4 DEF Seeder

LEMMA WorksIs ==
    ASSUME NEW q \in Instances, NEW n
    PROVE  B!Works(q, n) <=> WorksAt(seeder[q], n)
BY DEF B!Works, B!Name, WorksAt, ReconcilesAt, PrunesAt

LEMMA EnterIs ==
    ASSUME SeedTyped, NEW s \in Instances, NEW n, NEW old \in Seeder, NEW clean, B!Enter(s, n, old, clean)
    PROVE  \E k \in Seeder :
              /\ Entered(s, n, k, clean) /\ k.at = old.at /\ k.n = old.n
              /\ k.gone = old.gone /\ k.release = old.release /\ \A m : WorksAt(k, m) <=> WorksAt(old, m)
<1>1. PICK met \in BOOLEAN : met <=> \E q \in Instances \ {s} : WorksAt(seeder[q], n)
  OBVIOUS
<1>2. {q \in Instances \ {s} : B!Works(q, n)} # {} <=> met
  BY <1>1, WorksIs
<1>3. PICK k \in Seeder :
          /\ k = [old EXCEPT !.met = met] /\ k.met = met /\ k.at = old.at /\ k.n = old.n
          /\ k.gone = old.gone /\ k.release = old.release /\ \A m : WorksAt(k, m) <=> WorksAt(old, m)
  BY MetIs
<1>4. /\ seeder' = [q \in Instances |->
              IF q = s THEN k
              ELSE IF WorksAt(seeder[q], n) THEN [seeder[q] EXCEPT !.met = TRUE] ELSE seeder[q]]
      /\ torn' = IF met THEN clean \cup {n} ELSE clean
  BY <1>2, <1>3, WorksIs DEF B!Enter
<1>5. \A q \in Instances : seeder[q] \in Seeder /\ [seeder[q] EXCEPT !.met = TRUE] \in Seeder
  <2> TAKE q \in Instances
  <2>1. PICK x \in Seeder : x = seeder[q]
    BY DEF SeedTyped
  <2>2. [x EXCEPT !.met = TRUE] \in Seeder
    BY ZenonT(60), MetIs
  <2> QED
    BY <2>1, <2>2
<1>6. seeder' \in [Instances -> Seeder]
  BY <1>4, <1>5
<1>7. Entered(s, n, k, clean)
  BY <1>1, <1>3, <1>4, <1>6 DEF Entered
<1> QED
  BY <1>3, <1>7

LEMMA NameEntered ==
    ASSUME SeedTyped, NEW n \in B!NameSet, NameInv(n), NEW s \in Instances, NEW k \in Seeder, NEW clean,
           Entered(s, n, k, clean), WorksAt(k, n), k.at \in {"register", "delete"},
           ~ WorksAt(seeder[s], n), n \in torn => n \in clean,
           registry'[n] = registry[n], document'[n] = document[n], became'[n] = became[n]
    PROVE  NameInv(n)'
<1>1. ASSUME NEW q \in Instances \ {s}
      PROVE  /\ WorksAt(seeder'[q], n) <=> WorksAt(seeder[q], n)
             /\ WorksAt(seeder[q], n) => seeder'[q].met
  <2>1. PICK x \in Seeder : x = seeder[q]
    BY DEF SeedTyped
  <2>2. CASE WorksAt(x, n)
    <3>1. PICK y \in Seeder : y = [x EXCEPT !.met = TRUE] /\ y.met = TRUE /\ \A m : WorksAt(y, m) <=> WorksAt(x, m)
      BY MetIs
    <3>2. seeder'[q] = y
      BY <2>1, <2>2, <3>1 DEF Entered
    <3> QED
      BY <2>1, <2>2, <3>1, <3>2
  <2>3. CASE ~ WorksAt(x, n)
    BY <2>1, <2>3 DEF Entered
  <2> QED
    BY <2>2, <2>3
<1>2. /\ seeder'[s] = k /\ (k.met => n \in torn') /\ (n \in torn => n \in torn')
      /\ k.met <=> \E q \in Instances \ {s} : WorksAt(seeder[q], n)
  BY DEF Entered
<1>3. InHand(k, n)'
  BY DEF InHand
<1>4. \A q, r \in Instances : q # r /\ WorksAt(seeder'[q], n) /\ WorksAt(seeder'[r], n) => seeder'[q].met
  BY <1>1, <1>2
<1>5. \A q \in Instances : WorksAt(seeder'[q], n) =>
          IF seeder'[q].met THEN n \in torn' ELSE InHand(seeder[q], n)'
  BY <1>1, <1>2, <1>3
<1> QED
  BY <1>2, <1>4, <1>5 DEF NameInv

LEMMA OthersEntered ==
    ASSUME SeedBounds, SeedTyped, NEW s \in Instances, NEW n, NEW k \in Seeder, NEW clean,
           Entered(s, n, k, clean), WorksAt(k, n), NEW m, m # n
    PROVE  /\ \A q \in Instances \ {s} :
                 seeder'[q] = seeder[q] \/ (~ WorksAt(seeder[q], m) /\ ~ WorksAt(seeder'[q], m))
           /\ ~ WorksAt(seeder'[s], m) /\ (m \in torn' <=> m \in clean)
<1>1. ASSUME NEW q \in Instances \ {s}, WorksAt(seeder[q], n)
      PROVE  ~ WorksAt(seeder[q], m) /\ ~ WorksAt(seeder'[q], m)
  <2>1. PICK x \in Seeder : x = seeder[q]
    BY DEF SeedTyped
  <2>2. PICK y \in Seeder : y = [x EXCEPT !.met = TRUE] /\ \A l : WorksAt(y, l) <=> WorksAt(x, l)
    BY MetIs
  <2>3. seeder'[q] = y
    BY <1>1, <2>1, <2>2 DEF Entered
  <2> QED
    BY ZenonT(60), <1>1, <2>1, <2>2, <2>3, WorksOnOne
<1>2. seeder'[s] = k /\ (m \in torn' <=> m \in clean)
  BY DEF Entered
<1>3. ~ WorksAt(k, m)
  BY WorksOnOne
<1> QED
  BY <1>1, <1>2, <1>3 DEF Entered

\* A start moves on.
Moved(s, k) ==
    /\ seeder' = [seeder EXCEPT ![s] = k] /\ seeder' \in [Instances -> Seeder] /\ seeder'[s] = k
    /\ \A q \in Instances \ {s} : seeder'[q] = seeder[q]

LEMMA SeederMoves ==
    ASSUME SeedTyped, NEW s \in Instances, NEW k \in Seeder, seeder' = [seeder EXCEPT ![s] = k]
    PROVE  Moved(s, k)
BY DEF SeedTyped, Moved

LEMMA SeederGoes ==
    ASSUME NEW old \in Seeder, NEW at \in SeederAts
    PROVE  \E k \in SeederRecord :
              /\ k = [old EXCEPT !.at = at] /\ k.at = at /\ k.n = old.n /\ k.gone = old.gone
              /\ k.release = old.release /\ k.met = old.met
<1>1. PICK k : k = [old EXCEPT !.at = at]
  OBVIOUS
<1>2. /\ k \in SeederRecord /\ k.at = at /\ k.n = old.n /\ k.gone = old.gone
      /\ k.release = old.release /\ k.met = old.met
  BY <1>1 DEF Seeder, SeederRecord
<1> QED
  BY <1>1, <1>2

LEMMA LookIs ==
    ASSUME SeedBounds, NEW k \in Seeder, k.at \in ReconcilesAt \/ (k.at = "look" /\ k.n <= Len(Artifacts))
    PROVE  /\ k.n \in DOMAIN Artifacts /\ k.n \in Nat /\ k.n + 1 \in 0..Len(Artifacts) + 1
           /\ Artifacts[k.n] \in B!NameSet /\ k.release \in Releases
<1>1. k.n \in 0..Len(Artifacts) + 1 /\ k.at # "down" /\ Len(Artifacts) \in Nat /\ DOMAIN Artifacts = 1..Len(Artifacts)
  BY DEF Seeder, SeederRecord, SeedBounds, ReconcilesAt
<1>2. k.n \in DOMAIN Artifacts /\ k.release \in Releases
  BY <1>1 DEF Seeder, SeederKnows
<1> QED
  BY <1>1, <1>2 DEF SeedBounds

LEMMA AfterIs ==
    ASSUME SeedBounds, NEW s \in Instances, NEW old \in Seeder, old = seeder[s],
           old.at \in ReconcilesAt \/ (old.at = "look" /\ old.n <= Len(Artifacts))
    PROVE  \E k \in Seeder : k = B!After(s) /\ \A n : ~ WorksAt(k, n)
<1>1. PICK i \in 0..Len(Artifacts) + 1 : i = old.n + 1 /\ i # 0
  BY LookIs
<1>2. PICK k : k = [old EXCEPT !.at = "look", !.n = i, !.met = FALSE]
  OBVIOUS
<1>3. /\ k \in SeederRecord /\ k.at = "look" /\ k.n = i /\ k.gone = old.gone /\ k.release = old.release
  BY <1>2 DEF Seeder, SeederRecord, SeederAts
<1>4. k.release \in Releases /\ \A n \in k.gone : k.release[n] \in Unkept
  BY <1>3, LookIs DEF Seeder, SeederKnows, ReconcilesAt
<1>5. SeederKnows(k)
  BY <1>1, <1>3, <1>4 DEF SeederKnows, ReconcilesAt, PrunesAt
<1>6. k = B!After(s)
  BY <1>1, <1>2 DEF B!After
<1> QED
  BY <1>3, <1>5, <1>6 DEF Seeder, WorksAt, ReconcilesAt, PrunesAt

\* The names that a start is not at work on.
LEMMA OthersStay ==
    ASSUME SeedInv, NEW s \in Instances, NEW k \in Seeder, Moved(s, k), NEW n \in B!NameSet,
           ~ WorksAt(seeder[s], n), ~ WorksAt(k, n), registry'[n] = registry[n],
           document'[n] = document[n], became'[n] = became[n], n \in torn' <=> n \in torn
    PROVE  NameInv(n)'
<1>1. \A q \in Instances : seeder'[q] = seeder[q] \/ (~ WorksAt(seeder[q], n) /\ ~ WorksAt(seeder'[q], n))
  BY DEF Moved
<1> QED
  BY <1>1, NameStays DEF SeedInv

\* A start begins, and one is cut off.
LEMMA SeedBootSteps ==
    ASSUME SeedBounds, SeedInv, NEW s \in Instances, B!Start(s) \/ B!Cut(s)
    PROVE  SeedInv'
<1>1. B!Down \in Seeder /\ B!Down.at = "down"
  BY DEF SeedBounds, B!Down, Seeder, SeederRecord, SeederAts, SeederKnows, ReconcilesAt, PrunesAt
<1>2. CASE B!Start(s)
  <2>1. PICK r \in Releases : seeder' = [seeder EXCEPT ![s] = [B!Down EXCEPT !.at = "look", !.release = r, !.n = 1]]
    BY <1>2 DEF B!Start
  <2>2. PICK k : k = [B!Down EXCEPT !.at = "look", !.release = r, !.n = 1]
    OBVIOUS
  <2>3. k.at = "look" /\ k.release = r /\ k.n = 1 /\ k.gone = {} /\ k.met = FALSE
    BY <2>2 DEF B!Down
  <2>4. k \in SeederRecord
    <3>1. 1 \in 0..Len(Artifacts) + 1
      BY DEF SeedBounds
    <3> QED
      BY <2>2, <3>1 DEF B!Down, SeederRecord, SeederAts
  <2>5. k \in Seeder /\ \A n : ~ WorksAt(k, n)
    BY <2>3, <2>4 DEF Seeder, SeederKnows, WorksAt, ReconcilesAt, PrunesAt
  <2>6. Moved(s, k)
    BY <2>1, <2>2, <2>5, SeederMoves DEF SeedInv
  <2>7. /\ UNCHANGED <<registry, document, became, torn>> /\ UNCHANGED seedCuts
        /\ seedBoots' \in 0..Boots /\ seeder[s].at \in {"down", "dead", "done"}
    <3>1. /\ UNCHANGED <<registry, document, became, torn>> /\ UNCHANGED seedCuts
          /\ seedBoots' = seedBoots + 1 /\ seedBoots < Boots /\ seeder[s].at \in {"down", "dead", "done"}
      BY <1>2 DEF B!Start
    <3>2. seedBoots' \in 0..Boots
      BY <3>1 DEF SeedBounds, SeedInv, SeedTyped
    <3> QED
      BY <3>1, <3>2
  <2>8. SeedTyped'
    BY <2>6, <2>7 DEF SeedInv, SeedTyped, Moved
  <2>9. ASSUME NEW n \in B!NameSet PROVE NameInv(n)'
    <3>1. ~ WorksAt(seeder[s], n)
      BY <2>7 DEF WorksAt, ReconcilesAt, PrunesAt
    <3> QED
      BY <2>5, <2>6, <2>7, <3>1, OthersStay
  <2> QED
    BY <2>8, <2>9 DEF SeedInv
<1>3. CASE B!Cut(s)
  <2>1. /\ UNCHANGED <<registry, document, became>> /\ UNCHANGED seedBoots
        /\ seedCuts' \in 0..Cuts /\ seeder' = [seeder EXCEPT ![s] = B!Down]
        /\ torn' = torn \cup {n \in B!NameSet : WorksAt(seeder[s], n)}
    BY <1>3, WorksIs DEF B!Cut, SeedBounds, SeedInv, SeedTyped
  <2>2. PICK k \in Seeder : k = B!Down /\ \A n : ~ WorksAt(k, n)
    BY <1>1 DEF WorksAt, ReconcilesAt, PrunesAt
  <2>3. Moved(s, k)
    BY <2>1, <2>2, SeederMoves DEF SeedInv
  <2>4. SeedTyped'
    BY <2>1, <2>3 DEF SeedInv, SeedTyped, Moved
  <2>5. ASSUME NEW n \in B!NameSet PROVE NameInv(n)'
    <3>1. CASE WorksAt(seeder[s], n)
      <4>1. n \in torn' /\ ~ WorksAt(seeder'[s], n) /\ \A q \in Instances \ {s} : seeder'[q] = seeder[q]
        BY <2>1, <2>2, <2>3, <3>1 DEF Moved
      <4>2. document'[n].status # "none" => \E r \in Releases : B!Kept(r, n) /\ r[n].type = document'[n].type
        BY <2>1 DEF SeedInv, NameInv
      <4> QED
        BY <3>1, <4>1, <4>2, NameLeft DEF SeedInv
    <3>2. CASE ~ WorksAt(seeder[s], n)
      BY <2>1, <2>2, <2>3, <3>2, OthersStay
    <3> QED
      BY <3>1, <3>2
  <2> QED
    BY <2>4, <2>5 DEF SeedInv
<1> QED
  BY <1>2, <1>3

\* The registry has the hash of a file, or a file is not to be seeded.
LEMMA PassSteps ==
    ASSUME SeedBounds, SeedInv, NEW s \in Instances, B!Pass(s)
    PROVE  SeedInv'
<1>1. PICK old \in Seeder : old = seeder[s] /\ old.at = "look" /\ old.n <= Len(Artifacts)
  BY DEF B!Pass, SeedInv, SeedTyped
<1>2. PICK k \in Seeder : k = B!After(s) /\ \A n : ~ WorksAt(k, n)
  BY <1>1, AfterIs
<1>3. PICK x \in B!NameSet, r \in Releases : x = Artifacts[old.n] /\ r = old.release
  BY <1>1, LookIs
<1>4. Moved(s, k)
  BY <1>2, SeederMoves DEF SeedInv, B!Pass
<1>5. /\ UNCHANGED <<registry, document, torn>> /\ UNCHANGED <<seedBoots, seedCuts>>
      /\ B!Name(s) = x /\ B!File(s) = r[x]
  BY <1>1, <1>3 DEF B!Pass, B!Name, B!File
<1>6. /\ r[x].kind # "file" => became' = became
      /\ r[x].kind = "file" => became' = [became EXCEPT ![x] = r[x]] /\ registry[x] = B!Hash(r[x])
  BY <1>5 DEF B!Pass
<1>7. r[x].kind = "file" <=> r[x] \in SeedFile
  BY FilesApart DEF B!Kept
<1>8. SeedTyped'
  BY <1>4, <1>5, <1>6, <1>7 DEF SeedInv, SeedTyped, Moved
<1>9. ASSUME NEW n \in B!NameSet PROVE NameInv(n)'
  <2>1. ~ WorksAt(seeder[s], n)
    BY <1>1 DEF WorksAt, ReconcilesAt, PrunesAt
  <2>2. CASE n = x /\ r[x] \in SeedFile
    <3>1. became'[n] = r[x] /\ registry[n] = B!Hash(r[x]) /\ registry[n] # Nothing /\ r[x] # B!Absent
      BY <1>6, <1>7, <2>2, FilesApart DEF SeedInv, SeedTyped, SeedBounds
    <3>2. ASSUME Rested(n) PROVE Rested(n)'
      <4>1. became[n] # B!Absent /\ registry[n] = B!Hash(became[n])
        BY <3>1, <3>2 DEF Rested
      <4>2. became[n].body = r[x].body /\ became[n].labels = r[x].labels
        BY <3>1, <4>1 DEF B!Hash
      <4> QED
        BY <1>5, <3>1, <3>2, <4>1, <4>2 DEF Rested
    <3>3. \A q \in Instances : seeder'[q] = seeder[q] \/ (~ WorksAt(seeder[q], n) /\ ~ WorksAt(seeder'[q], n))
      BY <1>2, <1>4, <2>1 DEF Moved
    <3> QED
      BY <1>5, <3>2, <3>3, NamePasses DEF SeedInv
  <2>3. CASE ~ (n = x /\ r[x] \in SeedFile)
    <3>1. became'[n] = became[n]
      BY <1>6, <1>7, <2>3 DEF SeedInv, SeedTyped
    <3> QED
      BY <1>2, <1>4, <1>5, <2>1, <3>1, OthersStay
  <2> QED
    BY <2>2, <2>3
<1> QED
  BY <1>8, <1>9 DEF SeedInv

\* Where a start is at work on an artifact of its binary.
LEMMA ReconcileIs ==
    ASSUME SeedBounds, SeedInv, NEW s \in Instances, seeder[s].at \in ReconcilesAt
    PROVE  \E old \in Seeder, x \in B!NameSet, r \in Releases :
              /\ old = seeder[s] /\ r = old.release /\ x = Artifacts[old.n] /\ B!Name(s) = x /\ B!File(s) = r[x]
              /\ r[x] \in SeedFile /\ B!Kept(r, x) /\ r[x] # B!Absent /\ B!Hash(r[x]) \in SeedHash
              /\ \A n : WorksAt(old, n) <=> n = x
<1>1. PICK old \in Seeder : old = seeder[s] /\ old.at \in ReconcilesAt
  BY DEF SeedInv, SeedTyped
<1>2. PICK x \in B!NameSet, r \in Releases : x = Artifacts[old.n] /\ r = old.release
  BY <1>1, LookIs
<1>3. B!Name(s) = x /\ B!File(s) = r[x]
  BY <1>1, <1>2 DEF B!Name, B!File
<1>4. r[x] \in SeedFile
  BY <1>1, <1>2 DEF Seeder, SeederKnows
<1>5. \A n : WorksAt(old, n) <=> n = x
  BY <1>1, <1>2 DEF WorksAt, ReconcilesAt, PrunesAt
<1> QED
  BY <1>1, <1>2, <1>3, <1>4, <1>5, FilesApart

\* A start finds that the registry differs from a file.
LEMMA DifferSteps ==
    ASSUME SeedBounds, SeedInv, NEW s \in Instances, B!Differ(s)
    PROVE  SeedInv'
<1>1. PICK old \in Seeder : old = seeder[s] /\ old.at = "look" /\ old.n <= Len(Artifacts)
  BY DEF B!Differ, SeedInv, SeedTyped
<1>2. PICK x \in B!NameSet, r \in Releases : x = Artifacts[old.n] /\ r = old.release /\ old.n \in DOMAIN Artifacts
  BY <1>1, LookIs
<1>3. /\ UNCHANGED <<registry, document, became>> /\ UNCHANGED <<seedBoots, seedCuts>>
      /\ B!Name(s) = x /\ B!File(s) = r[x] /\ r[x].kind = "file"
      /\ B!Enter(s, x, [old EXCEPT !.at = "register"], torn)
  BY <1>1, <1>2 DEF B!Differ, B!Name, B!File
<1>4. r[x] \in SeedFile
  BY <1>3, FilesApart DEF B!Kept
<1>5. PICK as \in SeederRecord :
          /\ as = [old EXCEPT !.at = "register"] /\ as.at = "register" /\ as.n = old.n /\ as.gone = old.gone
          /\ as.release = old.release /\ as.met = old.met
  <2>1. "register" \in SeederAts
    BY DEF SeederAts, ReconcilesAt
  <2> QED
    BY <2>1, SeederGoes
<1>6. as \in Seeder
  <2>1. old.release \in Releases /\ \A n \in old.gone : old.release[n] \in Unkept
    BY <1>1 DEF Seeder, SeederKnows
  <2> QED
    BY <1>2, <1>4, <1>5, <2>1 DEF Seeder, SeederKnows, ReconcilesAt, PrunesAt
<1>7. WorksAt(as, x) /\ \A n : ~ WorksAt(old, n)
  BY <1>1, <1>2, <1>5 DEF WorksAt, ReconcilesAt, PrunesAt
<1>8. PICK k \in Seeder : Entered(s, x, k, torn) /\ k.at = "register" /\ WorksAt(k, x)
  <2>1. B!Enter(s, x, as, torn) /\ SeedTyped
    BY <1>3, <1>5 DEF SeedInv
  <2>2. PICK k \in Seeder :
            /\ Entered(s, x, k, torn) /\ k.at = as.at /\ k.n = as.n
            /\ k.gone = as.gone /\ k.release = as.release /\ \A m : WorksAt(k, m) <=> WorksAt(as, m)
    BY <1>6, <2>1, EnterIs
  <2> QED
    BY <1>5, <1>7, <2>2
<1>9. SeedTyped'
  BY <1>3, <1>8 DEF SeedInv, SeedTyped, Entered
<1>10. ASSUME NEW n \in B!NameSet PROVE NameInv(n)'
  <2>1. NameInv(n) /\ ~ WorksAt(seeder[s], n) /\ SeedTyped
    BY <1>1, <1>7 DEF SeedInv
  <2>2. CASE n = x
    BY <1>3, <1>8, <2>1, <2>2, NameEntered
  <2>3. CASE n # x
    <3>1. /\ \A q \in Instances \ {s} :
                seeder'[q] = seeder[q] \/ (~ WorksAt(seeder[q], n) /\ ~ WorksAt(seeder'[q], n))
          /\ ~ WorksAt(seeder'[s], n) /\ (n \in torn' <=> n \in torn)
      BY <1>8, <2>1, <2>3, OthersEntered
    <3> QED
      BY <1>3, <2>1, <3>1, NameStays
  <2> QED
    BY <2>2, <2>3
<1> QED
  BY <1>9, <1>10 DEF SeedInv

\* A start goes on with a name, or is done with it.
LEMMA WorkSteps ==
    ASSUME SeedBounds, SeedInv, SeedTyped', NEW s \in Instances, NEW x \in B!NameSet, NEW k \in Seeder,
           Moved(s, k), WorksAt(seeder[s], x), WorksAt(k, x), k.met = seeder[s].met, torn' = torn,
           \A n \in B!NameSet \ {x} :
              registry'[n] = registry[n] /\ document'[n] = document[n] /\ became'[n] = became[n],
           ~ k.met => InHand(k, x)',
           document'[x].status # "none" => \E r \in Releases : B!Kept(r, x) /\ r[x].type = document'[x].type
    PROVE  SeedInv'
<1>1. ASSUME NEW n \in B!NameSet PROVE NameInv(n)'
  <2>1. CASE n = x
    <3>1. NameInv(x) /\ seeder'[s] = k /\ \A q \in Instances \ {s} : seeder'[q] = seeder[q]
      BY DEF SeedInv, Moved
    <3>2. NameInv(x)'
      BY <3>1, NameWorked
    <3> QED
      BY <2>1, <3>2
  <2>2. CASE n # x
    <3>1. PICK old \in Seeder : old = seeder[s]
      BY DEF SeedInv, SeedTyped
    <3>2. ~ WorksAt(seeder[s], n) /\ ~ WorksAt(k, n)
      BY <2>2, <3>1, WorksOnOne
    <3> QED
      BY <2>2, <3>2, OthersStay
  <2> QED
    BY <2>1, <2>2
<1> QED
  BY <1>1 DEF SeedInv

LEMMA LeaveSteps ==
    ASSUME SeedBounds, SeedInv, SeedTyped', NEW s \in Instances, NEW x \in B!NameSet, NEW k \in Seeder,
           Moved(s, k), WorksAt(seeder[s], x), \A n : ~ WorksAt(k, n),
           x \in torn' \/ (~ seeder[s].met /\ Rested(x)'),
           \A n \in B!NameSet \ {x} :
              /\ registry'[n] = registry[n] /\ document'[n] = document[n] /\ became'[n] = became[n]
              /\ n \in torn' <=> n \in torn,
           document'[x].status # "none" => \E r \in Releases : B!Kept(r, x) /\ r[x].type = document'[x].type
    PROVE  SeedInv'
<1>1. ASSUME NEW n \in B!NameSet PROVE NameInv(n)'
  <2>1. CASE n = x
    <3>1. NameInv(x) /\ ~ WorksAt(seeder'[s], x) /\ \A q \in Instances \ {s} : seeder'[q] = seeder[q]
      BY DEF SeedInv, Moved
    <3>2. NameInv(x)'
      BY <3>1, NameLeft
    <3> QED
      BY <2>1, <3>2
  <2>2. CASE n # x
    <3>1. PICK old \in Seeder : old = seeder[s]
      BY DEF SeedInv, SeedTyped
    <3>2. ~ WorksAt(seeder[s], n) /\ ~ WorksAt(k, n)
      BY <2>2, <3>1, WorksOnOne
    <3> QED
      BY <2>2, <3>2, OthersStay
  <2> QED
    BY <2>1, <2>2
<1> QED
  BY <1>1 DEF SeedInv

\* What a start goes on to be, at the artifact it is at work on.
LEMMA ReconcileGoes ==
    ASSUME NEW s \in Instances, NEW old \in Seeder, old.at \in ReconcilesAt, NEW at \in ReconcilesAt
    PROVE  \E k \in Seeder :
              /\ k = [old EXCEPT !.at = at] /\ k.at = at /\ k.n = old.n /\ k.release = old.release
              /\ k.met = old.met /\ \A n : WorksAt(k, n) <=> WorksAt(old, n)
<1>1. at \in SeederAts
  BY DEF SeederAts
<1>2. PICK k \in SeederRecord :
          /\ k = [old EXCEPT !.at = at] /\ k.at = at /\ k.n = old.n /\ k.gone = old.gone
          /\ k.release = old.release /\ k.met = old.met
  BY <1>1, SeederGoes
<1>3. SeederKnows(k)
  BY <1>2 DEF Seeder, SeederKnows, ReconcilesAt, PrunesAt
<1>4. \A n : WorksAt(k, n) <=> WorksAt(old, n)
  BY <1>2 DEF WorksAt, ReconcilesAt, PrunesAt
<1> QED
  BY <1>2, <1>3, <1>4 DEF Seeder

\* The registry, before the document follows.
LEMMA RegisterSteps ==
    ASSUME SeedBounds, SeedInv, NEW s \in Instances, B!Register(s)
    PROVE  SeedInv'
<1>1. seeder[s].at = "register"
  BY DEF B!Register
<1>2. PICK old \in Seeder, x \in B!NameSet, r \in Releases :
          /\ old = seeder[s] /\ r = old.release /\ x = Artifacts[old.n] /\ B!Name(s) = x /\ B!File(s) = r[x]
          /\ r[x] \in SeedFile /\ B!Kept(r, x) /\ r[x] # B!Absent /\ B!Hash(r[x]) \in SeedHash
          /\ \A n : WorksAt(old, n) <=> n = x
  BY <1>1, ReconcileIs DEF ReconcilesAt
<1>3. PICK k \in Seeder :
          /\ k = [old EXCEPT !.at = "mirror"] /\ k.at = "mirror" /\ k.n = old.n /\ k.release = old.release
          /\ k.met = old.met /\ \A n : WorksAt(k, n) <=> WorksAt(old, n)
  BY <1>1, <1>2, ReconcileGoes DEF ReconcilesAt
<1>4. /\ registry' = [registry EXCEPT ![x] = B!Hash(r[x])] /\ seeder' = [seeder EXCEPT ![s] = k]
      /\ UNCHANGED <<document, became, torn>> /\ UNCHANGED <<seedBoots, seedCuts>>
  BY <1>2, <1>3 DEF B!Register, B!Go
<1>5. Moved(s, k)
  BY <1>4, SeederMoves DEF SeedInv
<1>6. SeedTyped'
  BY <1>2, <1>4, <1>5 DEF SeedInv, SeedTyped, Moved
<1>7. InHand(k, x)'
  BY <1>2, <1>3, <1>4 DEF InHand, SeedInv, SeedTyped
<1>8. document'[x].status # "none" => \E q \in Releases : B!Kept(q, x) /\ q[x].type = document'[x].type
  BY <1>4 DEF SeedInv, NameInv
<1>9. \A n \in B!NameSet \ {x} :
          registry'[n] = registry[n] /\ document'[n] = document[n] /\ became'[n] = became[n]
  BY <1>4 DEF SeedInv, SeedTyped
<1> QED
  BY <1>2, <1>3, <1>4, <1>5, <1>6, <1>7, <1>8, <1>9, WorkSteps

\* The document follows, or is of another type.
LEMMA MirrorSteps ==
    ASSUME SeedBounds, SeedInv, NEW s \in Instances, B!Mirror(s)
    PROVE  SeedInv'
<1>1. seeder[s].at = "mirror"
  BY DEF B!Mirror
<1>2. PICK old \in Seeder, x \in B!NameSet, r \in Releases :
          /\ old = seeder[s] /\ r = old.release /\ x = Artifacts[old.n] /\ B!Name(s) = x /\ B!File(s) = r[x]
          /\ r[x] \in SeedFile /\ B!Kept(r, x) /\ r[x] # B!Absent /\ B!Hash(r[x]) \in SeedHash
          /\ \A n : WorksAt(old, n) <=> n = x
  BY <1>1, ReconcileIs DEF ReconcilesAt
<1>3. PICK d \in SeedDocument : d = document[x]
  BY DEF SeedInv, SeedTyped
<1>4. /\ UNCHANGED <<registry, became>> /\ UNCHANGED <<seedBoots, seedCuts>>
  BY DEF B!Mirror
<1>5. d.status # "none" => \E q \in Releases : B!Kept(q, x) /\ q[x].type = d.type
  BY <1>3 DEF SeedInv, NameInv
<1>6. ~ old.met => registry[x] = B!Hash(r[x])
  BY <1>1, <1>2 DEF SeedInv, NameInv, InHand
<1>7. ASSUME NEW e \in SeedDocument, document' = [document EXCEPT ![x] = e], B!Go(s, "label"), UNCHANGED torn,
             e.status = "active", e.body = r[x].body, \E q \in Releases : B!Kept(q, x) /\ q[x].type = e.type
      PROVE  SeedInv'
  <2>1. PICK k \in Seeder :
            /\ k = [old EXCEPT !.at = "label"] /\ k.at = "label" /\ k.n = old.n /\ k.release = old.release
            /\ k.met = old.met /\ \A n : WorksAt(k, n) <=> WorksAt(old, n)
    BY <1>1, <1>2, ReconcileGoes DEF ReconcilesAt
  <2>2. seeder' = [seeder EXCEPT ![s] = k]
    BY <1>2, <1>7, <2>1 DEF B!Go
  <2>3. Moved(s, k)
    BY <2>2, SeederMoves DEF SeedInv
  <2>4. document' \in [B!NameSet -> SeedDocument] /\ document'[x] = e /\ \A n \in B!NameSet \ {x} : document'[n] = document[n]
    BY <1>7 DEF SeedInv, SeedTyped
  <2>5. SeedTyped'
    BY <1>4, <1>7, <2>3, <2>4 DEF SeedInv, SeedTyped, Moved
  <2>6. ~ k.met => InHand(k, x)'
    BY <1>2, <1>4, <1>6, <1>7, <2>1, <2>4 DEF InHand
  <2>7. \A n \in B!NameSet \ {x} :
            registry'[n] = registry[n] /\ document'[n] = document[n] /\ became'[n] = became[n]
    BY <1>4, <2>4
  <2> QED
    BY ZenonT(60), <1>2, <1>7, <2>1, <2>3, <2>4, <2>5, <2>6, <2>7, WorkSteps
<1>8. CASE d.status = "active" /\ d.body = r[x].body
  <2>1. B!Go(s, "label") /\ UNCHANGED <<document, torn>>
    BY <1>2, <1>3, <1>8 DEF B!Mirror
  <2>2. document' = [document EXCEPT ![x] = d]
    BY <1>3, <2>1 DEF SeedInv, SeedTyped
  <2> QED
    BY <1>5, <1>7, <1>8, <2>1, <2>2
<1>9. CASE ~ (d.status = "active" /\ d.body = r[x].body) /\ d.status # "none" /\ d.type # r[x].type
  <2>1. B!Go(s, "dead") /\ torn' = torn \cup {x} /\ UNCHANGED document
    BY <1>2, <1>3, <1>9 DEF B!Mirror
  <2>2. PICK k \in SeederRecord :
            /\ k = [old EXCEPT !.at = "dead"] /\ k.at = "dead" /\ k.n = old.n /\ k.gone = old.gone
            /\ k.release = old.release /\ k.met = old.met
    <3>1. "dead" \in SeederAts
      BY DEF SeederAts
    <3> QED
      BY <3>1, SeederGoes
  <2>3. SeederKnows(k)
    <3>1. old.n \in DOMAIN Artifacts /\ \A n \in old.gone : r[n] \in Unkept
      BY <1>1, <1>2 DEF Seeder, SeederKnows, ReconcilesAt
    <3>2. \E q \in Releases : B!Kept(q, x) /\ q[x].type # r[x].type
      BY <1>5, <1>9
    <3> QED
      BY <1>2, <2>2, <3>1, <3>2 DEF SeederKnows, ReconcilesAt, PrunesAt
  <2>4. k \in Seeder /\ \A n : ~ WorksAt(k, n)
    BY <2>2, <2>3 DEF Seeder, WorksAt, ReconcilesAt, PrunesAt
  <2>5. Moved(s, k)
    <3>1. seeder' = [seeder EXCEPT ![s] = k]
      BY <1>2, <2>1, <2>2 DEF B!Go
    <3> QED
      BY <2>4, <3>1, SeederMoves DEF SeedInv
  <2>6. SeedTyped'
    BY <1>4, <2>1, <2>5 DEF SeedInv, SeedTyped, Moved
  <2>7. document'[x].status # "none" => \E q \in Releases : B!Kept(q, x) /\ q[x].type = document'[x].type
    BY SMTT(30), <1>3, <1>5, <2>1
  <2> QED
    BY <1>2, <1>4, <2>1, <2>4, <2>5, <2>6, <2>7, LeaveSteps
<1>10. CASE ~ (d.status = "active" /\ d.body = r[x].body) /\ ~ (d.status # "none" /\ d.type # r[x].type)
  <2>1. PICK e : e = [d EXCEPT !.status = "active", !.type = r[x].type, !.body = r[x].body]
    BY SMTT(30)
  <2>2. e \in SeedDocument /\ e.status = "active" /\ e.body = r[x].body /\ e.type = r[x].type
    BY ZenonT(60), <1>2, <2>1 DEF SeedDocument, SeedFile
  <2>3. /\ document' = [document EXCEPT ![x] = [@ EXCEPT !.status = "active", !.type = r[x].type, !.body = r[x].body]]
        /\ B!Go(s, "label") /\ UNCHANGED torn
    BY <1>2, <1>3, <1>10 DEF B!Mirror
  <2>4. document' = [document EXCEPT ![x] = e]
    BY <1>3, <2>1, <2>3
  <2> QED
    BY <1>2, <1>7, <2>2, <2>3, <2>4
<1> QED
  BY <1>8, <1>9, <1>10

\* The labels, which end the work on a name.
LEMMA LabelSteps ==
    ASSUME SeedBounds, SeedInv, NEW s \in Instances, B!Label(s)
    PROVE  SeedInv'
<1>1. seeder[s].at = "label"
  BY DEF B!Label
<1>2. PICK old \in Seeder, x \in B!NameSet, r \in Releases :
          /\ old = seeder[s] /\ r = old.release /\ x = Artifacts[old.n] /\ B!Name(s) = x /\ B!File(s) = r[x]
          /\ r[x] \in SeedFile /\ B!Kept(r, x) /\ r[x] # B!Absent /\ B!Hash(r[x]) \in SeedHash
          /\ \A n : WorksAt(old, n) <=> n = x
  BY <1>1, ReconcileIs DEF ReconcilesAt
<1>3. PICK k \in Seeder : k = B!After(s) /\ \A n : ~ WorksAt(k, n)
  BY <1>1, <1>2, AfterIs DEF ReconcilesAt
<1>4. Moved(s, k)
  BY <1>3, SeederMoves DEF SeedInv, B!Label
<1>5. PICK d \in SeedDocument : d = document[x]
  BY DEF SeedInv, SeedTyped
<1>6. PICK e \in SeedDocument :
          /\ document' = [document EXCEPT ![x] = e] /\ e.status = d.status /\ e.body = d.body /\ e.type = d.type
          /\ r[x].labels # 0 => e.labels = r[x].labels
  <2>1. PICK e : e = IF r[x].labels = 0 THEN d ELSE [d EXCEPT !.labels = r[x].labels]
    OBVIOUS
  <2>2. /\ e \in SeedDocument /\ e.status = d.status /\ e.body = d.body /\ e.type = d.type
        /\ r[x].labels # 0 => e.labels = r[x].labels
    BY <1>2, <2>1 DEF SeedDocument, SeedFile
  <2>3. document' = [document EXCEPT ![x] = e]
    <3>1. CASE r[x].labels = 0
      BY <1>2, <1>5, <2>1, <3>1 DEF B!Label, SeedInv, SeedTyped
    <3>2. CASE r[x].labels # 0
      BY <1>2, <1>5, <2>1, <3>2 DEF B!Label
    <3> QED
      BY <3>1, <3>2
  <2> QED
    BY <2>2, <2>3
<1>7. /\ became' = [became EXCEPT ![x] = r[x]] /\ torn' = IF old.met THEN torn ELSE torn \ {x}
      /\ UNCHANGED registry /\ UNCHANGED <<seedBoots, seedCuts>>
  BY <1>2 DEF B!Label
<1>8. SeedTyped'
  BY <1>2, <1>4, <1>6, <1>7 DEF SeedInv, SeedTyped, Moved
<1>9. document'[x] = e /\ became'[x] = r[x]
  BY <1>6, <1>7 DEF SeedInv, SeedTyped
<1>10. /\ ~ old.met => registry[x] = B!Hash(r[x]) /\ d.status = "active" /\ d.body = r[x].body
       /\ old.met => x \in torn
  BY <1>1, <1>2, <1>5 DEF SeedInv, NameInv, InHand
<1>11. x \in torn' \/ (~ old.met /\ Rested(x)')
  BY <1>2, <1>6, <1>7, <1>9, <1>10 DEF Rested
<1>12. document'[x].status # "none" => \E q \in Releases : B!Kept(q, x) /\ q[x].type = document'[x].type
  BY <1>5, <1>6, <1>9 DEF SeedInv, NameInv
<1>13. \A n \in B!NameSet \ {x} :
          /\ registry'[n] = registry[n] /\ document'[n] = document[n] /\ became'[n] = became[n]
          /\ n \in torn' <=> n \in torn
  BY <1>6, <1>7 DEF SeedInv, SeedTyped
<1> QED
  BY <1>2, <1>3, <1>4, <1>8, <1>11, <1>12, <1>13, LeaveSteps

\* Where a start is at work on an artifact that is to be pruned.
LEMMA PruneIs ==
    ASSUME SeedBounds, SeedInv, NEW s \in Instances, seeder[s].at \in PrunesAt
    PROVE  \E old \in Seeder, x \in B!NameSet :
              /\ old = seeder[s] /\ x = B!First(old.gone) /\ x \in old.gone
              /\ old.release \in Releases /\ \A n \in old.gone : n \in B!NameSet /\ old.release[n] \in Unkept
              /\ \A n : WorksAt(old, n) <=> n = x
<1>1. PICK old \in Seeder : old = seeder[s] /\ old.at \in PrunesAt
  BY DEF SeedInv, SeedTyped
<1>2. PICK x : x = B!First(old.gone)
  OBVIOUS
<1>3. WorksAt(old, x)
  BY <1>1, <1>2 DEF WorksAt
<1>4. x \in B!NameSet /\ x \in old.gone /\ old.release \in Releases /\ \A n : WorksAt(old, n) <=> n = x
  BY <1>1, <1>3, WorksOnOne
<1>5. \A n \in old.gone : n \in B!NameSet /\ old.release[n] \in Unkept
  BY <1>1 DEF Seeder, SeederRecord, SeederKnows, PrunesAt
<1> QED
  BY <1>1, <1>2, <1>4, <1>5

\* A document that is deleted.
LEMMA DeleteSteps ==
    ASSUME SeedBounds, SeedInv, NEW s \in Instances, B!Delete(s)
    PROVE  SeedInv'
<1>1. seeder[s].at = "delete"
  BY DEF B!Delete
<1>2. PICK old \in Seeder, x \in B!NameSet :
          /\ old = seeder[s] /\ x = B!First(old.gone) /\ x \in old.gone
          /\ old.release \in Releases /\ \A n \in old.gone : n \in B!NameSet /\ old.release[n] \in Unkept
          /\ \A n : WorksAt(old, n) <=> n = x
  BY <1>1, PruneIs DEF PrunesAt
<1>3. PICK k \in SeederRecord :
          /\ k = [old EXCEPT !.at = "unregister"] /\ k.at = "unregister" /\ k.n = old.n /\ k.gone = old.gone
          /\ k.release = old.release /\ k.met = old.met
  <2>1. "unregister" \in SeederAts
    BY DEF SeederAts, PrunesAt
  <2> QED
    BY <2>1, SeederGoes
<1>4. k \in Seeder
  BY <1>2, <1>3 DEF Seeder, SeederKnows, ReconcilesAt
<1>5. WorksAt(k, x)
  BY <1>2, <1>3 DEF WorksAt, PrunesAt
<1>6. Moved(s, k)
  <2>1. seeder' = [seeder EXCEPT ![s] = k]
    BY <1>2, <1>3 DEF B!Delete, B!Go
  <2> QED
    BY <1>4, <2>1, SeederMoves DEF SeedInv
<1>7. PICK d \in SeedDocument : d = document[x]
  BY DEF SeedInv, SeedTyped
<1>8. PICK e \in SeedDocument :
          /\ document' = [document EXCEPT ![x] = e] /\ e.status \in {"none", "deleted"} /\ e.type = d.type
          /\ d.status = "none" => e.status = "none"
  <2>1. CASE d.status = "none"
    <3>1. document' = [document EXCEPT ![x] = d]
      BY <1>2, <1>7, <2>1 DEF B!Delete, SeedInv, SeedTyped
    <3> QED
      BY <2>1, <3>1
  <2>2. CASE d.status # "none"
    <3>1. PICK e : e = [d EXCEPT !.status = "deleted", !.body = Nothing]
      OBVIOUS
    <3>2. e \in SeedDocument /\ e.status = "deleted" /\ e.type = d.type
      BY <3>1 DEF SeedDocument
    <3>3. document' = [document EXCEPT ![x] = e]
      BY <1>2, <1>7, <2>2, <3>1 DEF B!Delete, SeedInv, SeedTyped
    <3> QED
      BY <2>2, <3>2, <3>3
  <2> QED
    BY <2>1, <2>2
<1>9. UNCHANGED <<registry, became, torn>> /\ UNCHANGED <<seedBoots, seedCuts>>
  BY DEF B!Delete
<1>10. document'[x] = e /\ \A n \in B!NameSet \ {x} : document'[n] = document[n]
  BY <1>8 DEF SeedInv, SeedTyped
<1>11. SeedTyped'
  BY <1>6, <1>8, <1>9 DEF SeedInv, SeedTyped, Moved
<1>12. InHand(k, x)'
  BY <1>3, <1>8, <1>10 DEF InHand
<1>13. document'[x].status # "none" => \E q \in Releases : B!Kept(q, x) /\ q[x].type = document'[x].type
  BY <1>7, <1>8, <1>10 DEF SeedInv, NameInv
<1> QED
  BY <1>2, <1>3, <1>4, <1>5, <1>6, <1>9, <1>10, <1>11, <1>12, <1>13, WorkSteps

\* The start that turns to the first of the names to prune.
LEMMA NextGone ==
    ASSUME SeedBounds, NEW old \in Seeder, old.at # "down", NEW gone \in SUBSET B!NameSet, gone # {},
           \A n \in gone : old.release[n] \in Unkept
    PROVE  \E as \in Seeder :
              /\ as = [old EXCEPT !.at = "delete", !.gone = gone] /\ as.at = "delete"
              /\ WorksAt(as, B!First(gone)) /\ B!First(gone) \in gone
<1>1. PICK as : as = [old EXCEPT !.at = "delete", !.gone = gone]
  OBVIOUS
<1>2. /\ as \in SeederRecord /\ as.at = "delete" /\ as.gone = gone /\ as.release = old.release
  BY <1>1 DEF Seeder, SeederRecord, SeederAts, PrunesAt
<1>3. SeederKnows(as)
  BY <1>2 DEF Seeder, SeederKnows, ReconcilesAt, PrunesAt
<1>4. WorksAt(as, B!First(gone)) /\ B!First(gone) \in gone
  BY <1>2, FirstGone DEF WorksAt, PrunesAt
<1> QED
  BY <1>1, <1>2, <1>3, <1>4 DEF Seeder

\* A start lists the names to prune, once it went through its artifacts.
LEMMA ListSteps ==
    ASSUME SeedBounds, SeedInv, NEW s \in Instances, B!List(s)
    PROVE  SeedInv'
<1>1. PICK old \in Seeder : old = seeder[s] /\ old.at = "look"
  BY DEF B!List, SeedInv, SeedTyped
<1>2. PICK r \in Releases : r = old.release
  BY <1>1 DEF Seeder, SeederKnows
<1>3. PICK gone : gone = B!Retired(r)
  OBVIOUS
<1>4. gone \in SUBSET B!NameSet /\ \A n \in gone : r[n] \in Unkept
  BY <1>3, FilesApart DEF B!Retired
<1>5. UNCHANGED <<registry, document, became>> /\ UNCHANGED <<seedBoots, seedCuts>>
  BY DEF B!List
<1>6. SeedTyped /\ \A n \in B!NameSet : NameInv(n) /\ ~ WorksAt(seeder[s], n)
  BY <1>1 DEF SeedInv, WorksAt, ReconcilesAt, PrunesAt
<1>7. CASE gone = {}
  <2>1. B!Go(s, "done") /\ torn' = torn
    BY <1>1, <1>2, <1>3, <1>7 DEF B!List, B!ToPrune
  <2>2. PICK k \in SeederRecord :
            /\ k = [old EXCEPT !.at = "done"] /\ k.at = "done" /\ k.n = old.n /\ k.gone = old.gone
            /\ k.release = old.release /\ k.met = old.met
    <3>1. "done" \in SeederAts
      BY DEF SeederAts
    <3> QED
      BY <3>1, SeederGoes
  <2>3. k \in Seeder /\ \A n : ~ WorksAt(k, n)
    BY <1>1, <2>2 DEF Seeder, SeederKnows, WorksAt, ReconcilesAt, PrunesAt
  <2>4. Moved(s, k)
    <3>1. seeder' = [seeder EXCEPT ![s] = k]
      BY <1>1, <2>1, <2>2 DEF B!Go
    <3> QED
      BY <1>6, <2>3, <3>1, SeederMoves
  <2>5. SeedTyped'
    BY <1>5, <1>6, <2>1, <2>4 DEF SeedTyped, Moved
  <2>6. \A n \in B!NameSet : NameInv(n)'
    BY <1>5, <1>6, <2>1, <2>3, <2>4, OthersStay
  <2> QED
    BY <2>5, <2>6 DEF SeedInv
<1>8. CASE gone # {}
  <2>1. PICK as \in Seeder :
            /\ as = [old EXCEPT !.at = "delete", !.gone = gone] /\ as.at = "delete"
            /\ WorksAt(as, B!First(gone)) /\ B!First(gone) \in gone
    BY <1>1, <1>2, <1>4, <1>8, NextGone
  <2>2. PICK x \in B!NameSet : x = B!First(gone)
    BY <1>4, <2>1
  <2>3. SeedTyped /\ B!Enter(s, x, as, torn)
    BY <1>1, <1>2, <1>3, <1>6, <1>8, <2>1, <2>2 DEF B!List, B!ToPrune
  <2>4. PICK k \in Seeder :
            /\ Entered(s, x, k, torn) /\ k.at = as.at /\ k.n = as.n
            /\ k.gone = as.gone /\ k.release = as.release /\ \A m : WorksAt(k, m) <=> WorksAt(as, m)
    BY <2>3, EnterIs
  <2>5. k.at = "delete" /\ WorksAt(k, x)
    BY <2>1, <2>2, <2>4
  <2>6. SeedTyped'
    BY <1>5, <1>6, <2>4 DEF SeedTyped, Entered
  <2>7. ASSUME NEW n \in B!NameSet PROVE NameInv(n)'
    <3>1. CASE n = x
      BY <1>5, <1>6, <2>4, <2>5, <3>1, NameEntered
    <3>2. CASE n # x
      <4>1. /\ \A q \in Instances \ {s} :
                  seeder'[q] = seeder[q] \/ (~ WorksAt(seeder[q], n) /\ ~ WorksAt(seeder'[q], n))
            /\ ~ WorksAt(seeder'[s], n) /\ (n \in torn' <=> n \in torn)
        BY <1>6, <2>4, <2>5, <3>2, OthersEntered
      <4> QED
        BY <1>5, <1>6, <4>1, NameStays
    <3> QED
      BY <3>1, <3>2
  <2> QED
    BY <2>6, <2>7 DEF SeedInv
<1> QED
  BY <1>7, <1>8

\* The registry, after the document is gone; and what the start turns to next.
LEMMA UnregisterSteps ==
    ASSUME SeedBounds, SeedInv, NEW s \in Instances, B!Unregister(s)
    PROVE  SeedInv'
<1>1. seeder[s].at = "unregister" /\ SeedTyped
  BY DEF B!Unregister, SeedInv
<1>2. PICK old \in Seeder, x \in B!NameSet :
          /\ old = seeder[s] /\ x = B!First(old.gone) /\ x \in old.gone
          /\ old.release \in Releases /\ \A n \in old.gone : n \in B!NameSet /\ old.release[n] \in Unkept
          /\ \A n : WorksAt(old, n) <=> n = x
  BY <1>1, PruneIs DEF PrunesAt
<1>3. PICK rest : rest = old.gone \ {x}
  OBVIOUS
<1>4. rest \in SUBSET B!NameSet /\ x \notin rest /\ \A n \in rest : old.release[n] \in Unkept
  BY <1>2, <1>3
<1>5. PICK clean : clean = IF old.met THEN torn ELSE torn \ {x}
  OBVIOUS
<1>6. /\ registry' = [registry EXCEPT ![x] = Nothing] /\ became' = [became EXCEPT ![x] = B!Absent]
      /\ B!ToPrune(s, rest, clean) /\ UNCHANGED document /\ UNCHANGED <<seedBoots, seedCuts>>
  BY <1>2, <1>3, <1>5 DEF B!Unregister
<1>7. /\ registry' \in [B!NameSet -> SeedHash \cup {Nothing}]
      /\ became' \in [B!NameSet -> SeedFile \cup {B!Absent}]
      /\ registry'[x] = Nothing /\ became'[x] = B!Absent
      /\ \A n \in B!NameSet \ {x} : registry'[n] = registry[n] /\ became'[n] = became[n]
  BY <1>1, <1>6 DEF SeedTyped
<1>8. clean \subseteq B!NameSet /\ \A n \in B!NameSet \ {x} : n \in clean <=> n \in torn
  BY <1>1, <1>5 DEF SeedTyped
<1>9. /\ ~ old.met => document[x].status # "active"
      /\ old.met => x \in clean
  BY <1>1, <1>2, <1>5 DEF SeedInv, NameInv, InHand
<1>10. x \in clean \/ (~ seeder[s].met /\ Rested(x)')
  BY <1>2, <1>6, <1>7, <1>9 DEF Rested
<1>11. document'[x].status # "none" => \E q \in Releases : B!Kept(q, x) /\ q[x].type = document'[x].type
  BY <1>6 DEF SeedInv, NameInv
<1>12. CASE rest = {}
  <2>1. B!Go(s, "done") /\ torn' = clean
    BY <1>6, <1>12 DEF B!ToPrune
  <2>2. PICK k \in SeederRecord :
            /\ k = [old EXCEPT !.at = "done"] /\ k.at = "done" /\ k.n = old.n /\ k.gone = old.gone
            /\ k.release = old.release /\ k.met = old.met
    <3>1. "done" \in SeederAts
      BY DEF SeederAts
    <3> QED
      BY <3>1, SeederGoes
  <2>3. k \in Seeder /\ \A n : ~ WorksAt(k, n)
    BY <1>2, <2>2 DEF Seeder, SeederKnows, WorksAt, ReconcilesAt, PrunesAt
  <2>4. Moved(s, k)
    <3>1. seeder' = [seeder EXCEPT ![s] = k]
      BY <1>2, <2>1, <2>2 DEF B!Go
    <3> QED
      BY <1>1, <2>3, <3>1, SeederMoves
  <2>5. SeedTyped'
    BY <1>1, <1>6, <1>7, <1>8, <2>1, <2>4 DEF SeedTyped, Moved
  <2>6. WorksAt(seeder[s], x)
    BY <1>2
  <2>7. \A n \in B!NameSet \ {x} :
            /\ registry'[n] = registry[n] /\ document'[n] = document[n] /\ became'[n] = became[n]
            /\ n \in torn' <=> n \in torn
    BY <1>6, <1>7, <1>8, <2>1
  <2>8. x \in torn' \/ (~ seeder[s].met /\ Rested(x)')
    BY <1>10, <2>1
  <2> QED
    BY <1>11, <2>3, <2>4, <2>5, <2>6, <2>7, <2>8, LeaveSteps
<1>13. CASE rest # {}
  <2>1. PICK as \in Seeder :
            /\ as = [old EXCEPT !.at = "delete", !.gone = rest] /\ as.at = "delete"
            /\ WorksAt(as, B!First(rest)) /\ B!First(rest) \in rest
    BY <1>1, <1>2, <1>4, <1>13, NextGone
  <2>2. PICK y \in B!NameSet : y = B!First(rest) /\ y # x
    BY <1>4, <2>1
  <2>3. SeedTyped /\ B!Enter(s, y, as, clean)
    BY <1>1, <1>2, <1>6, <1>13, <2>1, <2>2 DEF B!ToPrune
  <2>4. PICK k \in Seeder :
            /\ Entered(s, y, k, clean) /\ k.at = as.at /\ k.n = as.n
            /\ k.gone = as.gone /\ k.release = as.release /\ \A m : WorksAt(k, m) <=> WorksAt(as, m)
    BY <2>3, EnterIs
  <2>5. k.at = "delete" /\ WorksAt(k, y)
    BY <2>1, <2>2, <2>4
  <2>6. SeedTyped'
    BY <1>1, <1>6, <1>7, <1>8, <2>4 DEF SeedTyped, Entered
  <2>7. ASSUME NEW n \in B!NameSet, n # y
        PROVE  /\ \A q \in Instances \ {s} :
                     seeder'[q] = seeder[q] \/ (~ WorksAt(seeder[q], n) /\ ~ WorksAt(seeder'[q], n))
               /\ ~ WorksAt(seeder'[s], n) /\ (n \in torn' <=> n \in clean)
    BY <1>1, <2>4, <2>5, <2>7, OthersEntered
  <2>8. ASSUME NEW n \in B!NameSet PROVE NameInv(n)'
    <3>1. NameInv(n)
      BY DEF SeedInv
    <3>2. CASE n = y
      <4>1. ~ WorksAt(seeder[s], n) /\ (n \in torn => n \in clean)
        BY <1>2, <1>8, <2>2, <3>2
      <4>2. registry'[n] = registry[n] /\ document'[n] = document[n] /\ became'[n] = became[n]
        BY <1>6, <1>7, <2>2, <3>2
      <4> QED
        BY <1>1, <2>4, <2>5, <3>1, <3>2, <4>1, <4>2, NameEntered
    <3>3. CASE n = x
      <4>1. WorksAt(seeder[s], n) /\ ~ WorksAt(seeder'[s], n) /\ (n \in torn' \/ (~ seeder[s].met /\ Rested(n)'))
        BY <1>2, <1>10, <2>2, <2>7, <3>3
      <4>2. \A q \in Instances \ {s} :
                seeder'[q] = seeder[q] \/ (~ WorksAt(seeder[q], n) /\ ~ WorksAt(seeder'[q], n))
        BY <2>2, <2>7, <3>3
      <4>3. document'[n].status # "none" => \E q \in Releases : B!Kept(q, n) /\ q[n].type = document'[n].type
        BY <1>11, <3>3
      <4> QED
        BY <3>1, <4>1, <4>2, <4>3, NameLeft
    <3>4. CASE n # x /\ n # y
      <4>1. registry'[n] = registry[n] /\ document'[n] = document[n] /\ became'[n] = became[n]
        BY <1>6, <1>7, <3>4
      <4>2. ~ WorksAt(seeder[s], n) /\ (n \in torn' <=> n \in torn)
        BY <1>2, <1>8, <2>7, <3>4
      <4>3. \A q \in Instances : seeder'[q] = seeder[q] \/ (~ WorksAt(seeder[q], n) /\ ~ WorksAt(seeder'[q], n))
        BY <2>7, <3>4, <4>2
      <4> QED
        BY <3>1, <4>1, <4>2, <4>3, NameStays
    <3> QED
      BY <3>2, <3>3, <3>4
  <2> QED
    BY <2>6, <2>8 DEF SeedInv
<1> QED
  BY <1>12, <1>13

LEMMA SeedInit == ASSUME SeedBounds, B!Init PROVE SeedInv
<1>1. /\ registry = [n \in B!NameSet |-> Nothing] /\ document = [n \in B!NameSet |-> B!NoDocument]
      /\ became = [n \in B!NameSet |-> B!Absent] /\ seeder = [s \in Instances |-> B!Down]
      /\ torn = {} /\ seedBoots = 0 /\ seedCuts = 0
  BY DEF B!Init
<1>2. B!Down \in Seeder /\ B!Down.at = "down"
  BY DEF SeedBounds, B!Down, Seeder, SeederRecord, SeederAts, SeederKnows, ReconcilesAt, PrunesAt
<1>3. B!NoDocument \in SeedDocument /\ B!NoDocument.status = "none"
  <2>1. "" \in STRING \cup {""} /\ 0 \in Nat /\ Nothing \in Nat \cup {Nothing}
    OBVIOUS
  <2>2. B!NoDocument = [status |-> "none", type |-> "", body |-> Nothing, labels |-> 0]
    BY DEF B!NoDocument
  <2> QED
    BY <2>1, <2>2 DEF SeedDocument
<1>4. SeedTyped
  BY <1>1, <1>2, <1>3 DEF SeedBounds, SeedTyped
<1>5. ASSUME NEW n \in B!NameSet PROVE NameInv(n)
  <2>1. \A q \in Instances : ~ WorksAt(seeder[q], n)
    BY <1>1, <1>2 DEF WorksAt, ReconcilesAt, PrunesAt
  <2>2. Rested(n) /\ document[n].status = "none"
    BY <1>1, <1>3 DEF Rested
  <2> QED
    BY <2>1, <2>2 DEF NameInv
<1> QED
  BY <1>4, <1>5 DEF SeedInv

LEMMA SeedStep ==
    ASSUME SeedBounds, SeedInv, [B!Next]_B!seedVars PROVE SeedInv'
<1>1. CASE UNCHANGED B!seedVars
  <2>1. /\ UNCHANGED <<registry, document, seeder, became, torn>> /\ UNCHANGED <<seedBoots, seedCuts>>
    BY <1>1 DEF B!seedVars
  <2>2. SeedTyped'
    BY <2>1 DEF SeedInv, SeedTyped
  <2>3. \A n \in B!NameSet : NameInv(n)'
    BY <2>1, NameStays DEF SeedInv
  <2> QED
    BY <2>2, <2>3 DEF SeedInv
<1>2. ASSUME NEW s \in Instances, B!Start(s) \/ B!Cut(s) PROVE SeedInv'
  BY <1>2, SeedBootSteps
<1>3. ASSUME NEW s \in Instances, B!Pass(s) PROVE SeedInv'
  BY <1>3, PassSteps
<1>4. ASSUME NEW s \in Instances, B!Differ(s) PROVE SeedInv'
  BY <1>4, DifferSteps
<1>5. ASSUME NEW s \in Instances, B!Register(s) PROVE SeedInv'
  BY <1>5, RegisterSteps
<1>6. ASSUME NEW s \in Instances, B!Mirror(s) PROVE SeedInv'
  BY <1>6, MirrorSteps
<1>7. ASSUME NEW s \in Instances, B!Label(s) PROVE SeedInv'
  BY <1>7, LabelSteps
<1>8. ASSUME NEW s \in Instances, B!List(s) PROVE SeedInv'
  BY <1>8, ListSteps
<1>9. ASSUME NEW s \in Instances, B!Delete(s) PROVE SeedInv'
  BY <1>9, DeleteSteps
<1>10. ASSUME NEW s \in Instances, B!Unregister(s) PROVE SeedInv'
  BY <1>10, UnregisterSteps
<1> QED
  BY <1>1, <1>2, <1>3, <1>4, <1>5, <1>6, <1>7, <1>8, <1>9, <1>10 DEF B!Next

\* The document of an artifact tells what the last start that went through it holds of it, but
\* where a start was cut off or two met, and a start dies by itself only at an artifact whose type
\* the releases disagree on (cmd/satellites-server/main.go, internal/document/system_seed.go).
THEOREM DocumentsMirror ==
    SeedBounds => (B!Spec => [](B!TypeOK /\ B!Mirrors /\ B!DiesOnlyIf))
<1> SUFFICES ASSUME SeedBounds PROVE B!Spec => [](B!TypeOK /\ B!Mirrors /\ B!DiesOnlyIf)
  OBVIOUS
<1>1. B!Init => SeedInv
  BY SeedInit
<1>2. SeedInv /\ [B!Next]_B!seedVars => SeedInv'
  BY SeedStep
<1>3. SeedInv => B!TypeOK /\ B!Mirrors /\ B!DiesOnlyIf
  <2> SUFFICES ASSUME SeedInv PROVE B!TypeOK /\ B!Mirrors /\ B!DiesOnlyIf
    OBVIOUS
  <2>1. B!TypeOK
    <3>1. \A n \in B!NameSet : document[n].status \in {"none", "active", "deleted"}
      BY DEF SeedInv, SeedTyped, SeedDocument
    <3>2. \A s \in Instances : seeder[s].n \in 0..Len(Artifacts) + 1 /\ seeder[s].gone \subseteq B!NameSet
      BY DEF SeedInv, SeedTyped, Seeder, SeederRecord
    <3> QED
      BY <3>1, <3>2 DEF SeedInv, SeedTyped, B!TypeOK
  <2>2. B!Mirrors
    <3>1. ASSUME NEW n \in B!NameSet, n \notin torn, \A s \in Instances : ~ B!Works(s, n)
          PROVE  IF became[n] = B!Absent THEN document[n].status # "active"
                 ELSE /\ document[n].status = "active" /\ document[n].body = became[n].body
                      /\ became[n].labels # 0 => document[n].labels = became[n].labels
      <4>1. \A s \in Instances : ~ WorksAt(seeder[s], n)
        BY <3>1, WorksIs
      <4> QED
        BY <3>1, <4>1 DEF SeedInv, NameInv, Rested
    <3> QED
      BY <3>1 DEF B!Mirrors
  <2>3. B!DiesOnlyIf
    <3>1. ASSUME NEW s \in Instances, seeder[s].at = "dead"
          PROVE  /\ seeder[s].n <= Len(Artifacts)
                 /\ \E r \in Releases : B!Kept(r, B!Name(s)) /\ r[B!Name(s)].type # B!File(s).type
      <4>1. PICK k \in Seeder : k = seeder[s]
        BY DEF SeedInv, SeedTyped
      <4>2. /\ k.n \in DOMAIN Artifacts
            /\ \E r \in Releases :
                  B!Kept(r, Artifacts[k.n]) /\ r[Artifacts[k.n]].type # k.release[Artifacts[k.n]].type
        BY <3>1, <4>1 DEF Seeder, SeederKnows
      <4>3. k.n <= Len(Artifacts)
        BY <4>2 DEF SeedBounds
      <4> QED
        BY <4>1, <4>2, <4>3 DEF B!Name, B!File
    <3> QED
      BY <3>1 DEF B!DiesOnlyIf
  <2> QED
    BY <2>1, <2>2, <2>3
<1> QED
  BY <1>1, <1>2, <1>3, PTL DEF B!Spec

\* An artifact that every release has is not lost once it is there, if some cannot read it.
LEMMA NeverLostStep ==
    ASSUME SeedBounds, SeedInv, [B!Next]_B!seedVars, NEW n \in B!NameSet,
           document[n].status = "active", document'[n].status # "active"
    PROVE  \E r \in Releases : r[n] \in Unkept
<1>1. document' # document
  OBVIOUS
<1>2. PICK s \in Instances : B!Mirror(s) \/ B!Label(s) \/ B!Delete(s)
  BY <1>1 DEF B!Next, B!seedVars, B!Start, B!Cut, B!Pass, B!Differ, B!Register, B!List, B!Unregister
<1>3. document \in [B!NameSet -> SeedDocument]
  BY DEF SeedInv, SeedTyped
<1>4. CASE B!Mirror(s)
  <2>1. PICK d \in SeedDocument : d = document[n]
    BY <1>3
  <2>2. document' = [document EXCEPT ![B!Name(s)] = [@ EXCEPT !.status = "active", !.type = B!File(s).type,
                                                              !.body = B!File(s).body]]
    BY <1>1, <1>4 DEF B!Mirror
  <2>3. n # B!Name(s) => document'[n] = d
    BY <1>3, <2>1, <2>2
  <2>4. n = B!Name(s) => document'[n] = [d EXCEPT !.status = "active", !.type = B!File(s).type, !.body = B!File(s).body]
    BY <1>3, <2>1, <2>2
  <2>5. document'[n].status = "active"
    BY <2>1, <2>3, <2>4 DEF SeedDocument
  <2> QED
    BY <2>5
<1>5. CASE B!Label(s)
  <2>1. PICK d \in SeedDocument : d = document[n]
    BY <1>3
  <2>2. document' = [document EXCEPT ![B!Name(s)].labels = B!File(s).labels]
    BY <1>1, <1>5 DEF B!Label
  <2>3. n # B!Name(s) => document'[n] = d
    BY <1>3, <2>1, <2>2
  <2>4. n = B!Name(s) => document'[n] = [d EXCEPT !.labels = B!File(s).labels]
    BY <1>3, <2>1, <2>2
  <2>5. document'[n].status = "active"
    BY <2>1, <2>3, <2>4 DEF SeedDocument
  <2> QED
    BY <2>5
<1>6. CASE B!Delete(s)
  <2>1. PICK old \in Seeder, x \in B!NameSet :
            /\ old = seeder[s] /\ x = B!First(old.gone) /\ x \in old.gone
            /\ old.release \in Releases /\ \A m \in old.gone : m \in B!NameSet /\ old.release[m] \in Unkept
            /\ \A m : WorksAt(old, m) <=> m = x
    BY <1>6, PruneIs DEF B!Delete, PrunesAt
  <2>2. document' = [document EXCEPT ![x].status = "deleted", ![x].body = Nothing]
    BY <1>1, <1>6, <2>1 DEF B!Delete
  <2>3. n = x
    BY <1>3, <2>2
  <2> QED
    BY <2>1, <2>3
<1> QED
  BY <1>2, <1>4, <1>5, <1>6

THEOREM ArtifactsStay == SeedBounds => (B!Spec => B!NeverLost)
<1> SUFFICES ASSUME SeedBounds PROVE B!Spec => B!NeverLost
  OBVIOUS
<1>1. B!Init => SeedInv
  BY SeedInit
<1>2. SeedInv /\ [B!Next]_B!seedVars => SeedInv'
  BY SeedStep
<1>3. SeedInv /\ [B!Next]_B!seedVars =>
        [\A n \in B!NameSet :
            document[n].status = "active" /\ document'[n].status # "active" =>
                \E r \in Releases : r[n] \in {B!Absent, B!ClientHomed}]_B!seedVars
  BY NeverLostStep DEF Unkept
<1> QED
  BY <1>1, <1>2, <1>3, PTL DEF B!Spec, B!NeverLost

------------------------------------------------------------------------------
\* Where each part of the run is, the component takes its steps; elsewhere it stays as it is.
LEMMA PartsStep ==
    ASSUME [MCNext]_allVars
    PROVE  /\ [O!Next]_O!oauthVars /\ [I!Next]_I!signInVars /\ [K!Next]_K!keysVars
           /\ [B!Next]_B!seedVars /\ [P!Next]_P!provisionVars
<1> USE DEF O!oauthVars, I!signInVars, K!keysVars, B!seedVars, P!provisionVars,
            serverVars, oauthVars, signInVars, keysVars, seedVars, provisionVars
<1>1. CASE UNCHANGED allVars
  BY <1>1 DEF allVars
<1>2. CASE OAuthNext
  BY <1>2 DEF OAuthNext
<1>3. CASE SignInNext
  BY <1>3 DEF SignInNext
<1>4. CASE KeysNext
  BY <1>4 DEF KeysNext
<1>5. CASE SeedNext
  BY <1>5 DEF SeedNext
<1>8. CASE ProvisionNext
  BY <1>8 DEF ProvisionNext
<1>6. ASSUME UNCHANGED serverVars
      PROVE  /\ [O!Next]_O!oauthVars /\ [I!Next]_I!signInVars /\ [K!Next]_K!keysVars
             /\ [B!Next]_B!seedVars /\ [P!Next]_P!provisionVars
  BY <1>6
<1>7. CASE GateNext \/ BinaryNext \/ ScaffoldNext \/ IndexNext \/ DoorsNext \/ TasksNext \/ ClearNext
  BY <1>6, <1>7 DEF GateNext, BinaryNext, ScaffoldNext, IndexNext, DoorsNext, TasksNext, ClearNext
<1> QED
  BY <1>1, <1>2, <1>3, <1>4, <1>5, <1>7, <1>8 DEF MCNext

SignedInBounds ==
    /\ GrantBounds
    /\ SignIns \in Nat /\ SignInFails \in Nat /\ NoOne \notin Identities
    /\ Mints \in Nat /\ Revokes \in Nat /\ KeyFails \in Nat /\ DevServers \subseteq Servers

\* Whoever is signed in was signed in rightly: the grants of clients, the accounts of people and
\* the keys of commands are sound in the run that composes the deployment.
THEOREM SignedInIsSound == SignedInBounds => (MCSpec => []SignedIn)
<1> SUFFICES ASSUME SignedInBounds PROVE MCSpec => []SignedIn
  OBVIOUS
<1>1. MCInit => O!Init /\ I!Init /\ K!Init
  BY DEF MCInit
<1>2. [MCNext]_allVars => [O!Next]_O!oauthVars /\ [I!Next]_I!signInVars /\ [K!Next]_K!keysVars
  BY PartsStep
<1>3. MCSpec => O!Spec /\ I!Spec /\ K!Spec
  BY <1>1, <1>2, PTL DEF MCSpec, O!Spec, I!Spec, K!Spec
<1>4. O!Spec => [](O!TypeOK /\ O!GrantsSound)
  BY GrantsAreTyped, GrantsAreSound, PTL DEF SignedInBounds
<1>5. I!Spec => [](I!TypeOK /\ I!AccountsApart /\ I!Provisioned)
  BY AccountsAreSound DEF SignedInBounds
<1>6. K!Spec => [](K!TypeOK /\ K!KeysWork /\ K!SavedIsPresented)
  BY KeysAreSound DEF SignedInBounds
<1>7. /\ O!TypeOK /\ O!GrantsSound
      /\ I!TypeOK /\ I!AccountsApart /\ I!Provisioned
      /\ K!TypeOK /\ K!KeysWork /\ K!SavedIsPresented
      => SignedIn
  BY DEF SignedIn
<1> QED
  BY <1>3, <1>4, <1>5, <1>6, <1>7, PTL

StartsBounds == SeedBounds /\ ProvisionBounds

\* What a start of the server makes of its artifacts and of its variables is sound in the run
\* that composes the deployment.
THEOREM StartsAreSound == StartsBounds => (MCSpec => []StartsSound)
<1> SUFFICES ASSUME StartsBounds PROVE MCSpec => []StartsSound
  OBVIOUS
<1>1. MCInit => B!Init /\ P!Init
  BY DEF MCInit
<1>2. [MCNext]_allVars => [B!Next]_B!seedVars /\ [P!Next]_P!provisionVars
  BY PartsStep
<1>3. MCSpec => B!Spec /\ P!Spec
  BY <1>1, <1>2, PTL DEF MCSpec, B!Spec, P!Spec
<1>4. B!Spec => [](B!TypeOK /\ B!Mirrors /\ B!DiesOnlyIf)
  BY DocumentsMirror DEF StartsBounds
<1>5. P!Spec => [](P!TypeOK /\ P!DiesOnlyIf /\ P!OperatorStands /\ P!LoginOpens /\ P!OneSecret)
  BY StartsProvide DEF StartsBounds
<1>6. /\ B!TypeOK /\ B!Mirrors /\ B!DiesOnlyIf
      /\ P!TypeOK /\ P!DiesOnlyIf /\ P!OperatorStands /\ P!LoginOpens /\ P!OneSecret
      => StartsSound
  BY DEF StartsSound
<1> QED
  BY <1>3, <1>4, <1>5, <1>6, PTL
=============================================================================
