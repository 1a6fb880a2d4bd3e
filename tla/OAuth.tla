-------------------------------- MODULE OAuth --------------------------------
(***************************************************************************)
(* The authorisation of one OAuth client (internal/auth/oauth_server.go    *)
(* and oauth_store_postgres.go): its registration, the sessions that wait  *)
(* for a login, the codes they end in, and the chain of refresh tokens     *)
(* that starts with each code.  A request is several statements that no    *)
(* transaction holds together, and most failures are ignored.              *)
(***************************************************************************)
EXTENDS Naturals, Sequences, FiniteSets

CONSTANTS
    Uris,           \* where the client may ask to be redirected
    NoUri,
    Requests,       \* requests under way at once
    MaxRequests,    \* no more requests than this come
    MaxFaults       \* no more statements fail, and requests are cut off, than this

VARIABLES
    client,     \* the redirect addresses of the client's row; {}: there is none
    session,    \* the sessions so far: [uri, open]
    code,       \* the codes so far: the session each ends, used, expired
    token,      \* the refresh tokens so far: the code and the token each follows, live
    req,        \* the requests
    registered, \* history: the addresses the client was first registered with
    presented,  \* history: tokens that were presented
    excused,    \* history: promises that a failure or an overlap left out
    came, faults

oauthVars == <<client, session, code, token, req, registered, presented, excused, came, faults>>

Idle == [at |-> "idle", id |-> 0, uri |-> NoUri]

Init ==
    /\ client \in {{u} : u \in Uris} \cup {{}}
    /\ registered = client
    /\ session = <<>> /\ code = <<>> /\ token = <<>>
    /\ req = [q \in Requests |-> Idle]
    /\ presented = {} /\ excused = {} /\ came = 0 /\ faults = 0

Set(q, r) == req' = [req EXCEPT ![q] = r]
Go(q, at) == Set(q, [req[q] EXCEPT !.at = at])
Done(q) == Set(q, Idle)
Come == came < MaxRequests /\ came' = came + 1
Faulty == faults < MaxFaults /\ faults' = faults + 1
Excuse(why) == excused' = excused \cup {why}
Others(q, ats, id) == \E r \in Requests \ {q} : req[r].at \in ats /\ req[r].id = id

-----------------------------------------------------------------------------
\* HandleAuthorize with an address: the client, then the session.
Authorize(q) ==
    /\ req[q].at = "idle" /\ Come
    /\ \E u \in Uris : Set(q, [Idle EXCEPT !.at = "client", !.uri = u])
    /\ UNCHANGED <<client, session, code, token, registered, presented, excused, faults>>

\* GetClient.
Known(uri) == client # {}

\* A client that is not known is registered on the way; a read that fails is taken for that.
GetClient(q) ==
    /\ req[q].at = "client"
    /\ \/ Known(req[q].uri) /\ UNCHANGED <<excused, faults>>
             /\ IF req[q].uri \in client THEN Go(q, "session") ELSE Done(q)
       \/ ~ Known(req[q].uri) /\ Go(q, "register") /\ UNCHANGED <<excused, faults>>
       \/ Faulty /\ Go(q, "register") /\ Excuse(<<"client", 0>>)
    /\ UNCHANGED <<client, session, code, token, registered, presented, came>>

\* SaveClient replaces the row of a client that is registered by now.
SaveClient(q) ==
    /\ req[q].at = "register"
    /\ client' = {req[q].uri}
    /\ registered' = IF registered = {} THEN client' ELSE registered
    /\ excused' = IF \E r \in Requests \ {q} : req[r].at = "register" THEN excused \cup {<<"client", 0>>} ELSE excused
    /\ Go(q, "session")
    /\ UNCHANGED <<session, code, token, presented, came, faults>>

\* SaveSession; a caller who is logged in goes on at once, and another comes back from the
\* login page.
SaveSession(q) ==
    /\ req[q].at = "session"
    /\ session' = Append(session, [uri |-> req[q].uri, open |-> TRUE])
    /\ \/ Set(q, [Idle EXCEPT !.at = "look", !.id = Len(session) + 1])
       \/ Done(q)
    /\ UNCHANGED <<client, code, token, registered, presented, excused, came, faults>>

\* A login with the cookie of a session, or HandleAuthorize without an address, which takes
\* the newest session of the client.
Login(q) ==
    /\ req[q].at = "idle" /\ Come
    /\ \E s \in DOMAIN session : Set(q, [Idle EXCEPT !.at = "look", !.id = s])
    /\ UNCHANGED <<client, session, code, token, registered, presented, excused, faults>>

\* CompleteAuthorization: GetSession, SaveCode, and DeleteSession, whose error is ignored.
GetSession(q) ==
    /\ req[q].at = "look"
    /\ IF session[req[q].id].open THEN Go(q, "code") ELSE Done(q)
    /\ UNCHANGED <<client, session, code, token, registered, presented, excused, came, faults>>
SaveCode(q) ==
    /\ req[q].at = "code"
    /\ code' = Append(code, [session |-> req[q].id, used |-> FALSE, expired |-> FALSE])
    /\ excused' = IF Others(q, {"code", "close"}, req[q].id) \/ ~ session[req[q].id].open
                  THEN excused \cup {<<"session", req[q].id>>} ELSE excused
    /\ Go(q, "close")
    /\ UNCHANGED <<client, session, token, registered, presented, came, faults>>

\* The row of a session is removed with its first code.
SessionClosed(s) == [session EXCEPT ![s].open = FALSE]

DeleteSession(q) ==
    /\ req[q].at = "close"
    /\ \/ session' = SessionClosed(req[q].id) /\ UNCHANGED <<excused, faults>>
       \/ Faulty /\ Excuse(<<"session", req[q].id>>) /\ UNCHANGED session
    /\ Done(q)
    /\ UNCHANGED <<client, code, token, registered, presented, came>>

-----------------------------------------------------------------------------
\* handleAuthCodeGrant: GetCode.
Grant(q) ==
    /\ req[q].at = "idle" /\ Come
    /\ \E c \in DOMAIN code : ~ code[c].used /\ ~ code[c].expired /\ Set(q, [Idle EXCEPT !.at = "mark", !.id = c])
    /\ UNCHANGED <<client, session, code, token, registered, presented, excused, faults>>

\* Mutant: the code was found not used when it was read.
FreshAsRead(c) == TRUE

\* The UPDATE asks again whether the code is used.
Fresh(c) == ~ code[c].used

MarkCodeUsed(q) ==
    /\ req[q].at = "mark"
    /\ IF Fresh(req[q].id)
       THEN code' = [code EXCEPT ![req[q].id].used = TRUE] /\ Go(q, "mint")
       ELSE Done(q) /\ UNCHANGED code
    /\ UNCHANGED <<client, session, token, registered, presented, excused, came, faults>>

\* SaveRefreshToken, whose error is ignored: the client is told a token that is not there.
Saves(q, c, after) ==
    /\ \/ token' = Append(token, [code |-> c, after |-> after, live |-> TRUE]) /\ UNCHANGED <<excused, faults>>
       \/ /\ Faulty /\ Excuse(<<"token", Len(token) + 1>>)
          /\ token' = Append(token, [code |-> c, after |-> after, live |-> FALSE])
    /\ Done(q)

SaveFirst(q) ==
    /\ req[q].at = "mint"
    /\ Saves(q, req[q].id, 0)
    /\ UNCHANGED <<client, session, code, registered, presented, came>>

\* handleRefreshTokenGrant: GetRefreshToken, DeleteRefreshToken, SaveRefreshToken.
Refresh(q) ==
    /\ req[q].at = "idle" /\ Come
    /\ \E t \in DOMAIN token :
          /\ token[t].live
          /\ Set(q, [Idle EXCEPT !.at = "drop", !.id = t])
          /\ presented' = presented \cup {t}
    /\ UNCHANGED <<client, session, code, token, registered, excused, faults>>

\* DELETE, of a row that may be gone by now.
TokenDropped(t) == [token EXCEPT ![t].live = FALSE]

DeleteToken(q) ==
    LET t == req[q].id
    IN  /\ req[q].at = "drop"
        /\ \/ token' = TokenDropped(t) /\ UNCHANGED faults
              /\ excused' = IF Others(q, {"drop", "save"}, t) \/ ~ token[t].live
                            THEN excused \cup {<<"chain", token[t].code>>} ELSE excused
           \/ Faulty /\ Excuse(<<"chain", token[t].code>>) /\ UNCHANGED token
        /\ Go(q, "save")
        /\ UNCHANGED <<client, session, code, registered, presented, came>>
SaveNext(q) ==
    /\ req[q].at = "save"
    /\ Saves(q, token[req[q].id].code, req[q].id)
    /\ UNCHANGED <<client, session, code, registered, presented, came>>

\* A code or a token expires.
Expire ==
    /\ \/ \E c \in DOMAIN code : ~ code[c].expired /\ code' = [code EXCEPT ![c].expired = TRUE] /\ UNCHANGED <<token, excused>>
       \/ \E t \in DOMAIN token : token[t].live /\ token' = [token EXCEPT ![t].live = FALSE] /\ Excuse(<<"token", t>>) /\ UNCHANGED code
    /\ Faulty
    /\ UNCHANGED <<client, session, req, registered, presented, came>>

\* A request is cut off: a statement that is not ignored fails, or the caller goes away.
CutOff(q) ==
    /\ req[q].at # "idle" /\ Faulty
    /\ excused' = IF req[q].at = "close" THEN excused \cup {<<"session", req[q].id>>} ELSE excused
    /\ Done(q)
    /\ UNCHANGED <<client, session, code, token, registered, presented, came>>

Next ==
    \/ \E q \in Requests :
          \/ Authorize(q) \/ GetClient(q) \/ SaveClient(q) \/ SaveSession(q)
          \/ Login(q) \/ GetSession(q) \/ SaveCode(q) \/ DeleteSession(q)
          \/ Grant(q) \/ MarkCodeUsed(q) \/ SaveFirst(q)
          \/ Refresh(q) \/ DeleteToken(q) \/ SaveNext(q) \/ CutOff(q)
    \/ Expire

Spec == Init /\ [][Next]_oauthVars

-----------------------------------------------------------------------------
TypeOK ==
    /\ client \subseteq Uris
    /\ \A s \in DOMAIN session : session[s].uri \in Uris
    /\ \A c \in DOMAIN code : code[c].session \in DOMAIN session
    /\ \A t \in DOMAIN token : token[t].code \in DOMAIN code /\ token[t].after \in 0..(t - 1)
    /\ \A q \in Requests :
          req[q].at \in {"idle", "client", "register", "session", "look", "code", "close", "mark", "mint", "drop", "save"}
    /\ came \in 0..MaxRequests /\ faults \in 0..MaxFaults

\* A code starts one chain of tokens, whoever redeems it at once.
CodeOnce == \A c \in DOMAIN code : Cardinality({t \in DOMAIN token : token[t].code = c /\ token[t].after = 0}) <= 1

\* A login ends in one code, unless two met at the session or its row could not be removed.
SessionOnce ==
    \A s \in DOMAIN session :
        Cardinality({c \in DOMAIN code : code[c].session = s}) <= 1 \/ <<"session", s>> \in excused

\* A chain has one live token, unless a token was presented twice at once or outlived its use.
ChainLinear ==
    \A c \in DOMAIN code :
        Cardinality({t \in DOMAIN token : token[t].code = c /\ token[t].live}) <= 1 \/ <<"chain", c>> \in excused

\* A token the client was told, and has not presented, is good, unless its row was not saved
\* or it expired.
ToldTokensGood ==
    \A t \in DOMAIN token : token[t].live \/ t \in presented \/ <<"token", t>> \in excused

\* A registration is not replaced, unless it could not be read or two requests registered the
\* client at once.
RegistrationStays == client = registered \/ <<"client", 0>> \in excused

\* What the grants promise: one code per login, one chain per code, one live token per chain.
GrantsSound == CodeOnce /\ SessionOnce /\ ChainLinear /\ ToldTokensGood /\ RegistrationStays
==============================================================================
