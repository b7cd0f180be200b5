---------------------------- MODULE WebAppProofs ----------------------------
(***************************************************************************)
(* Proofs about LoginFlow and WebApp, for any number of browsers, logins,  *)
(* codes and callback requests and any redirect URIs.                      *)
(***************************************************************************)
EXTENDS WebApp, TLAPS

RequestRecord == [phase: Phases, browser: Browsers \cup {None},
                  cookie: Logins \cup {None}, clears: BOOLEAN, url: Callback]

LEMMA Distinct ==
  /\ \A b \in Browsers : b # None
  /\ \A l \in Logins : l # None
  /\ \A c \in Codes : c # None
  /\ \A r \in Requests : r # None
  BY NoneAssumption, BoundsAssumption DEF Logins, Codes, Requests

-----------------------------------------------------------------------------
(* Sign-in: what cookies, addresses, requests and sessions have in common. *)

(* A pending login lies only in the jar of the browser that began it. *)
CookieInv == \A b \in Browsers : cookie[b] # None => login[cookie[b]] = b

(* A callback request carries the cookie of its browser's jar, and the state *)
(* of a login that was begun, if any.                                        *)
CarriedInv ==
  \A r \in Requests :
    /\ req[r].phase # "unused" => req[r].browser \in Browsers
    /\ req[r].cookie # None => /\ req[r].browser \in Browsers
                               /\ login[req[r].cookie] = req[r].browser
    /\ req[r].url.state # None => login[req[r].url.state] # None

(* The state a callback came with is that of a login its browser began. *)
OwnState(q, began) == q.url.state # None /\ began[q.url.state] = q.browser

(* A request that reached the exchange passed the state check. *)
ExchangeInv ==
  \A r \in Requests : req[r].phase = "exchanging" =>
    /\ req[r].url.code # None
    /\ req[r].cookie # None /\ req[r].url.state = req[r].cookie

(* A session was issued for the code of its request, which is spent and      *)
(* answers the login in the request's cookie.                                *)
SessionInv ==
  \A r \in Requests : session[r] # None =>
    /\ req[r].phase \in {"issued", "failed", "done"}
    /\ session[r] \notin live
    /\ req[r].cookie # None /\ code[session[r]] = req[r].cookie

LoginInv ==
  /\ LoginTypeOK /\ CookieInv /\ CarriedInv /\ ExchangeInv /\ SessionInv
  /\ OneSessionPerCode /\ CodesSpentOnOwnState

LEMMA LoginInvInit == LoginInit => LoginInv
  <1> SUFFICES ASSUME LoginInit PROVE LoginInv OBVIOUS
  <1>1. Idle \in RequestRecord BY DEF Idle, RequestRecord, Phases, Callback
  <1>2. LoginTypeOK BY <1>1 DEF LoginInit, LoginTypeOK, RequestRecord
  <1>3. CookieInv BY DEF LoginInit, CookieInv
  <1>4. CarriedInv /\ ExchangeInv BY DEF LoginInit, CarriedInv, ExchangeInv, Idle
  <1>5. SessionInv /\ OneSessionPerCode BY DEF LoginInit, SessionInv, OneSessionPerCode
  <1>6. CodesSpentOnOwnState BY DEF LoginInit, CodesSpentOnOwnState
  <1> QED BY <1>2, <1>3, <1>4, <1>5, <1>6 DEF LoginInv

(* The parts of the type, with what a request is. *)
LEMMA LoginTypes ==
  ASSUME LoginTypeOK
  PROVE  /\ req \in [Requests -> RequestRecord]
         /\ \A r \in Requests :
              /\ req[r].phase \in Phases /\ req[r].cookie \in Logins \cup {None}
              /\ req[r].browser \in Browsers \cup {None}
              /\ req[r].url.code \in Codes \cup {None}
              /\ req[r].url.state \in Logins \cup {None}
  BY DEF LoginTypeOK, RequestRecord, Callback

LEMMA BeginKeepsLoginInv ==
  ASSUME LoginInv, NEW b \in Browsers, NEW l \in Logins, BeginLogin(b, l)
  PROVE  LoginInv'
  <1>0. /\ LoginTypeOK /\ login[l] = None
        /\ \A k \in Logins : login'[k] = IF k = l THEN b ELSE login[k]
        /\ \A d \in Browsers : cookie'[d] = IF d = b THEN l ELSE cookie[d]
        /\ UNCHANGED <<stale, code, live, req, session>>
    BY DEF BeginLogin, Put, LoginInv, LoginTypeOK
  <1>1. LoginTypeOK' BY <1>0 DEF BeginLogin, Put, LoginTypeOK
  <1>2. CookieInv' BY <1>0, Distinct DEF LoginInv, CookieInv, LoginTypeOK
  <1>3. CarriedInv'
    BY <1>0, Distinct, LoginTypes DEF LoginInv, CarriedInv, RequestRecord
  <1>4. ExchangeInv' /\ SessionInv' /\ OneSessionPerCode'
    BY <1>0 DEF LoginInv, ExchangeInv, SessionInv, OneSessionPerCode
  <1>5. CodesSpentOnOwnState'
    <2> SUFFICES ASSUME NEW c \in Codes, code[c] # None, c \notin live
                 PROVE  \E r \in Requests :
                          /\ req[r].url.code = c /\ OwnState(req[r], login')
                          /\ req[r].phase \in {"issued", "failed", "done"}
      BY <1>0 DEF CodesSpentOnOwnState, OwnState
    <2>1. PICK r \in Requests : /\ req[r].url.code = c /\ OwnState(req[r], login)
                                /\ req[r].phase \in {"issued", "failed", "done"}
      BY DEF LoginInv, CodesSpentOnOwnState, OwnState
    <2>2. req[r].url.state \in Logins /\ req[r].url.state # l
      BY <1>0, <2>1, LoginTypes DEF LoginInv, CarriedInv, OwnState
    <2> QED BY <1>0, <2>1, <2>2 DEF OwnState
  <1> QED BY <1>1, <1>2, <1>3, <1>4, <1>5 DEF LoginInv

LEMMA AuthorizeKeepsLoginInv ==
  ASSUME LoginInv, NEW l \in Logins, NEW c \in Codes, browserAuthorize(l, c)
  PROVE  LoginInv'
  <1>0. /\ LoginTypeOK /\ code[c] = None /\ login[l] # None
        /\ \A d \in Codes : code'[d] = IF d = c THEN l ELSE code[d]
        /\ live' = live \cup {c}
        /\ UNCHANGED <<login, stale, cookie, req, session>>
    BY DEF browserAuthorize, LoginInv, LoginTypeOK
  <1>1. LoginTypeOK' BY <1>0 DEF browserAuthorize, LoginTypeOK
  <1>2. CookieInv' /\ ExchangeInv' /\ OneSessionPerCode'
    BY <1>0 DEF LoginInv, CookieInv, ExchangeInv, OneSessionPerCode
  <1>3. CarriedInv' BY <1>0, LoginTypes, Distinct DEF LoginInv, CarriedInv
  <1>4. SessionInv' BY <1>0, Distinct DEF LoginInv, SessionInv, LoginTypeOK
  <1>5. CodesSpentOnOwnState' BY <1>0 DEF LoginInv, CodesSpentOnOwnState
  <1> QED BY <1>1, <1>2, <1>3, <1>4, <1>5 DEF LoginInv

(* An address carries the state of a login that was begun, or none. *)
LEMMA AddressFacts ==
  ASSUME LoginTypeOK, NEW url \in Addresses
  PROVE  url \in Callback /\ (url.state # None => login[url.state] # None)
  <1>1. CASE url \in [error: {FALSE}, code: {c \in Codes : code[c] # None} \cup {None},
                      state: {l \in Logins : login[l] # None} \cup {None}]
    BY <1>1 DEF Callback, LoginTypeOK
  <1>2. CASE url = [error |-> TRUE, code |-> None, state |-> None]
    BY <1>2 DEF Callback
  <1> QED BY <1>1, <1>2 DEF Addresses

LEMMA VisitKeepsLoginInv ==
  ASSUME LoginInv, NEW b \in Browsers, NEW r \in Requests, NEW url \in Addresses,
         VisitCallback(b, r, url)
  PROVE  LoginInv'
  <1> DEFINE new == [phase |-> "arrived", browser |-> b, cookie |-> cookie[b],
                     clears |-> FALSE, url |-> url]
  <1>0. /\ LoginTypeOK /\ req[r].phase = "unused" /\ req' = [req EXCEPT ![r] = new]
        /\ UNCHANGED <<login, stale, cookie, code, live, session>>
    BY DEF VisitCallback, LoginInv
  <1>1. new \in RequestRecord
    BY <1>0, AddressFacts DEF RequestRecord, Phases, LoginTypeOK
  <1>2. /\ req'[r].phase = "arrived" /\ req'[r].browser = b /\ req'[r].cookie = cookie[b]
        /\ req'[r].url = url
        /\ \A s \in Requests : s # r => req'[s] = req[s]
    BY <1>0, LoginTypes
  <1>3. LoginTypeOK' BY <1>0, <1>1 DEF LoginTypeOK, RequestRecord
  <1> HIDE DEF new
  <1>4. CookieInv' /\ OneSessionPerCode'
    BY <1>0 DEF LoginInv, CookieInv, OneSessionPerCode
  <1>a. UNCHANGED <<login, cookie, code, live, session>> BY <1>0
  <1>5. CarriedInv' BY <1>0, <1>a, <1>2, AddressFacts DEF LoginInv, CarriedInv, CookieInv
  <1>6. ExchangeInv' BY <1>2 DEF LoginInv, ExchangeInv
  <1>7. SessionInv' BY <1>0, <1>2, <1>a DEF LoginInv, SessionInv
  <1>8. CodesSpentOnOwnState'
    <2> SUFFICES ASSUME NEW c \in Codes, code[c] # None, c \notin live
                 PROVE  \E s \in Requests :
                          /\ req'[s].url.code = c /\ OwnState(req'[s], login)
                          /\ req'[s].phase \in {"issued", "failed", "done"}
      BY <1>a DEF CodesSpentOnOwnState, OwnState
    <2>1. PICK s \in Requests : /\ req[s].url.code = c /\ OwnState(req[s], login)
                                /\ req[s].phase \in {"issued", "failed", "done"}
      BY DEF LoginInv, CodesSpentOnOwnState, OwnState
    <2>2. req'[s] = req[s] BY <1>0, <1>2, <2>1
    <2> QED BY <2>1, <2>2
  <1> QED BY <1>3, <1>4, <1>5, <1>6, <1>7, <1>8 DEF LoginInv

(* Time passes: a login ages, or the browser forgets its cookie. *)
LEMMA AgingKeepsLoginInv ==
  ASSUME LoginInv,
         \/ \E l \in Logins : LoginAges(l)
         \/ \E b \in Browsers : CookieExpires(b)
  PROVE  LoginInv'
  <1>1. LoginTypeOK /\ UNCHANGED <<login, code, live, req, session>>
    BY DEF LoginAges, CookieExpires, LoginInv
  <1>2. \A b \in Browsers : cookie'[b] = cookie[b] \/ cookie'[b] = None
    BY DEF LoginAges, CookieExpires, LoginInv, LoginTypeOK
  <1>3. LoginTypeOK' BY <1>1 DEF LoginAges, CookieExpires, LoginTypeOK
  <1>4. CookieInv' BY <1>1, <1>2 DEF LoginInv, CookieInv
  <1>5. CarriedInv' /\ ExchangeInv' /\ SessionInv' /\ OneSessionPerCode'
    BY <1>1 DEF LoginInv, CarriedInv, ExchangeInv, SessionInv, OneSessionPerCode
  <1>6. CodesSpentOnOwnState' BY <1>1 DEF LoginInv, CodesSpentOnOwnState
  <1> QED BY <1>3, <1>4, <1>5, <1>6 DEF LoginInv

(* What a step of the handler of request r leaves alone. *)
Moves(r, p) ==
  /\ req' \in [Requests -> RequestRecord]
  /\ req'[r].phase = p /\ req'[r].browser = req[r].browser
  /\ req'[r].cookie = req[r].cookie /\ req'[r].url = req[r].url
  /\ \A s \in Requests : s # r => req'[s] = req[s]

LEMMA CompleteMoves ==
  ASSUME LoginTypeOK, NEW r \in Requests, CompleteLogin(r)
  PROVE  Moves(r, IF Refused(r) THEN "failed" ELSE "exchanging")
  <1> DEFINE p == IF Refused(r) THEN "failed" ELSE "exchanging"
             q == ~req[r].url.error /\ req[r].cookie # None
  <1>1. p \in Phases /\ q \in BOOLEAN BY DEF Phases
  <1>2. req' = [req EXCEPT ![r].phase = p, ![r].clears = q] BY DEF CompleteLogin
  <1>3. req \in [Requests -> RequestRecord] BY LoginTypes
  <1> HIDE DEF p, q
  <1>4. Moves(r, p) BY <1>1, <1>2, <1>3 DEF Moves, RequestRecord
  <1> QED BY <1>4 DEF p

LEMMA PhaseMoves ==
  ASSUME LoginTypeOK, NEW r \in Requests, NEW p \in Phases,
         req' = [req EXCEPT ![r].phase = p]
  PROVE  Moves(r, p)
  BY LoginTypes DEF Moves, RequestRecord

(* A request that moves keeps what it carries; one that has not reached the  *)
(* end before has spent no code.                                             *)
LEMMA MovesKeep ==
  ASSUME LoginInv, NEW r \in Requests, NEW p \in Phases, Moves(r, p),
         UNCHANGED <<login, code>>, req[r].phase # "unused", p # "unused"
  PROVE  /\ CarriedInv'
         /\ (p = "exchanging" => ~Refused(r)) => ExchangeInv'
         /\ /\ UNCHANGED live
            /\ \/ req[r].phase \notin {"issued", "failed", "done"}
               \/ p \in {"issued", "failed", "done"}
            => CodesSpentOnOwnState'
         /\ UNCHANGED <<live, session>> /\ p \in {"issued", "failed", "done"} => SessionInv'
  <1>1. CarriedInv' BY DEF LoginInv, CarriedInv, Moves
  <1>2. ASSUME p = "exchanging" => ~Refused(r) PROVE ExchangeInv'
    BY <1>2 DEF LoginInv, ExchangeInv, Moves, Refused, Take
  <1>3. ASSUME UNCHANGED live,
               \/ req[r].phase \notin {"issued", "failed", "done"}
               \/ p \in {"issued", "failed", "done"}
        PROVE  CodesSpentOnOwnState'
    <2> SUFFICES ASSUME NEW c \in Codes, code[c] # None, c \notin live
                 PROVE  \E s \in Requests :
                          /\ req'[s].url.code = c /\ OwnState(req'[s], login)
                          /\ req'[s].phase \in {"issued", "failed", "done"}
      BY <1>3 DEF CodesSpentOnOwnState, OwnState
    <2>1. PICK s \in Requests : /\ req[s].url.code = c /\ OwnState(req[s], login)
                                /\ req[s].phase \in {"issued", "failed", "done"}
      BY DEF LoginInv, CodesSpentOnOwnState, OwnState
    <2>2. CASE s = r BY <1>3, <2>1, <2>2 DEF Moves, OwnState
    <2>3. CASE s # r BY <2>1, <2>3 DEF Moves
    <2> QED BY <2>2, <2>3
  <1>4. ASSUME UNCHANGED <<live, session>>, p \in {"issued", "failed", "done"}
        PROVE  SessionInv'
    BY <1>4 DEF LoginInv, SessionInv, Moves
  <1> QED BY <1>1, <1>2, <1>3, <1>4

LEMMA CompleteKeepsLoginInv ==
  ASSUME LoginInv, NEW r \in Requests, CompleteLogin(r)
  PROVE  LoginInv'
  <1> DEFINE p == IF Refused(r) THEN "failed" ELSE "exchanging"
  <1>1. LoginTypeOK /\ UNCHANGED <<login, stale, cookie, code, live, session>>
        /\ req[r].phase = "arrived"
    BY DEF CompleteLogin, LoginInv
  <1>2. Moves(r, p) /\ p \in Phases BY <1>1, CompleteMoves DEF Phases
  <1>3. (p = "exchanging" => ~Refused(r)) /\ p # "unused" OBVIOUS
  <1> HIDE DEF p
  <1>4. LoginTypeOK' BY <1>1, <1>2 DEF LoginTypeOK, Moves, RequestRecord
  <1>5. CookieInv' /\ OneSessionPerCode'
    BY <1>1 DEF LoginInv, CookieInv, OneSessionPerCode
  <1>6. CarriedInv' /\ ExchangeInv' /\ CodesSpentOnOwnState'
    BY <1>1, <1>2, <1>3, MovesKeep
  <1>7. SessionInv' BY <1>1, <1>2 DEF LoginInv, SessionInv, Moves
  <1> QED BY <1>4, <1>5, <1>6, <1>7 DEF LoginInv

LEMMA UnreachableKeepsLoginInv ==
  ASSUME LoginInv, NEW r \in Requests, ExchangeUnreachable(r)
  PROVE  LoginInv'
  <1>1. LoginTypeOK /\ UNCHANGED <<login, stale, cookie, code, live, session>>
        /\ req[r].phase = "exchanging"
    BY DEF ExchangeUnreachable, LoginInv
  <1>2. Moves(r, "failed") /\ "failed" \in Phases
    BY <1>1, PhaseMoves DEF Phases, ExchangeUnreachable
  <1>4. LoginTypeOK' BY <1>1, <1>2 DEF LoginTypeOK, Moves, RequestRecord
  <1>5. CookieInv' /\ OneSessionPerCode'
    BY <1>1 DEF LoginInv, CookieInv, OneSessionPerCode
  <1>6. CarriedInv' /\ ExchangeInv' /\ CodesSpentOnOwnState' /\ SessionInv'
    BY <1>1, <1>2, MovesKeep
  <1> QED BY <1>4, <1>5, <1>6 DEF LoginInv

LEMMA RespondKeepsLoginInv ==
  ASSUME LoginInv, NEW r \in Requests, Respond(r)
  PROVE  LoginInv'
  <1>1. LoginTypeOK /\ UNCHANGED <<login, stale, code, live, session>>
        /\ req[r].phase \in {"issued", "failed"}
    BY DEF Respond, LoginInv
  <1>2. Moves(r, "done") /\ "done" \in Phases
    BY <1>1, PhaseMoves DEF Phases, Respond
  <1>3. /\ \A b \in Browsers : cookie'[b] = cookie[b] \/ cookie'[b] = None
        /\ cookie' \in [Browsers -> Logins \cup {None}]
    BY <1>1 DEF Respond, LoginTypeOK
  <1>4. LoginTypeOK' BY <1>1, <1>2, <1>3 DEF LoginTypeOK, Moves, RequestRecord
  <1>5. CookieInv' /\ OneSessionPerCode'
    BY <1>1, <1>3 DEF LoginInv, CookieInv, OneSessionPerCode
  <1>6. CarriedInv' /\ ExchangeInv' /\ CodesSpentOnOwnState' /\ SessionInv'
    BY <1>1, <1>2, MovesKeep
  <1> QED BY <1>4, <1>5, <1>6 DEF LoginInv

(* The token endpoint: only a request that came with the state in its        *)
(* browser's own cookie spends a code; a session is issued only when the     *)
(* verifier in that cookie fits the code, and only for a code that was live. *)
LEMMA ExchangeKeepsLoginInv ==
  ASSUME LoginInv, NEW r \in Requests, tokenExchange(r)
  PROVE  LoginInv'
  <1> DEFINE c == req[r].url.code
  <1>1. /\ LoginTypeOK /\ UNCHANGED <<login, stale, cookie, code>>
        /\ req[r].phase = "exchanging" /\ live' = live \ {c}
        /\ \/ /\ c \in live /\ code[c] = req[r].cookie
              /\ session' = [session EXCEPT ![r] = c]
           \/ UNCHANGED session
    BY DEF tokenExchange, LoginInv, IssueSession, pkceMatches, Take
  <1>2. PICK p \in {"issued", "failed"} : req' = [req EXCEPT ![r].phase = p]
    BY DEF tokenExchange
  <1>3. Moves(r, p) /\ p \in Phases BY <1>1, <1>2, PhaseMoves DEF Phases
  <1>4. /\ c \in Codes /\ req[r].cookie \in Logins /\ req[r].url.state = req[r].cookie
        /\ login[req[r].cookie] = req[r].browser
    BY <1>1, LoginTypes DEF LoginInv, ExchangeInv, CarriedInv
  <1>5. \A s \in Requests : session'[s] = IF s = r /\ c \in live /\ session'[r] # session[r]
                                          THEN c ELSE session[s]
    BY <1>1 DEF LoginTypeOK
  <1>5a. session'[r] # session[r] => code[c] = req[r].cookie BY <1>1
  <1>6. LoginTypeOK'
    <2>1. session' \in [Requests -> Codes \cup {None}] BY <1>1, <1>4 DEF LoginTypeOK
    <2> QED BY <1>1, <1>3, <2>1 DEF LoginTypeOK, Moves, RequestRecord
  <1>7. CookieInv' BY <1>1 DEF LoginInv, CookieInv
  <1>8. CarriedInv' /\ ExchangeInv' BY <1>1, <1>2, <1>3, MovesKeep
  <1>9. OneSessionPerCode'
    BY <1>5 DEF LoginInv, OneSessionPerCode, SessionInv
  <1>10. SessionInv'
    <2> SUFFICES ASSUME NEW s \in Requests, session'[s] # None
                 PROVE  /\ req'[s].phase \in {"issued", "failed", "done"}
                        /\ session'[s] \notin live'
                        /\ req'[s].cookie # None /\ code[session'[s]] = req'[s].cookie
      BY <1>1 DEF SessionInv
    <2>1. CASE s # r BY <1>1, <1>3, <1>5, <2>1 DEF LoginInv, SessionInv, Moves
    <2>2. CASE s = r
      <3>1. req'[s].cookie = req[r].cookie /\ req'[s].phase = p BY <1>3, <2>2 DEF Moves
      <3>2. session[r] = None BY <1>1 DEF LoginInv, SessionInv
      <3>3. session'[s] = c BY <1>5, <2>2, <3>2
      <3>4. code[c] = req[r].cookie BY <1>5a, <2>2, <3>2
      <3> QED BY <1>1, <1>2, <1>4, <3>1, <3>3, <3>4, Distinct
    <2> QED BY <2>1, <2>2
  <1>11. CodesSpentOnOwnState'
    <2> SUFFICES ASSUME NEW d \in Codes, code[d] # None, d \notin live \ {c}
                 PROVE  \E s \in Requests :
                          /\ req'[s].url.code = d /\ OwnState(req'[s], login)
                          /\ req'[s].phase \in {"issued", "failed", "done"}
      BY <1>1 DEF CodesSpentOnOwnState, OwnState
    <2>1. CASE d = c
      <3>1. /\ req'[r].url = req[r].url /\ req'[r].browser = req[r].browser
            /\ req'[r].phase \in {"issued", "failed", "done"}
        BY <1>2, <1>3 DEF Moves
      <3>2. OwnState(req'[r], login) BY <1>4, <3>1, Distinct DEF OwnState
      <3> QED BY <2>1, <3>1, <3>2
    <2>2. CASE d # c
      <3>1. PICK s \in Requests : /\ req[s].url.code = d /\ OwnState(req[s], login)
                                  /\ req[s].phase \in {"issued", "failed", "done"}
        BY <2>2 DEF LoginInv, CodesSpentOnOwnState, OwnState
      <3>2. s # r BY <1>1, <3>1
      <3> QED BY <1>3, <3>1, <3>2 DEF Moves
    <2> QED BY <2>1, <2>2
  <1> QED BY <1>6, <1>7, <1>8, <1>9, <1>10, <1>11 DEF LoginInv

LEMMA LoginInvNext == LoginInv /\ [LoginNext]_loginVars => LoginInv'
  <1> SUFFICES ASSUME LoginInv, [LoginNext]_loginVars PROVE LoginInv' OBVIOUS
  <1>1. CASE BrowserStep
    BY <1>1, AgingKeepsLoginInv, BeginKeepsLoginInv, AuthorizeKeepsLoginInv,
       VisitKeepsLoginInv DEF BrowserStep
  <1>2. ASSUME NEW r \in Requests, HandlerStep(r) PROVE LoginInv'
    BY <1>2, CompleteKeepsLoginInv, ExchangeKeepsLoginInv, UnreachableKeepsLoginInv
    DEF HandlerStep
  <1>3. ASSUME NEW r \in Requests, Respond(r) PROVE LoginInv'
    BY <1>3, RespondKeepsLoginInv
  <1>4. CASE UNCHANGED loginVars
    BY <1>4 DEF loginVars, LoginInv, LoginTypeOK, CookieInv, CarriedInv, ExchangeInv,
       SessionInv, OneSessionPerCode, CodesSpentOnOwnState
  <1> QED BY <1>1, <1>2, <1>3, <1>4 DEF LoginNext

-----------------------------------------------------------------------------
(* The application on top of the sign-in. *)

LEMMA StepsAreLoginSteps == [Next]_vars => [LoginNext]_loginVars
  <1> SUFFICES ASSUME [Next]_vars PROVE [LoginNext]_loginVars OBVIOUS
  <1>1. CASE BrowserStep BY <1>1 DEF LoginNext
  <1>2. CASE \E r \in Requests : HandlerStep(r) BY <1>2 DEF LoginNext
  <1>3. CASE \E r \in Requests : callback(r) \/ Redirected(r)
    BY <1>3 DEF LoginNext, callback, Redirected
  <1>4. CASE \E b \in Browsers : logout(b) \/ dashboard(b) \/ TokenRotates(b) \/ dashboardAnswered(b)
    BY <1>4 DEF logout, dashboard, TokenRotates, dashboardAnswered
  <1>5. CASE \E sid \in Requests : EndSession(sid) \/ dropBySID(sid)
    BY <1>5 DEF EndSession, dropBySID
  <1>6. CASE \E sid \in Requests, kind \in {"logout", "access"} : BackchannelLogout(kind, sid)
    BY <1>6 DEF BackchannelLogout
  <1>7. CASE UNCHANGED vars BY <1>7 DEF vars
  <1> QED BY <1>1, <1>2, <1>3, <1>4, <1>5, <1>6, <1>7 DEF Next

(* The web application is a client of the SDK's sign-in and no more: with    *)
(* its session store, dashboard and logout hidden, everything it does is a   *)
(* behaviour of BeginLogin, CompleteLogin and the endpoints they talk to     *)
(* (examples/billing-web/main.go on login.go).                               *)
THEOREM AppFollowsLoginFlow == Spec => LoginSpec
  <1>1. Init => LoginInit BY DEF Init
  <1> QED BY <1>1, StepsAreLoginSteps, PTL DEF Spec, LoginSpec

LEMMA LoginInvHolds == Spec => []LoginInv
  <1>1. Init => LoginInv BY LoginInvInit DEF Init
  <1>2. LoginInv /\ [Next]_vars => LoginInv' BY LoginInvNext, StepsAreLoginSteps
  <1> QED BY <1>1, <1>2, PTL DEF Spec

(* However tabs, repeated callbacks and foreign addresses overlap, a session *)
(* is opened only by a request of the browser that began the login its code  *)
(* was issued for: the binding of the cookie store (login.go:39-45).         *)
THEOREM SessionsStayBoundToBrowser == Spec => []SessionsBoundToBrowser
  <1>1. LoginInv => SessionsBoundToBrowser
    BY DEF LoginInv, SessionInv, CarriedInv, SessionsBoundToBrowser
  <1> QED BY <1>1, LoginInvHolds, PTL

(* A code opens at most one session, whoever repeats the callback and in     *)
(* whichever order the exchanges reach the server (server.go:780).           *)
THEOREM CodeOpensOneSession == Spec => []OneSessionPerCode
  <1>1. LoginInv => OneSessionPerCode BY DEF LoginInv
  <1> QED BY <1>1, LoginInvHolds, PTL

(* A code is burnt only by an exchange of a browser that began the login     *)
(* whose state came with it, whatever codes and states people put together:  *)
(* CompleteLogin compares before it exchanges (login.go:206-213).            *)
THEOREM CodesStaySpentOnOwnState == Spec => []CodesSpentOnOwnState
  <1>1. LoginInv => CodesSpentOnOwnState BY DEF LoginInv
  <1> QED BY <1>1, LoginInvHolds, PTL

-----------------------------------------------------------------------------
(* The session store. *)

(* The callback opens a session under one name in both maps, and every later *)
(* write keeps or deletes the pair.                                          *)
PairInv ==
  \A id \in Requests : /\ byID[id] \in {None, id} /\ bySID[id] \in {None, id}
                       /\ byID[id] = None <=> bySID[id] = None

StoreType == /\ byID \in [Requests -> Requests \cup {None}]
             /\ bySID \in [Requests -> Requests \cup {None}]

(* A logout token is only on its way for a session Anubis has ended. *)
NoticeInv == posted \subseteq ended

StoreInv == TypeOK /\ PairInv /\ NoticeInv /\ OnlyLogoutTokensEndSessions

LEMMA CreateKeepsPairs ==
  ASSUME StoreType, PairInv, NEW r \in Requests, create(r, r)
  PROVE  StoreType' /\ PairInv' /\ \A id \in Requests : id # r => byID'[id] = byID[id]
  BY Distinct DEF StoreType, PairInv, create

LEMMA SaveKeepsPairs ==
  ASSUME StoreType, PairInv, NEW r \in Requests, save(r, r)
  PROVE  StoreType' /\ PairInv' /\ \A id \in Requests : byID'[id] = byID[id]
  BY Distinct DEF StoreType, PairInv, save

LEMMA DropKeepsPairs ==
  ASSUME StoreType, PairInv, NEW r \in Requests, drop(r)
  PROVE  StoreType' /\ PairInv' /\ \A id \in Requests : byID'[id] \in {byID[id], None}
  BY Distinct DEF StoreType, PairInv, drop

(* One step of the application: what it does to the store, and that a        *)
(* session that was dropped does not come back.                              *)
LEMMA StoreStep ==
  ASSUME StoreInv, [Next]_vars
  PROVE  /\ StoreType' /\ PairInv'
         /\ \A id \in Requests : id \in opened /\ byID[id] = None => byID'[id] = None
  <1>0. /\ StoreType /\ PairInv
        /\ jar \in [Browsers -> Requests \cup {None}]
        /\ viewing \in [Browsers -> Requests \cup {None}]
        /\ killing \in [Requests -> Requests \cup {None}]
    BY DEF StoreInv, TypeOK, StoreType
  <1>1. CASE UNCHANGED <<byID, bySID>>
    BY <1>0, <1>1 DEF StoreType, PairInv
  <1>2. ASSUME NEW r \in Requests, callback(r)
        PROVE  /\ StoreType' /\ PairInv'
               /\ \A id \in Requests : id \in opened /\ byID[id] = None => byID'[id] = None
    BY <1>0, <1>2, CreateKeepsPairs DEF callback
  <1>3. ASSUME NEW b \in Browsers, logout(b) \/ dashboardAnswered(b)
        PROVE  /\ StoreType' /\ PairInv'
               /\ \A id \in Requests : id \in opened /\ byID[id] = None => byID'[id] = None
    <2>1. CASE logout(b) /\ jar[b] # None
      <3>1. jar[b] \in Requests BY <1>0, <2>1
      <3> QED BY <1>0, <2>1, <3>1, DropKeepsPairs DEF logout
    <2>2. CASE logout(b) /\ jar[b] = None BY <1>1, <2>2 DEF logout
    <2>3. CASE dashboardAnswered(b)
      <3>1. viewing[b] \in Requests BY <1>0, <2>3 DEF dashboardAnswered
      <3>2. \/ UNCHANGED <<byID, bySID>> \/ save(viewing[b], viewing[b]) \/ drop(viewing[b])
        BY <2>3 DEF dashboardAnswered
      <3> QED BY <1>0, <1>1, <3>1, <3>2, SaveKeepsPairs, DropKeepsPairs
    <2> QED BY <1>3, <2>1, <2>2, <2>3
  <1>4. ASSUME NEW sid \in Requests, dropBySID(sid)
        PROVE  /\ StoreType' /\ PairInv'
               /\ \A id \in Requests : id \in opened /\ byID[id] = None => byID'[id] = None
    <2>1. killing[sid] \in Requests BY <1>0, <1>4 DEF dropBySID
    <2> QED BY <1>0, <1>4, <2>1, DropKeepsPairs DEF dropBySID
  <1> QED BY <1>1, <1>2, <1>3, <1>4
          DEF Next, Redirected, dashboard, TokenRotates, EndSession, BackchannelLogout, appVars, vars

(* The variables beside the store. *)
NoticeType ==
  /\ opened \subseteq Requests
  /\ jar \in [Browsers -> Requests \cup {None}]
  /\ viewing \in [Browsers -> Requests \cup {None}]
  /\ rotated \subseteq Browsers
  /\ ended \subseteq Requests
  /\ posted \subseteq Requests
  /\ killing \in [Requests -> Requests \cup {None}]
  /\ answered \subseteq Requests

LEMMA StoreTypeParts ==
  /\ TypeOK <=> LoginTypeOK /\ StoreType /\ NoticeType
  /\ TypeOK' <=> LoginTypeOK' /\ StoreType' /\ NoticeType'
  BY DEF TypeOK, StoreType, NoticeType

LEMMA NoticeStep ==
  ASSUME StoreInv, [Next]_vars
  PROVE  NoticeType' /\ NoticeInv' /\ OnlyLogoutTokensEndSessions'
  <1>0. /\ NoticeType /\ StoreType /\ NoticeInv /\ OnlyLogoutTokensEndSessions
    BY StoreTypeParts DEF StoreInv
  <1>1. CASE UNCHANGED <<opened, jar, viewing, rotated, ended, posted, killing, answered>>
    BY <1>0, <1>1 DEF NoticeType, NoticeInv, OnlyLogoutTokensEndSessions
  <1>2. ASSUME NEW r \in Requests, callback(r) \/ Redirected(r)
        PROVE  NoticeType' /\ NoticeInv' /\ OnlyLogoutTokensEndSessions'
    BY <1>0, <1>2 DEF callback, Redirected, NoticeType, NoticeInv, OnlyLogoutTokensEndSessions
  <1>3. ASSUME NEW b \in Browsers, logout(b) \/ dashboard(b) \/ TokenRotates(b) \/ dashboardAnswered(b)
        PROVE  NoticeType' /\ NoticeInv' /\ OnlyLogoutTokensEndSessions'
    BY <1>0, <1>3 DEF logout, dashboard, TokenRotates, dashboardAnswered, NoticeType, NoticeInv,
       OnlyLogoutTokensEndSessions
  <1>4. ASSUME NEW sid \in Requests, EndSession(sid)
        PROVE  NoticeType' /\ NoticeInv' /\ OnlyLogoutTokensEndSessions'
    BY <1>0, <1>4 DEF EndSession, NoticeType, NoticeInv, OnlyLogoutTokensEndSessions
  <1>5. ASSUME NEW sid \in Requests, dropBySID(sid)
        PROVE  NoticeType' /\ NoticeInv' /\ OnlyLogoutTokensEndSessions'
    BY <1>0, <1>5 DEF dropBySID, NoticeType, NoticeInv, OnlyLogoutTokensEndSessions
  <1>6. ASSUME NEW sid \in Requests, NEW kind \in {"logout", "access"},
               BackchannelLogout(kind, sid)
        PROVE  NoticeType' /\ NoticeInv' /\ OnlyLogoutTokensEndSessions'
    <2>1. /\ sid \in ended /\ posted' = posted \ {sid}
          /\ killing' = [killing EXCEPT ![sid] = bySID[sid]]
          /\ answered' \subseteq answered \cup {sid}
          /\ UNCHANGED <<opened, jar, viewing, rotated, ended>>
      BY <1>0, <1>6 DEF BackchannelLogout, Posted, VerifyLogoutToken, onRemoteLogout, NoticeInv
    <2>2. NoticeType' BY <1>0, <2>1 DEF NoticeType, StoreType
    <2> QED BY <1>0, <2>1, <2>2 DEF NoticeType, NoticeInv, OnlyLogoutTokensEndSessions
  <1> QED BY <1>1, <1>2, <1>3, <1>4, <1>5, <1>6 DEF Next, appVars, vars

LEMMA StoreInvHolds == Spec => []StoreInv
  <1>1. Init => StoreInv
    <2> SUFFICES ASSUME Init PROVE StoreInv OBVIOUS
    <2>1. LoginTypeOK BY LoginInvInit DEF Init, LoginInv
    <2>2. StoreType /\ PairInv BY DEF Init, StoreType, PairInv
    <2>3. NoticeType /\ NoticeInv /\ OnlyLogoutTokensEndSessions
      BY DEF Init, NoticeType, NoticeInv, OnlyLogoutTokensEndSessions
    <2> QED BY <2>1, <2>2, <2>3, StoreTypeParts DEF StoreInv
  <1>2. StoreInv /\ LoginInv' /\ [Next]_vars => StoreInv'
    BY StoreStep, NoticeStep, StoreTypeParts DEF StoreInv, LoginInv
  <1> QED BY <1>1, <1>2, LoginInvHolds, PTL DEF Spec

(* The two maps of the session store describe the same sessions whatever     *)
(* logouts, rotations and notices overlap, and no session is ended from      *)
(* outside but by a logout token (main.go:328-384, logout.go:149-190).       *)
THEOREM StoreStaysSound == Spec => []StoreIsSound
  <1>1. StoreInv => StoreIsSound
    BY Distinct DEF StoreInv, PairInv, StoreIsSound, SessionIndexesAgree
  <1> QED BY <1>1, StoreInvHolds, PTL

(* A rotation that was under way when its session was dropped does not bring *)
(* it back: save looks before it writes (main.go:358-375).                   *)
THEOREM DroppedSessionsStayDropped == Spec => DroppedStaysDropped
  <1>1. StoreInv /\ [Next]_vars
        => [\A id \in Requests : id \in opened /\ byID[id] = None => byID'[id] = None]_vars
    BY StoreStep
  <1> QED BY <1>1, StoreInvHolds, PTL DEF Spec, DroppedStaysDropped
=============================================================================
