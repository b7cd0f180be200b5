------------------------------ MODULE LoginFlow ------------------------------
(***************************************************************************)
(* Browser sign-in: BeginLogin and CompleteLogin of login.go with the      *)
(* default cookie store, against the /v1/authorize and /v1/token           *)
(* endpoints of the fake server.                                           *)
(*                                                                         *)
(* A login stands for what BeginLogin makes up or is given: the state, the *)
(* PKCE verifier and the redirect URI.  The pending login lives in ONE     *)
(* cookie of the browser.  A callback request carries a copy of that       *)
(* cookie, and the clearing of it takes effect only when the response      *)
(* reaches the browser, so tabs and repeated callbacks overlap freely.     *)
(***************************************************************************)
EXTENDS Naturals, FiniteSets

CONSTANTS
  Browsers,      \* browsers, each with one cookie jar
  MaxLogins,     \* bound on BeginLogin
  MaxCodes,      \* bound on visits of /v1/authorize
  MaxRequests,   \* bound on callback requests
  RedirectOf,    \* the redirect URI each login is begun with
  None

ASSUME BoundsAssumption == MaxLogins \in Nat /\ MaxCodes \in Nat /\ MaxRequests \in Nat
ASSUME NoneAssumption == None \notin Browsers \cup Nat

\* States, codes and callback requests are random or fresh, so they are named
\* in the order in which they appear.  A request also names its session.
Logins == 1..MaxLogins
Codes == 1..MaxCodes
Requests == 1..MaxRequests

VARIABLES
  login,     \* login -> the browser that began it, or None
  stale,     \* logins begun more than loginTTL ago
  cookie,    \* browser -> the pending login its cookie jar holds, or None
  code,      \* code -> the authorize request it answers, or None
  live,      \* codes the token endpoint still accepts
  req,       \* callback request -> what it carries and how far it is
  session    \* request -> the code its session was issued for, or None

loginVars == <<login, stale, cookie, code, live, req, session>>

Callback == [error: BOOLEAN, code: Codes \cup {None}, state: Logins \cup {None}]
Phases == {"unused", "arrived", "exchanging", "issued", "failed", "done"}
Idle == [phase |-> "unused", browser |-> None, cookie |-> None, clears |-> FALSE,
         url |-> [error |-> TRUE, code |-> None, state |-> None]]

LoginTypeOK ==
  /\ login \in [Logins -> Browsers \cup {None}]
  /\ stale \subseteq Logins
  /\ cookie \in [Browsers -> Logins \cup {None}]
  /\ code \in [Codes -> Logins \cup {None}]
  /\ live \subseteq Codes
  /\ req \in [Requests -> [phase: Phases, browser: Browsers \cup {None},
                           cookie: Logins \cup {None}, clears: BOOLEAN, url: Callback]]
  /\ session \in [Requests -> Codes \cup {None}]

LoginInit ==
  /\ login = [l \in Logins |-> None]
  /\ stale = {}
  /\ cookie = [b \in Browsers |-> None]
  /\ code = [c \in Codes |-> None]
  /\ live = {}
  /\ req = [r \in Requests |-> Idle]
  /\ session = [r \in Requests |-> None]

-----------------------------------------------------------------------------
\* loginTTL goes by for login l.
LoginAges(l) ==
  /\ login[l] # None /\ l \notin stale
  /\ stale' = stale \cup {l}
  /\ UNCHANGED <<login, cookie, code, live, req, session>>

\* The browser honours the cookie's Max-Age, which is loginTTL too.
CookieExpires(b) ==
  /\ cookie[b] \in stale
  /\ cookie' = [cookie EXCEPT ![b] = None]
  /\ UNCHANGED <<login, stale, code, live, req, session>>

\* cookieStore.Put replaces whatever login the browser had pending.
Put(b, l) == cookie' = [cookie EXCEPT ![b] = l]

BeginLogin(b, l) ==
  /\ login[l] = None /\ \A k \in 1..(l - 1) : login[k] # None
  /\ login' = [login EXCEPT ![l] = b]
  /\ Put(b, l)
  /\ UNCHANGED <<stale, code, live, req, session>>

\* Whoever visits the authorize URL of login l is answered with a fresh code
\* and a redirect to the callback; visiting twice makes two codes.
browserAuthorize(l, c) ==
  /\ login[l] # None
  /\ code[c] = None /\ \A d \in 1..(c - 1) : code[d] # None
  /\ code' = [code EXCEPT ![c] = l]
  /\ live' = live \cup {c}
  /\ UNCHANGED <<login, stale, cookie, req, session>>

\* The callback addresses that can be made up: code and state are read from the
\* query independently, so any code that was issued, or none, goes with the
\* state of any login that was begun, or none.  Anubis redirects a refused
\* sign-in to an address with an error.
Addresses ==
  [error: {FALSE}, code: {c \in Codes : code[c] # None} \cup {None},
   state: {l \in Logins : login[l] # None} \cup {None}]
  \cup {[error |-> TRUE, code |-> None, state |-> None]}

\* Any browser may visit any of them, any number of times; the request copies
\* the cookie the jar holds at that moment.
VisitCallback(b, r, url) ==
  /\ req[r].phase = "unused" /\ \A s \in 1..(r - 1) : req[s].phase # "unused"
  /\ url \in Addresses
  /\ req' = [req EXCEPT ![r] = [phase |-> "arrived", browser |-> b, cookie |-> cookie[b],
                                clears |-> FALSE, url |-> url]]
  /\ UNCHANGED <<login, stale, cookie, code, live, session>>

-----------------------------------------------------------------------------
\* cookieStore.Take: the pending login is the one in the request's own cookie.
Take(r) == req[r].cookie

\* Mutant: the state is not compared.
RefusedUnlessFresh(r) ==
  \/ req[r].url.error
  \/ Take(r) = None
  \/ Take(r) \in stale
  \/ req[r].url.code = None

\* The refusals of CompleteLogin before anything is exchanged.
Refused(r) ==
  \/ req[r].url.error
  \/ Take(r) = None
  \/ Take(r) \in stale
  \/ req[r].url.state # Take(r)
  \/ req[r].url.code = None

\* An error callback returns before Take; every other answer clears the cookie
\* if the request had one.
CompleteLogin(r) ==
  /\ req[r].phase = "arrived"
  /\ req' = [req EXCEPT ![r].phase = IF Refused(r) THEN "failed" ELSE "exchanging",
                        ![r].clears = ~req[r].url.error /\ req[r].cookie # None]
  /\ UNCHANGED <<login, stale, cookie, code, live, session>>

\* Mutant: any verifier will do.
pkceAnything(verifier, challenge) == verifier # None

\* The S256 check: only the verifier of the login the code was issued for.
pkceMatches(verifier, challenge) == verifier # None /\ verifier = challenge

\* A fresh session, remembered with the code it was issued for.
IssueSession(r, c) == session' = [session EXCEPT ![r] = c]

\* Mutant: the code stays live when it is exchanged.
ExchangeKeepsCode(r) ==
  LET c == req[r].url.code
      ok == /\ c \in live
            /\ pkceMatches(Take(r), code[c])
            /\ RedirectOf[Take(r)] = RedirectOf[code[c]]
  IN  /\ req[r].phase = "exchanging"
      /\ live' = live
      /\ IF ok THEN IssueSession(r, c) ELSE UNCHANGED session
      /\ \E answered \in BOOLEAN :
           req' = [req EXCEPT ![r].phase = IF ok /\ answered THEN "issued" ELSE "failed"]
      /\ UNCHANGED <<login, stale, cookie, code>>

\* The token endpoint deletes the code before it checks anything, then issues
\* a session.  The answer may be lost on the way back, which the client
\* reports as unavailable.
tokenExchange(r) ==
  LET c == req[r].url.code
      ok == /\ c \in live
            /\ pkceMatches(Take(r), code[c])
            /\ RedirectOf[Take(r)] = RedirectOf[code[c]]
  IN  /\ req[r].phase = "exchanging"
      /\ live' = live \ {c}
      /\ IF ok THEN IssueSession(r, c) ELSE UNCHANGED session
      /\ \E answered \in BOOLEAN :
           req' = [req EXCEPT ![r].phase = IF ok /\ answered THEN "issued" ELSE "failed"]
      /\ UNCHANGED <<login, stale, cookie, code>>

\* The exchange request never reaches Anubis.
ExchangeUnreachable(r) ==
  /\ req[r].phase = "exchanging"
  /\ req' = [req EXCEPT ![r].phase = "failed"]
  /\ UNCHANGED <<login, stale, cookie, code, live, session>>

\* The response reaches the browser and clears the cookie of that name,
\* whichever login it holds by now.
Respond(r) ==
  /\ req[r].phase \in {"issued", "failed"}
  /\ req' = [req EXCEPT ![r].phase = "done"]
  /\ cookie' = [cookie EXCEPT ![req[r].browser] = IF req[r].clears THEN None ELSE @]
  /\ UNCHANGED <<login, stale, code, live, session>>

-----------------------------------------------------------------------------
BrowserStep ==
  \/ \E l \in Logins : LoginAges(l)
  \/ \E b \in Browsers : CookieExpires(b)
  \/ \E b \in Browsers, l \in Logins : BeginLogin(b, l)
  \/ \E l \in Logins, c \in Codes : browserAuthorize(l, c)
  \/ \E b \in Browsers, r \in Requests, url \in Addresses : VisitCallback(b, r, url)

HandlerStep(r) ==
  \/ CompleteLogin(r)
  \/ tokenExchange(r)
  \/ ExchangeUnreachable(r)

LoginNext ==
  \/ BrowserStep
  \/ \E r \in Requests : HandlerStep(r) \/ Respond(r)

LoginSpec == LoginInit /\ [][LoginNext]_loginVars

-----------------------------------------------------------------------------
\* login.go:39-45: "what makes the state check worth anything is that the
\* pending login is bound to the browser that started it".  Whatever tabs,
\* repeats and foreign addresses do, a session is only ever opened by a request
\* of the browser that began the login its code was issued for.
SessionsBoundToBrowser ==
  \A r \in Requests : session[r] # None =>
    login[code[session[r]]] = req[r].browser

\* server.go:780 "single use": a callback sent twice, or by two tabs at once,
\* opens at most one session per code.
OneSessionPerCode ==
  \A r, s \in Requests : session[r] # None /\ session[r] = session[s] => r = s

\* errors.go:179-180: a state mismatch "is what CSRF against the sign-in flow
\* looks like. The SDK will not exchange the code".  A code leaves the server's
\* table only in an exchange of a browser that began the very login whose state
\* came with the code, so no address made up for other people burns it in their
\* browsers.
CodesSpentOnOwnState ==
  \A c \in Codes : code[c] # None /\ c \notin live =>
    \E r \in Requests : /\ req[r].url.code = c
                        /\ req[r].url.state # None /\ login[req[r].url.state] = req[r].browser
                        /\ req[r].phase \in {"issued", "failed", "done"}

\* login.go:59-60: "PKCE protects against an attacker who intercepts the code", of
\* opening a session with it.  Not of spending it: brought to the callback with
\* the state of one's own login, the code of somebody else is exchanged, refused
\* for its verifier, and gone for its owner.
CodesSpentByTheirBrowser ==
  \A c \in Codes : code[c] # None /\ c \notin live =>
    \E r \in Requests : /\ req[r].url.code = c
                        /\ req[r].browser = login[code[c]]
                        /\ req[r].phase \in {"issued", "failed", "done"}

\* login.go:49-51: "A login state is single-use: a store that hands the same
\* one out twice reopens the replay that state exists to close."
HandedOut(r) == req[r].phase # "unused" /\ req[r].phase # "arrived" /\ ~req[r].url.error /\ req[r].cookie # None
LoginStateSingleUse ==
  \A r, s \in Requests : HandedOut(r) /\ HandedOut(s) /\ req[r].cookie = req[s].cookie => r = s
=============================================================================
