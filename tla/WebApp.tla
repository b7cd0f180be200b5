------------------------------- MODULE WebApp -------------------------------
(***************************************************************************)
(* A web application on the SDK, as examples/billing-web wires it: browser *)
(* sign-in (LoginFlow), its own session store indexed by session id and by *)
(* Anubis's sid, the dashboard that refreshes tokens, and the back-channel *)
(* logout of logout.go that ends a session from elsewhere.                 *)
(*                                                                         *)
(* Names of application sessions and of Anubis sessions are both taken     *)
(* from Requests: each successful callback makes one fresh name of each.   *)
(***************************************************************************)
EXTENDS LoginFlow

VARIABLES
  byID,      \* application session -> the sid it was opened for, or None
  bySID,     \* sid -> the application session, or None
  opened,    \* requests whose session the callback handler has created
  jar,       \* browser -> the billing_session cookie, or None
  viewing,   \* browser -> the session its dashboard request looked up, or None
  rotated,   \* browsers whose dashboard request holds a pair it has yet to save
  ended,     \* sids that Anubis has ended
  posted,    \* sids whose logout token is on its way to the endpoint
  killing,   \* sid -> the session dropBySID has looked up and will drop, or None
  answered   \* sids whose logout token was answered 204

appVars == <<byID, bySID, opened, jar, viewing, rotated, ended, posted, killing, answered>>
vars == <<loginVars, appVars>>

\* Every variable has its type; an entry of the session store is a session or
\* is gone, never left half deleted (sessionStore, main.go:328).
TypeOK ==
  /\ LoginTypeOK
  /\ byID \in [Requests -> Requests \cup {None}]
  /\ bySID \in [Requests -> Requests \cup {None}]
  /\ opened \subseteq Requests
  /\ jar \in [Browsers -> Requests \cup {None}]
  /\ viewing \in [Browsers -> Requests \cup {None}]
  /\ rotated \subseteq Browsers
  /\ ended \subseteq Requests
  /\ posted \subseteq Requests
  /\ killing \in [Requests -> Requests \cup {None}]
  /\ answered \subseteq Requests

Init ==
  /\ LoginInit
  /\ byID = [r \in Requests |-> None]
  /\ bySID = [r \in Requests |-> None]
  /\ opened = {}
  /\ jar = [b \in Browsers |-> None]
  /\ viewing = [b \in Browsers |-> None]
  /\ rotated = {}
  /\ ended = {}
  /\ posted = {}
  /\ killing = [r \in Requests |-> None]
  /\ answered = {}

-----------------------------------------------------------------------------
(* The session store. *)

create(id, sid) ==
  /\ byID' = [byID EXCEPT ![id] = sid]
  /\ bySID' = [bySID EXCEPT ![sid] = id]

\* Mutant: a rotation that arrives late puts the session back.
saveAnyway(id, sid) ==
  /\ byID' = [byID EXCEPT ![id] = sid]
  /\ bySID' = [bySID EXCEPT ![sid] = id]

\* The rotated pair re-indexes the session if it is still there.
save(id, sid) ==
  IF byID[id] = None
  THEN UNCHANGED <<byID, bySID>>
  ELSE /\ byID' = [byID EXCEPT ![id] = sid]
       /\ bySID' = [s \in Requests |-> IF s = sid THEN id
                                       ELSE IF s = byID[id] THEN None ELSE bySID[s]]

\* Mutant: drop leaves the sid index behind.
dropKeepsSID(id) ==
  /\ byID' = [byID EXCEPT ![id] = None]
  /\ UNCHANGED bySID

drop(id) ==
  /\ byID' = [byID EXCEPT ![id] = None]
  /\ bySID' = IF byID[id] = None THEN bySID ELSE [bySID EXCEPT ![byID[id]] = None]

-----------------------------------------------------------------------------
(* Pages. *)

\* callback: CompleteLogin succeeded, the session is created for its sid.
callback(r) ==
  /\ req[r].phase = "issued" /\ r \notin opened
  /\ create(r, r)
  /\ opened' = opened \cup {r}
  /\ UNCHANGED <<loginVars, jar, viewing, rotated, ended, posted, killing, answered>>

\* The response, with the session cookie when the callback succeeded.
Redirected(r) ==
  /\ req[r].phase = "issued" => r \in opened
  /\ Respond(r)
  /\ jar' = [jar EXCEPT ![req[r].browser] = IF r \in opened THEN r ELSE @]
  /\ UNCHANGED <<byID, bySID, opened, viewing, rotated, ended, posted, killing, answered>>

logout(b) ==
  /\ IF jar[b] # None THEN drop(jar[b]) ELSE UNCHANGED <<byID, bySID>>
  /\ jar' = [jar EXCEPT ![b] = None]
  /\ UNCHANGED <<loginVars, opened, viewing, rotated, ended, posted, killing, answered>>

\* app.session: the browser has a session cookie and the store its session.
HasSession(b) == jar[b] # None /\ byID[jar[b]] # None

\* dashboard looks the session up and then asks its TokenSource.
dashboard(b) ==
  /\ viewing[b] = None /\ HasSession(b)
  /\ viewing' = [viewing EXCEPT ![b] = jar[b]]
  /\ UNCHANGED <<loginVars, byID, bySID, opened, jar, rotated, ended, posted, killing, answered>>

\* Token rotates: Anubis rotates a session it has not ended and keeps its sid.
TokenRotates(b) ==
  /\ viewing[b] # None /\ b \notin rotated
  /\ viewing[b] \notin ended
  /\ rotated' = rotated \cup {b}
  /\ UNCHANGED <<loginVars, byID, bySID, opened, jar, viewing, ended, posted, killing, answered>>

\* The request ends: with the pair it rotated, once OnRotate has saved it; with
\* the pair that was held, or an error; or with the reuse error, on which the
\* session is dropped.
dashboardAnswered(b) ==
  LET id == viewing[b] IN
  /\ id # None
  /\ \/ b \in rotated /\ save(id, id)
     \/ b \notin rotated /\ UNCHANGED <<byID, bySID>>
     \/ b \notin rotated /\ drop(id)
  /\ viewing' = [viewing EXCEPT ![b] = None]
  /\ rotated' = rotated \ {b}
  /\ UNCHANGED <<loginVars, opened, jar, ended, posted, killing, answered>>

-----------------------------------------------------------------------------
(* Signing out somewhere else. *)

\* Anubis ends a session and posts a logout token for it; delivery is best
\* effort, so the notice may be lost.
EndSession(sid) ==
  /\ session[sid] # None /\ sid \notin ended
  /\ ended' = ended \cup {sid}
  /\ posted' \in {posted, posted \cup {sid}}
  /\ UNCHANGED <<loginVars, byID, bySID, opened, jar, viewing, rotated, killing, answered>>

\* The token verifies as one of ours; it must also carry the logout event.
VerifyLogoutToken(kind) == kind = "logout"

\* What may be posted to the endpoint: a logout token, or an access token of a
\* session, which verifies as ours too.
Posted(kind, sid) ==
  IF kind = "logout" THEN sid \in posted ELSE session[sid] # None

\* dropBySID reads the index under the lock and releases it; what it found it
\* drops in a second section.
onRemoteLogout(sid) ==
  /\ killing' = [killing EXCEPT ![sid] = bySID[sid]]
  /\ answered' = IF bySID[sid] = None THEN answered \cup {sid} ELSE answered

\* A token that is refused is answered 400 and changes nothing.
BackchannelLogout(kind, sid) ==
  /\ Posted(kind, sid) /\ killing[sid] = None
  /\ posted' = IF kind = "logout" THEN posted \ {sid} ELSE posted
  /\ VerifyLogoutToken(kind)
  /\ onRemoteLogout(sid)
  /\ UNCHANGED <<loginVars, byID, bySID, opened, jar, viewing, rotated, ended>>

dropBySID(sid) ==
  /\ killing[sid] # None
  /\ drop(killing[sid])
  /\ killing' = [killing EXCEPT ![sid] = None]
  /\ answered' = answered \cup {sid}
  /\ UNCHANGED <<loginVars, opened, jar, viewing, rotated, ended, posted>>

-----------------------------------------------------------------------------
Next ==
  \/ BrowserStep /\ UNCHANGED appVars
  \/ \E r \in Requests : HandlerStep(r) /\ UNCHANGED appVars
  \/ \E r \in Requests : callback(r) \/ Redirected(r)
  \/ \E b \in Browsers : logout(b) \/ dashboard(b) \/ TokenRotates(b) \/ dashboardAnswered(b)
  \/ \E sid \in Requests : EndSession(sid) \/ dropBySID(sid)
  \/ \E sid \in Requests, kind \in {"logout", "access"} : BackchannelLogout(kind, sid)

Spec == Init /\ [][Next]_vars

-----------------------------------------------------------------------------
\* main.go:328-333: the two maps of the session store describe the same
\* sessions whatever logouts, rotations and notices overlap, so that every
\* session the application holds can be found by the sid a notice names.
SessionIndexesAgree ==
  /\ \A id \in Requests : byID[id] # None => bySID[byID[id]] = id
  /\ \A sid \in Requests : bySID[sid] # None => byID[bySID[sid]] = sid

\* logout.go:149-190: only a logout token ends a session from outside.  A
\* session disappears while Anubis still holds it only by its own browser's
\* logout or by its own dashboard meeting the reuse error.
OnlyLogoutTokensEndSessions ==
  \A sid \in Requests : sid \in answered \/ killing[sid] # None => sid \in ended

\* Whatever overlaps, the session store is sound: entries are whole, the two
\* maps agree, and no session was ended from outside but by a logout token
\* (main.go:328-384, logout.go:149-190).
StoreIsSound == TypeOK /\ SessionIndexesAgree /\ OnlyLogoutTokensEndSessions

\* main.go:358-375: a session that was dropped stays dropped, although a
\* rotation that was under way calls save after it.
DroppedStaysDropped ==
  [][\A id \in Requests : id \in opened /\ byID[id] = None => byID'[id] = None]_vars

\* logout.go:100-102, main.go:122-123: "Without this, our own session cookie keeps
\* a user signed in after they signed out everywhere": once the notice for a
\* sid has been answered 204, the application holds no session for it.
SignedOutEverywhere == \A id \in Requests : byID[id] # None => byID[id] \notin answered
=============================================================================
