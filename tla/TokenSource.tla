---------------------------- MODULE TokenSource ----------------------------
(***************************************************************************)
(* TokenSource (tokensource.go): a token pair kept fresh for the           *)
(* goroutines of one process, together with the two parties it races with: *)
(* the refresh endpoint that rotates a family of single-use refresh tokens *)
(* (anubistest/server.go) and the store the application writes from the    *)
(* OnRotate callback.                                                      *)
(*                                                                         *)
(* One action is one critical section of ts.mu (or of the server's s.mu),  *)
(* or one thing that happens between two of them.  Tokens are numbered in  *)
(* the order the server issues them; number 0 is the empty string.         *)
(***************************************************************************)
EXTENDS Integers, FiniteSets

CONSTANTS
    Callers,            \* goroutines that call Token
    Faults,             \* which failures the environment may produce
    MaxFlights,         \* bound: rotations started
    MaxLapses           \* bound: failures that leave the outcome unknown

FaultKinds == {"unsent", "lost", "persist", "panic", "crash", "restamp"}

ASSUME CallersAssumption == 0 \notin Callers
ASSUME FaultsAssumption == Faults \subseteq FaultKinds
ASSUME BoundsAssumption == MaxFlights \in Nat /\ MaxLapses \in Nat

VARIABLES
    tokens,     \* ts.tokens: the pair held
    inflight,   \* ts.inflight: the flight rotating now, 0 for nil
    onRotate,   \* ts.onRotate is registered
    needsRefreshToken, \* ts.needsRefreshToken: FALSE for ClientCredentials
    flights,    \* number of flight structs made so far; the last one's id
    presented,  \* presented[f]: the refresh token flight f sends
    outcome,    \* outcome[f]: rotate's rotated and err, then f.tokens and f.err
    closed,     \* flights whose done channel is closed
    pc,         \* pc[c]: where goroutine c is in Token
    on,         \* on[c]: the flight c leads or waits for, 0 for none
    ret,        \* ret[c]: what c's last call of Token returned
    req,        \* req[f]: how far the server has got with f's request
    reply,      \* reply[f]: the pair in the server's answer
    live,       \* liveRefresh[sid]: the family's live refresh token, 0 if deleted
    consumed,   \* the refresh tokens the server has marked consumed
    issued,     \* number of pairs the server has issued
    stored,     \* the pair the application's store holds
    aged,       \* access tokens valid() finds within refreshMargin of expiry
    expired,    \* access tokens that are so in truth
    wrecked,    \* flights whose callback panicked
    lapses      \* failures so far that left a rotation's outcome unknown

source == <<tokens, inflight, onRotate, flights, presented, outcome, closed>>
calls  == <<pc, on, ret>>
server == <<req, reply, live, consumed, issued>>
world  == <<needsRefreshToken, stored, aged, expired, wrecked, lapses>>
vars   == <<source, calls, server, world>>

Flights  == 1..MaxFlights
Pair     == [access : Nat, refresh : Nat]
Errors   == {"nil", "no_refresh_token", "ctx", "reuse", "transport", "persist"}
Steps    == {"idle", "wait", "refresh", "persist", "publish"}
ReqStates == {"none", "sent", "admitted", "refused", "ok", "denied", "gone"}
Result   == [tokens : Pair, err : Errors]
NoTokens == [access |-> 0, refresh |-> 0]
NoResult == [tokens |-> NoTokens, err |-> "nil"]

(* Client.TokenSource wraps the pair of a sign-in (IssueSession), which may *)
(* come without a refresh token, or a restored refresh token alone.         *)
(* ClientCredentials hands its source out only after a first mint, and that *)
(* pair has no refresh token.                                               *)
InitialTokens ==
    IF needsRefreshToken
    THEN {[access |-> 1, refresh |-> 1], [access |-> 1, refresh |-> 0],
          [access |-> 0, refresh |-> 1]}
    ELSE {[access |-> 1, refresh |-> 0]}

Init ==
    /\ needsRefreshToken \in BOOLEAN
    /\ tokens \in InitialTokens
    /\ inflight = 0 /\ onRotate = FALSE /\ flights = 0
    /\ presented = [f \in Flights |-> 0]
    /\ outcome = [f \in Flights |-> NoResult]
    /\ closed = {}
    /\ pc = [c \in Callers |-> "idle"]
    /\ on = [c \in Callers |-> 0]
    /\ ret = [c \in Callers |-> NoResult]
    /\ req = [f \in Flights |-> "none"]
    /\ reply = [f \in Flights |-> NoTokens]
    /\ live = tokens.refresh
    /\ consumed = {}
    /\ issued = 1
    /\ stored = tokens
    /\ aged = {} /\ expired = {} /\ wrecked = {} /\ lapses = 0

----------------------------------------------------------------------------
(* Token(ctx), up to its first unlock. *)

valid == tokens.access # 0 /\ tokens.access \notin aged

Return(c, t, e) ==
    /\ pc' = [pc EXCEPT ![c] = "idle"]
    /\ on' = [on EXCEPT ![c] = 0]
    /\ ret' = [ret EXCEPT ![c] = [tokens |-> t, err |-> e]]

\* The pair held is still good.
TokenHeld(c) ==
    /\ pc[c] = "idle" /\ valid
    /\ Return(c, tokens, "nil")
    /\ UNCHANGED <<source, server, world>>

\* Mutant: waits without looking whether anybody is rotating.
TokenJoinBlindly(c) ==
    /\ pc[c] = "idle" /\ ~valid
    /\ pc' = [pc EXCEPT ![c] = "wait"]
    /\ on' = [on EXCEPT ![c] = inflight]
    /\ UNCHANGED <<ret, source, server, world>>

\* Somebody is already rotating: wait for their result.
TokenJoin(c) ==
    /\ pc[c] = "idle" /\ ~valid /\ inflight # 0
    /\ pc' = [pc EXCEPT ![c] = "wait"]
    /\ on' = [on EXCEPT ![c] = inflight]
    /\ UNCHANGED <<ret, source, server, world>>

\* Expired, and nothing to rotate with: sign in again.
TokenSpent(c) ==
    /\ pc[c] = "idle" /\ ~valid /\ inflight = 0
    /\ needsRefreshToken /\ tokens.refresh = 0
    /\ Return(c, NoTokens, "no_refresh_token")
    /\ UNCHANGED <<source, server, world>>

\* Mutant: starts a second rotation beside the first.
TokenLeadTwice(c) ==
    LET f == flights + 1 IN
    /\ pc[c] = "idle" /\ ~valid
    /\ needsRefreshToken => tokens.refresh # 0
    /\ flights < MaxFlights
    /\ flights' = f /\ inflight' = f
    /\ presented' = [presented EXCEPT ![f] = tokens.refresh]
    /\ req' = [req EXCEPT ![f] = "sent"]
    /\ pc' = [pc EXCEPT ![c] = "refresh"]
    /\ on' = [on EXCEPT ![c] = f]
    /\ UNCHANGED <<tokens, onRotate, outcome, closed, ret,
                   reply, live, consumed, issued, world>>

\* Become the leader of a new flight and send its refresh request.
TokenLead(c) ==
    LET f == flights + 1 IN
    /\ pc[c] = "idle" /\ ~valid /\ inflight = 0
    /\ needsRefreshToken => tokens.refresh # 0
    /\ flights < MaxFlights
    /\ flights' = f /\ inflight' = f
    /\ presented' = [presented EXCEPT ![f] = tokens.refresh]
    /\ req' = [req EXCEPT ![f] = "sent"]
    /\ pc' = [pc EXCEPT ![c] = "refresh"]
    /\ on' = [on EXCEPT ![c] = f]
    /\ UNCHANGED <<tokens, onRotate, outcome, closed, ret,
                   reply, live, consumed, issued, world>>

Token(c) == TokenHeld(c) \/ TokenJoin(c) \/ TokenSpent(c) \/ TokenLead(c)

----------------------------------------------------------------------------
(* The refresh endpoint: two critical sections with a gap between them. *)

\* Look the token up and, if it is the live one, mark it consumed.
RefreshLookup(f) ==
    LET t      == presented[f]
        isLive == t \in 1..issued /\ live = t
    IN
    /\ needsRefreshToken /\ req[f] = "sent"
    /\ consumed' = IF isLive THEN consumed \cup {t} ELSE consumed
    /\ req' = [req EXCEPT ![f] = IF isLive /\ t \notin consumed
                                 THEN "admitted" ELSE "refused"]
    /\ UNCHANGED <<reply, live, issued, source, calls, world>>

\* Reuse: delete the family and answer unauthenticated.
RefreshRevoke(f) ==
    /\ req[f] = "refused"
    /\ live' = 0
    /\ req' = [req EXCEPT ![f] = "denied"]
    /\ UNCHANGED <<reply, consumed, issued, source, calls, world>>

\* Install the family's next refresh token and answer with the new pair.
RefreshRotate(f) ==
    LET n == issued + 1 IN
    /\ req[f] = "admitted"
    /\ issued' = n /\ live' = n
    /\ reply' = [reply EXCEPT ![f] = [access |-> n, refresh |-> n]]
    /\ req' = [req EXCEPT ![f] = "ok"]
    /\ UNCHANGED <<consumed, source, calls, world>>

\* The client-credentials endpoint mints an access token and nothing else.
Mint(f) ==
    LET n == issued + 1 IN
    /\ ~needsRefreshToken /\ req[f] = "sent"
    /\ issued' = n
    /\ reply' = [reply EXCEPT ![f] = [access |-> n, refresh |-> 0]]
    /\ req' = [req EXCEPT ![f] = "ok"]
    /\ UNCHANGED <<live, consumed, source, calls, world>>

Serve(f) == RefreshLookup(f) \/ RefreshRevoke(f) \/ RefreshRotate(f) \/ Mint(f)

----------------------------------------------------------------------------
(* rotate: what the leader does with the answer. *)

\* Mutant: keeps the old refresh token whatever the answer says.
AdoptedOld(next, current) == [next EXCEPT !.refresh = current]

\* A re-mint answers with no refresh token: carry the old one forward.
Adopted(next, current) ==
    [next EXCEPT !.refresh = IF @ = 0 THEN current ELSE @]

\* Mutant: adopts what came with an error.
SettleAnything(c, next, e) ==
    LET f == on[c] IN
    /\ tokens' = Adopted(next, presented[f])
    /\ outcome' = [outcome EXCEPT ![f] = [tokens |-> tokens', err |-> e]]
    /\ inflight' = 0
    /\ pc' = [pc EXCEPT ![c] = IF e = "nil" /\ onRotate
                               THEN "persist" ELSE "publish"]
    /\ UNCHANGED <<onRotate, flights, presented, closed, on, ret>>

\* The locked section after ts.refresh has returned next and e.
Settle(c, next, e) ==
    LET f == on[c] IN
    /\ tokens' = IF e = "nil" THEN Adopted(next, presented[f]) ELSE tokens
    /\ outcome' = [outcome EXCEPT ![f] = [tokens |-> tokens', err |-> e]]
    /\ inflight' = 0
    /\ pc' = [pc EXCEPT ![c] = IF e = "nil" /\ onRotate
                               THEN "persist" ELSE "publish"]
    /\ UNCHANGED <<onRotate, flights, presented, closed, on, ret>>

RotateSettle(c) ==
    /\ pc[c] = "refresh" /\ req[on[c]] \in {"ok", "denied"}
    /\ Settle(c, reply[on[c]], IF req[on[c]] = "ok" THEN "nil" ELSE "reuse")
    /\ UNCHANGED <<server, world>>

\* The request provably never reached the server.
RefreshUnsent(c) ==
    /\ "unsent" \in Faults
    /\ pc[c] = "refresh" /\ req[on[c]] = "sent"
    /\ Settle(c, NoTokens, "transport")
    /\ req' = [req EXCEPT ![on[c]] = "gone"]
    /\ UNCHANGED <<reply, live, consumed, issued, world>>

\* The leader's context ends, or the answer is lost, whatever the server did
\* or will still do with the request.
RefreshLost(c) ==
    /\ "lost" \in Faults /\ lapses < MaxLapses
    /\ pc[c] = "refresh"
    /\ \E e \in {"ctx", "transport"} : Settle(c, NoTokens, e)
    /\ lapses' = lapses + 1
    /\ UNCHANGED <<server, needsRefreshToken, stored, aged, expired, wrecked>>

\* onRotate(rotated), called with no lock held, stores the pair ...
Persist(c) ==
    /\ pc[c] = "persist"
    /\ stored' = outcome[on[c]].tokens
    /\ pc' = [pc EXCEPT ![c] = "publish"]
    /\ UNCHANGED <<on, ret, source, server, needsRefreshToken, aged, expired,
                   wrecked, lapses>>

\* Mutant: a failed callback puts the stored pair back.
PersistFailsRollback(c) ==
    /\ "persist" \in Faults
    /\ pc[c] = "persist"
    /\ tokens' = stored
    /\ outcome' = [outcome EXCEPT ![on[c]].err = "persist"]
    /\ pc' = [pc EXCEPT ![c] = "publish"]
    /\ UNCHANGED <<inflight, onRotate, flights, presented, closed,
                   on, ret, server, world>>

\* ... or fails, ...
PersistFails(c) ==
    /\ "persist" \in Faults
    /\ pc[c] = "persist"
    /\ outcome' = [outcome EXCEPT ![on[c]].err = "persist"]
    /\ pc' = [pc EXCEPT ![c] = "publish"]
    /\ UNCHANGED <<tokens, inflight, onRotate, flights, presented, closed,
                   on, ret, server, world>>

\* ... or panics: the goroutine unwinds and done is never closed.
PersistPanics(c) ==
    /\ "panic" \in Faults
    /\ pc[c] = "persist"
    /\ pc' = [pc EXCEPT ![c] = "idle"]
    /\ on' = [on EXCEPT ![c] = 0]
    /\ wrecked' = wrecked \cup {on[c]}
    /\ UNCHANGED <<ret, source, server, needsRefreshToken, stored, aged, expired,
                   lapses>>

\* What the flight's callers get: no pair comes with an error.
Published(o) == IF o.err = "nil" THEN o ELSE [o EXCEPT !.tokens = NoTokens]

\* Mutant: closes done only for a success.
RotatePublishSuccess(c) ==
    LET f == on[c]
        o == Published(outcome[f])
    IN
    /\ pc[c] = "publish"
    /\ outcome' = [outcome EXCEPT ![f] = o]
    /\ closed' = IF o.err = "nil" THEN closed \cup {f} ELSE closed
    /\ Return(c, o.tokens, o.err)
    /\ UNCHANGED <<tokens, inflight, onRotate, flights, presented,
                   server, world>>

\* Fill in the flight, close done, and return from the leader's Token.
RotatePublish(c) ==
    LET f == on[c]
        o == Published(outcome[f])
    IN
    /\ pc[c] = "publish"
    /\ outcome' = [outcome EXCEPT ![f] = o]
    /\ closed' = closed \cup {f}
    /\ Return(c, o.tokens, o.err)
    /\ UNCHANGED <<tokens, inflight, onRotate, flights, presented,
                   server, world>>

\* A waiter's select: done is closed ...
WaitDone(c) ==
    /\ pc[c] = "wait" /\ on[c] \in closed
    /\ Return(c, outcome[on[c]].tokens, outcome[on[c]].err)
    /\ UNCHANGED <<source, server, world>>

\* ... or the waiter's own context ends first.
WaitCancelled(c) ==
    /\ pc[c] = "wait"
    /\ Return(c, NoTokens, "ctx")
    /\ UNCHANGED <<source, server, world>>

----------------------------------------------------------------------------
(* The application and the clock. *)

\* Register the callback.
OnRotate ==
    /\ ~onRotate /\ onRotate' = TRUE
    /\ UNCHANGED <<tokens, inflight, flights, presented, outcome, closed,
                   calls, server, world>>

\* The clock carries access token n into its refresh margin.
Age(n) ==
    /\ n \in 1..issued /\ (n \notin aged \/ n \notin expired)
    /\ aged' = aged \cup {n} /\ expired' = expired \cup {n}
    /\ UNCHANGED <<needsRefreshToken, stored, wrecked, lapses, source, calls,
                   server>>

\* The new process wraps the stored pair.  IssuedAt is not part of the pair's
\* JSON; a store that went through it has the constructor stamp the pair as
\* issued now ("restamp").
RestoreSession ==
    /\ needsRefreshToken
    /\ tokens' = stored
    /\ aged' \in {aged} \cup
           (IF "restamp" \in Faults THEN {aged \ {stored.access}} ELSE {})
    /\ UNCHANGED issued

\* ClientCredentials reads no store: it hands its source out with the pair of a
\* first mint.
MintAfresh ==
    /\ ~needsRefreshToken
    /\ issued' = issued + 1
    /\ tokens' = [access |-> issued + 1, refresh |-> 0]
    /\ UNCHANGED aged

\* The process dies, with every call of Token in it, and a new one makes its
\* source.
Restart ==
    /\ "crash" \in Faults /\ lapses < MaxLapses
    /\ lapses' = lapses + 1
    /\ RestoreSession \/ MintAfresh
    /\ inflight' = 0 /\ onRotate' = FALSE
    /\ pc' = [c \in Callers |-> "idle"]
    /\ on' = [c \in Callers |-> 0]
    /\ ret' = [c \in Callers |-> NoResult]
    /\ UNCHANGED <<flights, presented, outcome, closed, req, reply, live,
                   consumed, needsRefreshToken, stored, expired, wrecked>>

Rotate(c) ==
    \/ RotateSettle(c) \/ RefreshUnsent(c) \/ RefreshLost(c)
    \/ Persist(c) \/ PersistFails(c) \/ PersistPanics(c)
    \/ RotatePublish(c)

Next ==
    \/ \E c \in Callers : Token(c) \/ Rotate(c) \/ WaitDone(c) \/ WaitCancelled(c)
    \/ \E f \in Flights : Serve(f)
    \/ \E n \in 1..issued : Age(n)
    \/ OnRotate
    \/ Restart

Spec == Init /\ [][Next]_vars

(* Goroutines are scheduled, the server answers the requests it has been    *)
(* sent, and the callback returns.  No caller is obliged to call Token, and *)
(* no failure, cancellation or passing of time is obliged to happen.        *)
Fairness ==
    /\ \A c \in Callers : /\ WF_vars(RotateSettle(c))
                          /\ WF_vars(Persist(c))
                          /\ WF_vars(RotatePublish(c))
                          /\ WF_vars(WaitDone(c))
    /\ \A f \in Flights : WF_vars(Serve(f))

FairSpec == Spec /\ Fairness

----------------------------------------------------------------------------
(* Properties *)

SourceType ==
    /\ tokens \in Pair
    /\ flights \in 0..MaxFlights /\ inflight \in 0..flights
    /\ presented \in [Flights -> Nat]
    /\ outcome \in [Flights -> Result]
    /\ closed \subseteq 1..flights

CallsType ==
    /\ pc \in [Callers -> Steps]
    /\ on \in [Callers -> 0..MaxFlights]
    /\ ret \in [Callers -> Result]

ServerType ==
    /\ req \in [Flights -> ReqStates]
    /\ reply \in [Flights -> Pair]
    /\ live \in Nat /\ consumed \subseteq Nat /\ issued \in Nat

WorldType ==
    /\ needsRefreshToken \in BOOLEAN
    /\ stored \in Pair
    /\ aged \subseteq Nat /\ expired \subseteq Nat
    /\ wrecked \subseteq Flights
    /\ lapses \in 0..MaxLapses

OnAFlight == \A c \in Callers : pc[c] # "idle" => on[c] \in 1..flights

\* Every variable has its type, and a goroutine inside Token is on a flight
\* that exists (Token, tokensource.go:95).
TypeOK ==
    /\ SourceType /\ CallsType /\ ServerType /\ WorldType
    /\ onRotate \in BOOLEAN
    /\ OnAFlight

\* Refreshes are single-flight: the inflight slot names the one flight that is
\* being refreshed, and it is never left set once its leader has moved on
\* (tokensource.go:27 and :102).
SingleFlight ==
    /\ \A c \in Callers : pc[c] = "refresh" => on[c] = inflight
    /\ \A c, d \in Callers : pc[c] = "refresh" /\ pc[d] = "refresh" => c = d
    /\ inflight # 0 => \E c \in Callers : pc[c] = "refresh"

\* Between rotations the refresh token in memory is the one the server will
\* accept, whatever the callback did with the pair and however many requests
\* failed before they were sent (rotate, tokensource.go:126, and the promise at
\* :76 that the pair is adopted although the callback failed).
HeldTokenIsLive == lapses = 0 /\ inflight = 0 => tokens.refresh = live

\* A process whose requests are answered never presents a consumed refresh
\* token: it does not report itself for theft under concurrency
\* (tokensource.go:20).
NoSelfInflictedTheft ==
    lapses = 0 => \A f \in Flights : req[f] \notin {"refused", "denied"}

\* While a process lives the pair it holds is only ever replaced by one issued
\* later: no answer of an abandoned or failed refresh rolls it back
\* (rotate, tokensource.go:129-145).
AdoptionAdvances ==
    [][tokens' # tokens /\ ~Restart => tokens'.access > tokens.access]_vars

\* Every call of Token that starts returns, leader and waiters, unless the
\* OnRotate callback of the flight it is on panicked and left done open
\* (tokensource.go:106, :151, :161).
TokenReturns ==
    \A c \in Callers : pc[c] # "idle" ~> (pc[c] = "idle" \/ on[c] \in wrecked)

\* Documented at tokensource.go:71 and DESIGN.md:278, "OnRotate fires before
\* Token returns": nobody has been given a pair whose callback is still running.
StoredBeforeReturned ==
    \A c, d \in Callers :
        pc[c] = "persist" =>
            ~(ret[d].err = "nil" /\ ret[d].tokens = outcome[on[c]].tokens)

\* Documented at tokensource.go:71, "has already stored the new pair": the
\* callback of a source that rotates a refresh token never replaces the stored
\* pair by one issued before it, whose refresh token the server has consumed.
StoreNeverRegresses ==
    [][needsRefreshToken => stored'.access >= stored.access]_vars

\* Documented at tokensource.go:93, "Token returns a valid access token": a
\* token the fast path hands out has not run into its margin.
ValidMeansUnexpired == valid => tokens.access \notin expired

\* Stated at anubistest/server.go:628, "The whole family dies": a family
\* revoked for reuse has no live token ever after.
RevokedFamilyStaysDead ==
    (\E f \in Flights : req[f] = "denied") => live = 0
=============================================================================
