----------------------------- MODULE RequestPath -----------------------------
(***************************************************************************)
(* The path of a request through the SDK: the credential is lifted from    *)
(* the transport, Authenticate verifies it offline, Authorize asks Anubis  *)
(* or the client's decision cache, the endpoint runs, and an error encoder *)
(* turns what went wrong into a status (net/http middleware, go-kit HTTP,  *)
(* gRPC) or into the fate of a queued message (AMQP).  Anubis and the      *)
(* network in front of it fail and recover; the worker crashes and a queue *)
(* delivers again.  All jobs put the same question about the same caller,  *)
(* so the decision cache is one entry (DecisionCache has all of it).       *)
(***************************************************************************)
EXTENDS Naturals, FiniteSets, AuthorizeMany

CONSTANTS
  Jobs,        \* requests and messages
  Leeway,      \* Config.Leeway
  CacheTTL,    \* CacheConfig.TTL
  MaxTime,     \* bound on the clock
  MaxCrashes   \* bound on worker crashes

ASSUME TimeAssumption ==
  Leeway \in Nat /\ CacheTTL \in Nat /\ MaxTime \in Nat /\ MaxCrashes \in Nat

\* The weather at Anubis, and what a call to it meets: Anubis refuses the rate,
\* the worker's credential or, on this instance, the call; or a proxy in front of
\* it answers with a page of its own.  Some of it passes, some of it does not.
Weather == {"up", "down", "failing", "refusing"}
FaultsIn(w) ==
  CASE w = "up" -> {}
    [] w = "down" -> {"down"}
    [] w = "failing" -> {"limited", "overloaded", "proxy_busy", "proxy_limited"}
    [] w = "refusing" -> {"rejecting", "proxy_denied", "bad_gateway"}

VARIABLES
  now,         \* the clock
  anubis,      \* the weather at Anubis
  decision,    \* what Anubis decides about the caller
  keySource,   \* "static" (Config.StaticKeys) or "url" (Config.KeysURL)
  keys,        \* the key cache: "empty", "failed" (its last fetch did) or "held"
  caching,     \* WithDecisionCache was given
  cached,      \* the entry for the question, and when it was put
  crashes,     \* crashes so far
  job          \* job -> transport, token, progress, error, and what was established

pathVars == <<now, anubis, decision, keySource, keys, caching, cached, crashes, job>>
vars == <<pathVars, manyVars>>

\* Config.StaticKeys or Config.KeysURL.
KeySources == {"static", "url"}
Transports == {"http", "kit", "grpc", "amqp"}

\* What a presented token can be; good ones carry an expiry and whether they
\* carry the methods the endpoint asks for.
Tokens ==
  {[kind |-> k, exp |-> 0, amr |-> TRUE] : k \in {"absent", "malformed", "unknown_kid"}}
  \cup {[kind |-> "foreign", exp |-> MaxTime, amr |-> TRUE]}
  \cup {[kind |-> "good", exp |-> e, amr |-> a] : e \in {1, MaxTime}, a \in BOOLEAN}

Refusals == {"no_token", "malformed", "expired", "audience", "unknown_kid", "step_up", "denied", "auth",
             "own"}    \* an error of the service itself
Outages == {"keys_fetch", "rate_limited", "unavailable", "api"}
Errors == {"none"} \cup Refusals \cup Outages
Stages == {"absent", "queued", "lifted", "verified", "allowed", "ran", "failed", "settled", "dead"}
NoJob == [transport |-> "http", token |-> [kind |-> "absent", exp |-> 0, amr |-> TRUE],
          stage |-> "absent", err |-> "none", reply |-> "none", verifiedAt |-> 0,
          answer |-> "none", age |-> 0]
NoEntry == [answer |-> "none", at |-> 0]

\* Every variable has its type, and a job that failed carries an error that
\* classify or the verifier names (errors.go:244, verifier.go:88).
TypeOK ==
  /\ now \in 0..MaxTime
  /\ anubis \in Weather
  /\ decision \in Answers
  /\ keySource \in KeySources
  /\ keys \in {"empty", "failed", "held"}
  /\ caching \in BOOLEAN
  /\ cached \in [answer: {"none", "allow", "deny"}, at: 0..MaxTime]
  /\ crashes \in 0..MaxCrashes
  /\ job \in [Jobs -> [transport: Transports, token: Tokens, stage: Stages, err: Errors,
                       reply: {"none", "ok", "401", "403", "429", "503", "500"},
                       verifiedAt: 0..MaxTime, answer: Answers \cup {"none"}, age: 0..MaxTime]]
  /\ ManyTypeOK

Init ==
  /\ now = 0 /\ anubis \in Weather /\ decision \in Answers /\ crashes = 0
  /\ keySource \in KeySources /\ keys = "empty"
  /\ caching \in BOOLEAN /\ cached = NoEntry
  /\ job = [m \in Jobs |-> NoJob]
  /\ \/ ManyInit("absent")
     \/ ManyInit("spawned")

-----------------------------------------------------------------------------
(* The world. *)

Tick ==
  /\ now < MaxTime
  /\ now' = now + 1
  /\ UNCHANGED <<anubis, decision, keySource, keys, caching, cached, crashes, job>>

AnubisTurns(s) ==
  /\ s # anubis
  /\ anubis' = s
  /\ UNCHANGED <<now, decision, keySource, keys, caching, cached, crashes, job>>

GrantsChange(d) ==
  /\ d # decision
  /\ decision' = d
  /\ UNCHANGED <<now, anubis, keySource, keys, caching, cached, crashes, job>>

\* A request arrives or a message is queued (ContextToAMQP put the token on it).
Publish(m, transport, token) ==
  /\ job[m].stage = "absent"
  /\ job' = [job EXCEPT ![m] = [NoJob EXCEPT !.transport = transport, !.token = token, !.stage = "queued"]]
  /\ UNCHANGED <<now, anubis, decision, keySource, keys, caching, cached, crashes>>

\* The worker dies: its caches are lost, callers see a broken connection, and
\* the queue delivers again what was not acknowledged.
Crash ==
  /\ crashes < MaxCrashes
  /\ crashes' = crashes + 1
  /\ keys' = "empty"
  /\ cached' = NoEntry
  /\ job' = [m \in Jobs |->
       IF job[m].stage \in {"absent", "queued", "settled", "dead"} THEN job[m]
       ELSE IF job[m].transport = "amqp"
            THEN [job[m] EXCEPT !.stage = "queued", !.err = "none", !.verifiedAt = 0, !.answer = "none",
                                 !.age = 0]
            ELSE [job[m] EXCEPT !.stage = "settled"]]
  /\ UNCHANGED <<now, anubis, decision, keySource, caching>>

-----------------------------------------------------------------------------
(* Authentication. *)

Advance(m, stage) == job' = [job EXCEPT ![m].stage = stage]
Fail(m, err) == job' = [job EXCEPT ![m].stage = "failed", ![m].err = err]

\* HTTPToContext, GRPCToContext, AMQPToContext: the credential moves into the
\* context if there is one; nothing is verified.
ToContext(m) ==
  /\ job[m].stage = "queued"
  /\ Advance(m, "lifted")
  /\ UNCHANGED <<now, anubis, decision, keySource, keys, caching, cached, crashes>>

\* Claims.Validate, after the signature and the version were checked.
Validate(token) ==
  CASE now > token.exp + Leeway -> "expired"
    [] now <= token.exp + Leeway /\ token.kind = "foreign" -> "audience"
    [] OTHER -> "none"

\* How a key document can be come by: a held one is there; without one it is
\* fetched, which fails unless the answer is a 200, and is not tried again for
\* MinRetry after it failed.  What Anubis or a proxy refuses the client's calls
\* it may or may not refuse this address.
DocumentAtHand ==
  CASE keys = "held" -> {TRUE}
    [] keys = "empty" /\ anubis = "up" -> {TRUE}
    [] keys # "held" /\ anubis = "down" -> {FALSE}
    [] OTHER -> BOOLEAN

\* Verifier.key: static keys answer without a document.
KeyError(token, atHand) ==
  CASE keySource = "url" /\ ~atHand -> "keys_fetch"
    [] token.kind = "unknown_kid" -> "unknown_kid"
    [] OTHER -> "none"

\* Verifier.Verify, in its order: parse, key, signature, claims.
VerifyError(token, atHand) ==
  CASE token.kind = "absent" -> "no_token"
    [] token.kind = "malformed" -> "malformed"
    [] token.kind \notin {"absent", "malformed"} /\ KeyError(token, atHand) # "none" -> KeyError(token, atHand)
    [] OTHER -> Validate(token)

\* Authenticate and Middleware store the principal, or fail.
Authenticate(m) ==
  /\ job[m].stage = "lifted"
  /\ \E atHand \in DocumentAtHand :
       LET token == job[m].token  e == VerifyError(token, atHand) IN
       /\ IF e = "none"
          THEN job' = [job EXCEPT ![m].stage = "verified", ![m].verifiedAt = now]
          ELSE Fail(m, e)
       /\ keys' = IF keySource = "static" \/ token.kind \in {"absent", "malformed"} THEN keys
                  ELSE IF atHand THEN "held" ELSE "failed"
  /\ UNCHANGED <<now, anubis, decision, keySource, caching, cached, crashes>>

-----------------------------------------------------------------------------
(* Authorization. *)

\* An error of Anubis has a code of its own and a transport class; the page of
\* a proxy has only its status.
parseWireError(fault) ==
  CASE fault = "limited" -> [status |-> 429, code |-> "rate_limited", class |-> "resource_exhausted"]
    [] fault = "rejecting" -> [status |-> 401, code |-> "invalid_token", class |-> "unauthenticated"]
    [] fault = "overloaded" -> [status |-> 503, code |-> "feed_unavailable", class |-> "unavailable"]
    [] fault = "proxy_busy" -> [status |-> 503, code |-> "", class |-> ""]
    [] fault = "proxy_limited" -> [status |-> 429, code |-> "", class |-> ""]
    [] fault = "proxy_denied" -> [status |-> 403, code |-> "", class |-> ""]
    [] fault = "bad_gateway" -> [status |-> 502, code |-> "", class |-> ""]

\* A status stands in for a code that is missing.
codeOf(e) ==
  CASE e.code = "" /\ e.status = 429 -> "rate_limited"
    [] e.code = "" /\ e.status = 401 -> "unauthenticated"
    [] e.code = "" /\ e.status = 403 -> "permission_denied"
    [] e.code = "" /\ e.status = 503 -> "unavailable"
    [] OTHER -> e.code

\* The codes that say the credential is not good enough.
AuthCodes == {"unauthenticated", "invalid_token", "invalid_credentials", "permission_denied",
              "session_revoked", "invalid_refresh_token"}

\* The code decides; one without a case of its own keeps the class
\* "unavailable" and no other.
classify(e) ==
  CASE codeOf(e) = "rate_limited" -> "rate_limited"
    [] codeOf(e) \in AuthCodes -> "auth"
    [] codeOf(e) \notin AuthCodes \cup {"rate_limited"} /\ "unavailable" \in {codeOf(e), e.class} -> "unavailable"
    [] OTHER -> "api"

\* Client.do: a transport failure has the type of an installation that is down.
do(fault) == IF fault = "down" THEN "unavailable" ELSE classify(parseWireError(fault))

\* Decision.Err
Err(d) ==
  CASE d = "allow" -> "none"
    [] d = "step_up" -> "step_up"
    [] d = "deny" -> "denied"

\* Mutant: an entry is served whatever its age.
HitAnyAge == caching /\ cached.answer # "none"

\* decisionCache.get
Hit == caching /\ cached.answer # "none" /\ now <= cached.at + CacheTTL

\* decisionCache.put: a step-up refusal is not kept.
Put(d) == cached' = IF caching /\ d # "step_up" THEN [answer |-> d, at |-> now] ELSE cached

\* Require reads the answer, which Anubis gave age ago.
Answered(m, d, age) ==
  job' = [job EXCEPT ![m].answer = d, ![m].age = age, ![m].err = Err(d),
                     ![m].stage = IF Err(d) = "none" THEN "allowed" ELSE "failed"]

\* RequireAMR refuses locally; otherwise Require asks about the verified subject:
\* the decision cache, then Anubis.
Authorize(m) ==
  /\ job[m].stage = "verified"
  /\ \/ ~job[m].token.amr /\ Fail(m, "step_up") /\ UNCHANGED cached
     \/ job[m].token.amr /\ Hit /\ Answered(m, cached.answer, now - cached.at) /\ UNCHANGED cached
     \/ job[m].token.amr /\ ~Hit /\ (\E fault \in FaultsIn(anubis) : Fail(m, do(fault))) /\ UNCHANGED cached
     \/ job[m].token.amr /\ ~Hit /\ anubis = "up" /\ Answered(m, decision, 0) /\ Put(decision)
  /\ UNCHANGED <<now, anubis, decision, keySource, keys, caching, crashes>>

\* Another request of the same caller puts the question through the same client.
AskedElsewhere ==
  /\ caching /\ ~Hit /\ anubis = "up"
  /\ Put(decision)
  /\ UNCHANGED <<now, anubis, decision, keySource, keys, caching, crashes, job>>

Endpoint(m) ==
  /\ job[m].stage = "allowed"
  /\ Advance(m, "ran")
  /\ UNCHANGED <<now, anubis, decision, keySource, keys, caching, cached, crashes>>

\* The service's own errors, on which the SDK has no opinion: the body does not
\* decode, the invoice does not load, the work fails, the reply cannot be
\* encoded or published.  A handler of net/http answers for itself.
ServiceFails(m) ==
  /\ job[m].stage \in {"lifted", "verified", "allowed", "ran"} /\ job[m].transport # "http"
  /\ Fail(m, "own")
  /\ UNCHANGED <<now, anubis, decision, keySource, keys, caching, cached, crashes>>

\* The reply goes out and the delivery is acknowledged after it.
publishAndAck(m) ==
  /\ job[m].stage = "ran"
  /\ job' = [job EXCEPT ![m].stage = "settled", ![m].reply = "ok"]
  /\ UNCHANGED <<now, anubis, decision, keySource, keys, caching, cached, crashes>>

-----------------------------------------------------------------------------
(* Failures at the edge. *)

\* Mutant: a refused credential is worth another try.
RetryRefusals(err) == err \in {"rate_limited", "unavailable", "auth", "denied", "expired"}

\* Mutant: only a rate limit is worth another try.
RetryLimitedOnly(err) == err = "rate_limited"

Retryable(err) == err \in {"rate_limited", "unavailable"}

\* The statuses of StatusCode; an error it does not name is internal.
StatusCode(err) ==
  CASE err \in {"step_up", "auth", "no_token", "expired", "audience", "unknown_kid"} -> "401"
    [] err = "denied" -> "403"
    [] err = "rate_limited" -> "429"
    [] err = "unavailable" -> "503"
    [] OTHER -> "500"

\* GRPCCode, with gRPC's codes named by the status they stand beside.
GRPCCode(err) ==
  CASE err \in {"step_up", "auth", "no_token", "expired", "audience", "unknown_kid"} -> "401"
    [] err = "denied" -> "403"
    [] err = "rate_limited" -> "429"
    [] err = "unavailable" -> "503"
    [] OTHER -> "500"

\* Middleware answers 401 to whatever Verify reports; Requires 401 to a step-up,
\* 403 to a denial and 503 to everything else.
MiddlewareStatus(err) ==
  CASE err \in {"no_token", "malformed", "expired", "audience", "unknown_kid", "keys_fetch", "step_up"} -> "401"
    [] err = "denied" -> "403"
    [] OTHER -> "503"

ErrorEncoder(m) ==
  /\ job[m].stage = "failed" /\ job[m].transport # "amqp"
  /\ job' = [job EXCEPT ![m].stage = "settled",
                        ![m].reply = CASE job[m].transport = "http" -> MiddlewareStatus(job[m].err)
                                       [] job[m].transport = "kit" -> StatusCode(job[m].err)
                                       [] job[m].transport = "grpc" -> GRPCCode(job[m].err)]
  /\ UNCHANGED <<now, anubis, decision, keySource, keys, caching, cached, crashes>>

\* Requeued if repeating it could work, dead-lettered if not.
NackErrorEncoder(m) ==
  /\ job[m].stage = "failed" /\ job[m].transport = "amqp"
  /\ job' = [job EXCEPT ![m] = IF Retryable(@.err)
                               THEN [@ EXCEPT !.stage = "queued", !.err = "none", !.verifiedAt = 0]
                               ELSE [@ EXCEPT !.stage = "dead"]]
  /\ UNCHANGED <<now, anubis, decision, keySource, keys, caching, cached, crashes>>

-----------------------------------------------------------------------------
WorkerStep(m) ==
  \/ ToContext(m) \/ Authenticate(m) \/ Authorize(m) \/ Endpoint(m) \/ ServiceFails(m)
  \/ publishAndAck(m)
  \/ ErrorEncoder(m) \/ NackErrorEncoder(m)

World ==
  \/ Tick \/ Crash \/ AskedElsewhere
  \/ \E s \in Weather : AnubisTurns(s)
  \/ \E d \in Answers : GrantsChange(d)
  \/ \E m \in Jobs, transport \in Transports, token \in Tokens : Publish(m, transport, token)

\* The instance is either one that handles jobs or one that asks many questions.
Next ==
  \/ ask # [i \in Asks |-> "absent"] /\ ManyNext /\ UNCHANGED pathVars
  \/ /\ ask = [i \in Asks |-> "absent"]
     /\ World \/ \E m \in Jobs : WorkerStep(m)
     /\ UNCHANGED manyVars

Spec == Init /\ [][Next]_vars

\* Handlers and consumers run, goroutines are scheduled.
FairSpec ==
  /\ Spec
  /\ \A m \in Jobs : WF_vars(WorkerStep(m) /\ UNCHANGED manyVars)
  /\ \A i \in Asks : SF_vars(AcquireSlot(i) /\ UNCHANGED pathVars)
                     /\ WF_vars(StoreAnswer(i) /\ UNCHANGED pathVars)
  /\ WF_vars(ManyReturn /\ UNCHANGED pathVars)

-----------------------------------------------------------------------------
\* How old an answer of Anubis may be that this client goes by.
Allowance == IF caching THEN CacheTTL ELSE 0

\* anubiskit.go:88-92,143-148, options.go:111-114 "exactly, how long a disabled
\* identity keeps its access": an endpoint runs only for a caller whose token was
\* good when it was verified and whom Anubis itself allowed, when the job asked
\* or, with a decision cache, at most CacheTTL before it asked, whatever grants
\* were withdrawn, crashed or was delivered again in between.
OnlyAllowedCallersServed ==
  \A m \in Jobs : job[m].stage \in {"allowed", "ran"} =>
    /\ job[m].token.kind = "good" /\ job[m].token.amr
    /\ job[m].verifiedAt <= job[m].token.exp + Leeway
    /\ job[m].answer = "allow"
    /\ job[m].age <= Allowance

\* What makes a message undeliverable for good: its token, an answer of Anubis
\* about the caller (at most CacheTTL old), the refusal of the worker's own
\* credential, by Anubis or by a proxy, or an error of the service itself.
RefusedForGood(m) ==
  \/ job[m].token.kind # "good" \/ ~job[m].token.amr
  \/ now > job[m].token.exp + Leeway
  \/ job[m].answer \in {"deny", "step_up"}
  \/ job[m].err \in {"auth", "own"}

\* amqp.go:74-81: "dead-letter a transient one and you have thrown away work
\* because a dependency blinked": a dead-lettered message was refused for good,
\* or met one of the two outages the SDK does not type as one (a key document
\* that could not be fetched, the error page of a gateway).
NoWorkLostToOutage ==
  \A m \in Jobs : job[m].stage = "dead" => RefusedForGood(m) \/ job[m].err \in {"keys_fetch", "api"}

\* amqp.go:79-81, without the exception: a refusal is permanent, "Anubis being
\* unreachable, or rate limiting the consumer, is not".
OutageNeverDeadLetters == \A m \in Jobs : job[m].stage = "dead" => RefusedForGood(m)

\* anubiskit.go:174-204, grpc.go:78-106, amqp.go:82: a caller who is still waiting
\* is told to come back whenever a message would be delivered again; and, over
\* go-kit's HTTP and gRPC, only then.  Middleware and Requires, on net/http, tell
\* refusals and outages apart less finely (MiddlewareStatus).
RetryAdviceAgrees ==
  \A m \in Jobs : job[m].stage = "settled" /\ job[m].transport # "amqp" /\ job[m].reply # "none" =>
    /\ Retryable(job[m].err) => job[m].reply \in {"429", "503"}
    /\ job[m].transport \in {"kit", "grpc"} /\ job[m].reply \in {"429", "503"} => Retryable(job[m].err)

\* Every failure is told for what it is: it has a class, on a queue it costs no
\* work that could still be done, and callers get the matching advice
\* (errors.go:244, amqp.go:74-106, anubiskit.go StatusCode, grpc.go GRPCCode).
FailuresAreTold == TypeOK /\ NoWorkLostToOutage /\ RetryAdviceAgrees

\* amqp.go:75-76 "requeue a permanent failure and the queue spins on it
\* forever": once Anubis answers, or refuses for good, every message leaves the
\* queue.
MessagesSettle ==
  <>[](anubis \in {"up", "refusing"}) =>
    \A m \in Jobs : job[m].stage = "queued" ~> job[m].stage \in {"settled", "dead"}
=============================================================================
