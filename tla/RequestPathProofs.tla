------------------------- MODULE RequestPathProofs -------------------------
(***************************************************************************)
(* Proofs about RequestPath and AuthorizeMany, for any number of jobs and  *)
(* questions, any leeway and any time to live of a cached decision.        *)
(***************************************************************************)
EXTENDS RequestPath, FiniteSetTheorems, TLAPS

-----------------------------------------------------------------------------
(* AuthorizeMany. *)

(* An answer or an error is in place when its goroutine ends, and the call   *)
(* returns after the last of them.                                           *)
AnswersInv ==
  /\ \A i \in Asks : out[i] \in {"zero", Truth[i]}
  /\ \A i \in Asks : ask[i] = "done" => out[i] = Truth[i] \/ i \in errs
  /\ returned => \A i \in Asks : ask[i] = "done"
SlotsInv == Cardinality(InFlight) <= MaxInFlight
ManyInv == ManyTypeOK /\ AnswersInv /\ SlotsInv

LEMMA InFlightFinite == IsFiniteSet(InFlight) /\ Cardinality(InFlight) \in Nat
  <1>1. InFlight \subseteq Asks BY DEF InFlight
  <1>2. IsFiniteSet(InFlight) BY <1>1, SlotsAssumption, FS_Subset
  <1> QED BY <1>2, FS_CardinalityType

LEMMA ManyInvInit ==
  ASSUME NEW place \in {"absent", "spawned"}, ManyInit(place)
  PROVE  ManyInv
  <1>1. ManyTypeOK BY DEF ManyInit, ManyTypeOK
  <1>2. AnswersInv BY DEF ManyInit, AnswersInv
  <1>3. InFlight = {} BY DEF ManyInit, InFlight
  <1>4. Cardinality(InFlight) = 0 BY <1>3, FS_EmptySet
  <1>5. SlotsInv BY <1>4, SlotsAssumption DEF SlotsInv
  <1> QED BY <1>1, <1>2, <1>5 DEF ManyInv

LEMMA ManyInvNext == ManyInv /\ [ManyNext]_manyVars => ManyInv'
  <1> SUFFICES ASSUME ManyInv, [ManyNext]_manyVars PROVE ManyInv' OBVIOUS
  <1>0. ManyTypeOK /\ AnswersInv /\ SlotsInv BY DEF ManyInv
  <1>1. ASSUME NEW i \in Asks, AcquireSlot(i) PROVE ManyInv'
    <2>1. ManyTypeOK' BY <1>0, <1>1 DEF AcquireSlot, ManyTypeOK
    <2>2. AnswersInv' BY <1>0, <1>1 DEF AcquireSlot, ManyTypeOK, AnswersInv
    <2>3. InFlight' = InFlight \cup {i} /\ i \notin InFlight
      BY <1>0, <1>1 DEF AcquireSlot, InFlight, ManyTypeOK
    <2>4. Cardinality(InFlight') = Cardinality(InFlight) + 1
      BY <2>3, InFlightFinite, FS_AddElement
    <2>5. SlotsInv'
      BY <1>1, <2>4, InFlightFinite, SlotsAssumption DEF AcquireSlot, SlotsInv
    <2> QED BY <2>1, <2>2, <2>5 DEF ManyInv
  <1>2. ASSUME NEW i \in Asks, StoreAnswer(i) PROVE ManyInv'
    <2>1. ManyTypeOK' BY <1>0, <1>2, TruthAssumption DEF StoreAnswer, ManyTypeOK
    <2>2. AnswersInv'
      <3>1. ~returned /\ ~returned' BY <1>0, <1>2 DEF StoreAnswer, AnswersInv
      <3>2. \A j \in Asks : j # i => ask'[j] = ask[j] /\ out'[j] = out[j]
        BY <1>0, <1>2 DEF StoreAnswer, ManyTypeOK
      <3>3. errs \subseteq errs' /\ out'[i] \in {"zero", Truth[i]}
            /\ (out'[i] = Truth[i] \/ i \in errs')
        BY <1>0, <1>2 DEF StoreAnswer, ManyTypeOK, AnswersInv
      <3> QED BY <1>0, <3>1, <3>2, <3>3 DEF AnswersInv
    <2>3. InFlight' = InFlight \ {i} /\ i \in InFlight
      BY <1>0, <1>2 DEF StoreAnswer, InFlight, ManyTypeOK
    <2>4. Cardinality(InFlight') = Cardinality(InFlight) - 1
      BY <2>3, InFlightFinite, FS_RemoveElement
    <2>5. SlotsInv' BY <1>0, <2>4, InFlightFinite, SlotsAssumption DEF SlotsInv
    <2> QED BY <2>1, <2>2, <2>5 DEF ManyInv
  <1>3. CASE ManyReturn
    BY <1>0, <1>3 DEF ManyReturn, ManyInv, ManyTypeOK, AnswersInv, SlotsInv, InFlight
  <1>4. CASE UNCHANGED manyVars
    BY <1>0, <1>4 DEF manyVars, ManyInv, ManyTypeOK, AnswersInv, SlotsInv, InFlight
  <1> QED BY <1>1, <1>2, <1>3, <1>4 DEF ManyNext

LEMMA ManyInvHolds == Spec => []ManyInv
  <1>1. Init => ManyInv BY ManyInvInit DEF Init
  <1>2. [Next]_vars => [ManyNext]_manyVars BY DEF Next, vars
  <1> QED BY <1>1, <1>2, ManyInvNext, PTL DEF Spec

(* Whichever goroutines win the slots and whichever calls fail, at most      *)
(* maxInFlight are under way, each decision lies at its own index, and none  *)
(* is missing without an error when AuthorizeMany returns (authz.go:284-301).*)
THEOREM ManyAnswersStayInPlace == Spec => []ManyAnswersInPlace
  <1>1. ManyInv => ManyAnswersInPlace
    BY DEF ManyInv, AnswersInv, SlotsInv, ManyAnswersInPlace
  <1> QED BY <1>1, ManyInvHolds, PTL

-----------------------------------------------------------------------------
(* The request path. *)

Replies == {"none", "ok", "401", "403", "429", "503", "500"}
JobRecord == [transport: Transports, token: Tokens, stage: Stages, err: Errors,
              reply: Replies, verifiedAt: 0..MaxTime, answer: Answers \cup {"none"},
              age: 0..MaxTime]

WorldType ==
  /\ now \in 0..MaxTime
  /\ anubis \in Weather
  /\ decision \in Answers
  /\ keySource \in KeySources
  /\ keys \in {"empty", "failed", "held"}
  /\ caching \in BOOLEAN
  /\ cached \in [answer: {"none", "allow", "deny"}, at: 0..MaxTime]
  /\ crashes \in 0..MaxCrashes
JobsType == job \in [Jobs -> JobRecord]

LEMMA TypeParts == TypeOK <=> WorldType /\ JobsType /\ ManyTypeOK
  BY DEF TypeOK, WorldType, JobsType, JobRecord, Replies

(* Between the queue and the edge a job has no error, and before the edge no *)
(* reply.                                                                    *)
Underway(j) ==
  /\ j.stage \in {"queued", "lifted", "verified", "allowed", "ran"} => j.err = "none"
  /\ j.stage # "settled" => j.reply = "none"

(* Past Authenticate the token was good in its time; past Authorize Anubis   *)
(* said yes, at most a before it was asked.                                  *)
Cleared(j, a) ==
  /\ j.stage \in {"verified", "allowed", "ran"} =>
       j.token.kind = "good" /\ j.verifiedAt <= j.token.exp + Leeway
  /\ j.stage \in {"allowed", "ran"} =>
       j.token.amr /\ j.answer = "allow" /\ j.age <= a

(* A refusal for good of a job as it stands at time t. *)
ForGood(j, t) ==
  \/ j.token.kind # "good" \/ ~j.token.amr
  \/ t > j.token.exp + Leeway
  \/ j.answer \in {"deny", "step_up"}
  \/ j.err \in {"auth", "own"}

(* A job that failed was refused for good, met an outage Retryable knows, or *)
(* one of the two it does not; a dead letter had none of the known ones.     *)
Blamed(j, t) ==
  /\ j.stage = "failed" => ForGood(j, t) \/ j.err \in {"keys_fetch", "api"} \/ Retryable(j.err)
  /\ j.stage = "dead" => ForGood(j, t) \/ j.err \in {"keys_fetch", "api"}

(* What a caller was told agrees with what a queue would do, on net/http in  *)
(* one direction.                                                            *)
Advised(j) ==
  j.stage = "settled" /\ j.transport # "amqp" /\ j.reply # "none" =>
    /\ Retryable(j.err) => j.reply \in {"429", "503"}
    /\ j.transport \in {"kit", "grpc"} /\ j.reply \in {"429", "503"} => Retryable(j.err)

JobInv(j, t, a) == j \in JobRecord /\ Underway(j) /\ Cleared(j, a) /\ Blamed(j, t) /\ Advised(j)
(* An entry of the decision cache is not of the future. *)
CacheInv == cached.at <= now
PathInv == WorldType /\ CacheInv /\ JobsType /\ \A m \in Jobs : JobInv(job[m], now, Allowance)

LEMMA TokenFacts == \A k \in Tokens : k.exp \in Nat /\ k.amr \in BOOLEAN
  <1> TAKE k \in Tokens
  <1>1. CASE \E a \in {"absent", "malformed", "unknown_kid"} : k = [kind |-> a, exp |-> 0, amr |-> TRUE]
    BY <1>1
  <1>2. CASE k = [kind |-> "foreign", exp |-> MaxTime, amr |-> TRUE] BY <1>2, TimeAssumption
  <1>3. CASE \E e \in {1, MaxTime}, a \in BOOLEAN : k = [kind |-> "good", exp |-> e, amr |-> a]
    BY <1>3, TimeAssumption
  <1> QED BY <1>1, <1>2, <1>3 DEF Tokens

LEMMA NoJobFacts ==
  ASSUME NEW transport \in Transports, NEW token \in Tokens, NEW t \in 0..MaxTime, NEW a
  PROVE  /\ JobInv(NoJob, t, a)
         /\ JobInv([NoJob EXCEPT !.transport = transport, !.token = token, !.stage = "queued"], t, a)
  <1>1. NoJob \in JobRecord
    BY TimeAssumption DEF NoJob, JobRecord, Transports, Tokens, Stages, Errors, Replies
  <1>2. JobInv(NoJob, t, a)
    BY <1>1 DEF JobInv, NoJob, Underway, Cleared, Blamed, Advised
  <1> DEFINE j == [NoJob EXCEPT !.transport = transport, !.token = token, !.stage = "queued"]
  <1>3. j \in JobRecord
    BY <1>1 DEF NoJob, JobRecord, Stages
  <1>4. j.stage = "queued" /\ j.err = "none" /\ j.reply = "none" BY DEF NoJob
  <1> HIDE DEF j
  <1>5. JobInv(j, t, a) BY <1>3, <1>4 DEF JobInv, Underway, Cleared, Blamed, Advised
  <1> QED BY <1>2, <1>5 DEF j

(* Time that passes only makes refusals firmer. *)
LEMMA TimePasses ==
  ASSUME NEW j \in JobRecord, NEW t \in 0..MaxTime, NEW a, JobInv(j, t, a), t + 1 \in 0..MaxTime
  PROVE  JobInv(j, t + 1, a)
  <1>1. j.token.exp + Leeway \in Nat BY TokenFacts, TimeAssumption DEF JobRecord
  <1>2. ForGood(j, t) => ForGood(j, t + 1) BY <1>1, TimeAssumption DEF ForGood
  <1> QED BY <1>2 DEF JobInv, Blamed

LEMMA PathInvInit == Init => PathInv
  <1> SUFFICES ASSUME Init PROVE PathInv OBVIOUS
  <1>1. WorldType
    <2>1. 0 \in 0..MaxTime /\ 0 \in 0..MaxCrashes BY TimeAssumption
    <2>2. /\ now = 0 /\ crashes = 0 /\ keys = "empty" /\ anubis \in Weather
          /\ decision \in Answers /\ keySource \in KeySources
          /\ caching \in BOOLEAN /\ cached = NoEntry
      BY DEF Init
    <2> QED BY <2>1, <2>2 DEF WorldType, NoEntry
  <1>a. CacheInv BY <1>1 DEF Init, CacheInv, NoEntry, WorldType
  <1>2. "http" \in Transports /\ NoJob.token \in Tokens /\ now \in 0..MaxTime
    BY <1>1 DEF Transports, Tokens, NoJob, WorldType
  <1>3. JobInv(NoJob, now, Allowance) BY <1>2, NoJobFacts
  <1>4. \A m \in Jobs : JobInv(job[m], now, Allowance) BY <1>3 DEF Init
  <1>5. JobsType BY <1>3 DEF Init, JobsType, JobInv
  <1> QED BY <1>1, <1>a, <1>4, <1>5 DEF PathInv

(* The shape of a step of one job. *)
LEMMA OneJob ==
  ASSUME PathInv, NEW m \in Jobs, NEW j, job' = [job EXCEPT ![m] = j], JobInv(j, now, Allowance),
         UNCHANGED <<now, caching>>
  PROVE  JobsType' /\ \A k \in Jobs : JobInv(job'[k], now', Allowance')
  <1>1. j \in JobRecord /\ job \in [Jobs -> JobRecord] BY DEF JobInv, PathInv, JobsType
  <1>2. JobsType' BY <1>1 DEF JobsType
  <1>3. \A k \in Jobs : job'[k] = IF k = m THEN j ELSE job[k] BY <1>1
  <1>4. Allowance' = Allowance /\ now' = now BY DEF Allowance
  <1> QED BY <1>2, <1>3, <1>4 DEF PathInv

LEMMA VerifyErrors ==
  ASSUME WorldType, NEW token \in Tokens, NEW atHand \in BOOLEAN
  PROVE  /\ VerifyError(token, atHand) \in Errors
         /\ VerifyError(token, atHand) \in {"none", "expired", "keys_fetch"} \/ token.kind # "good"
         /\ VerifyError(token, atHand) = "none" => token.kind = "good" /\ now <= token.exp + Leeway
         /\ VerifyError(token, atHand) = "expired" => now > token.exp + Leeway
  <1>1. token.kind \in {"absent", "malformed", "unknown_kid", "foreign", "good"}
    BY DEF Tokens
  <1>2. now \in Nat /\ token.exp + Leeway \in Nat
    BY TokenFacts, TimeAssumption DEF WorldType
  <1>3. /\ Validate(token) \in {"expired", "audience", "none"}
        /\ Validate(token) = "expired" <=> now > token.exp + Leeway
        /\ Validate(token) = "audience" => token.kind = "foreign"
        /\ Validate(token) = "none" => token.kind # "foreign"
    BY <1>1, <1>2 DEF Validate
  <1>4. /\ KeyError(token, atHand) \in {"keys_fetch", "unknown_kid", "none"}
        /\ KeyError(token, atHand) = "unknown_kid" => token.kind = "unknown_kid"
        /\ KeyError(token, atHand) = "none" => token.kind # "unknown_kid"
    BY <1>1 DEF KeyError
  <1>5. CASE token.kind \in {"absent", "malformed"}
    BY <1>5 DEF VerifyError, Errors, Refusals
  <1>6. CASE token.kind \notin {"absent", "malformed"} /\ KeyError(token, atHand) # "none"
    <2>1. VerifyError(token, atHand) = KeyError(token, atHand) BY <1>6 DEF VerifyError
    <2> QED BY <1>4, <1>6, <2>1 DEF Errors, Refusals, Outages
  <1>7. CASE token.kind \notin {"absent", "malformed"} /\ KeyError(token, atHand) = "none"
    <2>1. VerifyError(token, atHand) = Validate(token) BY <1>7 DEF VerifyError
    <2> QED BY <1>1, <1>2, <1>3, <1>4, <1>7, <2>1 DEF Errors, Refusals
  <1> QED BY <1>5, <1>6, <1>7

LEMMA DoErrors ==
  ASSUME NEW w \in Weather, NEW fault \in FaultsIn(w)
  PROVE  do(fault) \in {"unavailable", "rate_limited", "auth", "api"}
  <1>1. fault \in {"down", "limited", "overloaded", "proxy_busy", "proxy_limited",
                   "rejecting", "proxy_denied", "bad_gateway"}
    BY DEF Weather, FaultsIn
  <1> QED BY <1>1 DEF do, classify, parseWireError, codeOf, AuthCodes

-----------------------------------------------------------------------------
(* The worker's steps. *)

LEMMA ToContextKeeps ==
  ASSUME PathInv, NEW m \in Jobs, ToContext(m)
  PROVE  PathInv'
  <1> DEFINE j == [job[m] EXCEPT !.stage = "lifted"]
  <1>0. JobInv(job[m], now, Allowance) /\ job[m] \in JobRecord /\ job[m].stage = "queued"
    BY DEF PathInv, JobInv, ToContext
  <1>1. job' = [job EXCEPT ![m] = j] /\ UNCHANGED <<now, caching>>
    BY DEF ToContext, Advance, PathInv, JobsType
  <1>2. j \in JobRecord BY <1>0 DEF JobRecord, Stages
  <1>3. /\ j.stage = "lifted" /\ j.err = job[m].err /\ j.reply = job[m].reply
    BY <1>0 DEF JobRecord
  <1> HIDE DEF j
  <1>4. JobInv(j, now, Allowance)
    BY <1>0, <1>2, <1>3 DEF JobInv, Underway, Cleared, Blamed, Advised
  <1>5. WorldType' /\ CacheInv' BY DEF PathInv, WorldType, CacheInv, ToContext
  <1> QED BY <1>1, <1>4, <1>5, OneJob DEF PathInv

LEMMA AuthenticateKeeps ==
  ASSUME PathInv, NEW m \in Jobs, Authenticate(m)
  PROVE  PathInv'
  <1>0. /\ JobInv(job[m], now, Allowance) /\ job[m] \in JobRecord /\ job[m].stage = "lifted"
        /\ WorldType /\ now \in 0..MaxTime /\ job[m].token \in Tokens
        /\ UNCHANGED <<now, caching>>
    BY DEF PathInv, JobInv, Authenticate, JobRecord, WorldType
  <1>a. PICK atHand \in BOOLEAN :
          /\ IF VerifyError(job[m].token, atHand) = "none"
             THEN job' = [job EXCEPT ![m].stage = "verified", ![m].verifiedAt = now]
             ELSE Fail(m, VerifyError(job[m].token, atHand))
          /\ keys' \in {keys, "held", "failed"}
    <2>1. DocumentAtHand \subseteq BOOLEAN BY DEF DocumentAtHand
    <2> QED BY <2>1 DEF Authenticate
  <1> DEFINE e == VerifyError(job[m].token, atHand)
             good == [job[m] EXCEPT !.stage = "verified", !.verifiedAt = now]
             bad == [job[m] EXCEPT !.stage = "failed", !.err = e]
  <1>1. IF e = "none" THEN job' = [job EXCEPT ![m] = good] ELSE job' = [job EXCEPT ![m] = bad]
    BY <1>a DEF Fail, PathInv, JobsType
  <1>2. /\ e \in Errors
        /\ e \in {"none", "expired", "keys_fetch"} \/ job[m].token.kind # "good"
        /\ e = "none" => job[m].token.kind = "good" /\ now <= job[m].token.exp + Leeway
        /\ e = "expired" => now > job[m].token.exp + Leeway
    BY <1>0, VerifyErrors
  <1> HIDE DEF e
  <1>3. good \in JobRecord /\ bad \in JobRecord BY <1>0, <1>2 DEF JobRecord, Stages
  <1>4. /\ good.stage = "verified" /\ good.verifiedAt = now /\ good.token = job[m].token
        /\ good.err = job[m].err /\ good.reply = job[m].reply
        /\ bad.stage = "failed" /\ bad.err = e /\ bad.token = job[m].token
        /\ bad.reply = job[m].reply
    BY <1>0 DEF JobRecord
  <1>5. WorldType' /\ CacheInv'
    BY <1>a DEF PathInv, WorldType, CacheInv, Authenticate
  <1> HIDE DEF good, bad
  <1>6. CASE e = "none"
    <2>1. JobInv(good, now, Allowance)
      BY <1>0, <1>2, <1>3, <1>4, <1>6 DEF JobInv, Underway, Cleared, Blamed, Advised
    <2> QED BY <1>0, <1>1, <1>5, <1>6, <2>1, OneJob DEF PathInv
  <1>7. CASE e # "none"
    <2>1. Underway(bad) /\ Cleared(bad, Allowance) /\ Advised(bad)
      BY <1>0, <1>4 DEF JobInv, Underway, Cleared, Advised
    <2>2. Blamed(bad, now) BY <1>2, <1>4, <1>7 DEF Blamed, ForGood
    <2>3. JobInv(bad, now, Allowance) BY <1>3, <2>1, <2>2 DEF JobInv
    <2> QED BY <1>0, <1>1, <1>5, <1>7, <2>3, OneJob DEF PathInv
  <1> QED BY <1>6, <1>7

(* A job that fails with a refusal for good or with an outage. *)
LEMMA FailKeeps ==
  ASSUME PathInv, NEW m \in Jobs, NEW e \in Errors, Fail(m, e), UNCHANGED <<now, caching>>,
         WorldType', CacheInv', job[m].stage \in {"lifted", "verified", "allowed", "ran"},
         \/ ~job[m].token.amr
         \/ e \in {"unavailable", "rate_limited", "auth", "api", "own"}
  PROVE  PathInv'
  <1> DEFINE j == [job[m] EXCEPT !.stage = "failed", !.err = e]
  <1>0. JobInv(job[m], now, Allowance) /\ job[m] \in JobRecord /\ job \in [Jobs -> JobRecord]
    BY DEF PathInv, JobInv, JobsType
  <1>1. job' = [job EXCEPT ![m] = j] BY <1>0 DEF Fail
  <1>2. /\ j \in JobRecord /\ j.stage = "failed" /\ j.err = e
        /\ j.token = job[m].token /\ j.reply = job[m].reply
    BY <1>0 DEF JobRecord, Stages
  <1> HIDE DEF j
  <1>3. Underway(j) /\ Cleared(j, Allowance) /\ Advised(j)
    BY <1>0, <1>2 DEF JobInv, Underway, Cleared, Advised
  <1>4. Blamed(j, now) BY <1>2 DEF Blamed, ForGood, Retryable
  <1>5. JobInv(j, now, Allowance) BY <1>2, <1>3, <1>4 DEF JobInv
  <1> QED BY <1>1, <1>5, OneJob DEF PathInv

(* An answer that Anubis gave no longer ago than the client goes by. *)
LEMMA AnsweredKeeps ==
  ASSUME PathInv, NEW m \in Jobs, NEW d \in Answers, NEW age \in 0..MaxTime, Answered(m, d, age),
         age <= Allowance, UNCHANGED <<now, caching>>, WorldType', CacheInv',
         job[m].stage = "verified", job[m].token.amr
  PROVE  PathInv'
  <1> DEFINE s == IF Err(d) = "none" THEN "allowed" ELSE "failed"
             j == [job[m] EXCEPT !.answer = d, !.age = age, !.err = Err(d), !.stage = s]
  <1>0. JobInv(job[m], now, Allowance) /\ job[m] \in JobRecord /\ job \in [Jobs -> JobRecord]
    BY DEF PathInv, JobInv, JobsType
  <1>1. job' = [job EXCEPT ![m] = j] BY <1>0 DEF Answered
  <1>2. Err(d) \in Errors /\ (d = "allow" <=> Err(d) = "none")
    BY DEF Err, Answers, Errors, Refusals
  <1>3. s \in Stages BY DEF Stages
  <1>4. /\ j \in JobRecord /\ j.stage = s /\ j.err = Err(d) /\ j.answer = d /\ j.age = age
        /\ j.token = job[m].token /\ j.reply = job[m].reply /\ j.verifiedAt = job[m].verifiedAt
    BY <1>0, <1>2, <1>3 DEF JobRecord
  <1> HIDE DEF j
  <1>5. Underway(j) /\ Advised(j) BY <1>0, <1>4 DEF JobInv, Underway, Advised
  <1>6. Cleared(j, Allowance) BY <1>0, <1>2, <1>4 DEF JobInv, Cleared
  <1>7. Blamed(j, now) BY <1>0, <1>2, <1>4 DEF Blamed, ForGood, Answers
  <1>8. JobInv(j, now, Allowance) BY <1>4, <1>5, <1>6, <1>7 DEF JobInv
  <1> QED BY <1>1, <1>8, OneJob DEF PathInv

LEMMA AuthorizeKeeps ==
  ASSUME PathInv, NEW m \in Jobs, Authorize(m)
  PROVE  PathInv'
  <1>0. /\ job[m].stage = "verified" /\ UNCHANGED <<now, caching>>
        /\ decision \in Answers /\ anubis \in Weather /\ now \in 0..MaxTime
        /\ cached \in [answer: {"none", "allow", "deny"}, at: 0..MaxTime] /\ cached.at <= now
        /\ caching \in BOOLEAN
    BY DEF PathInv, WorldType, CacheInv, Authorize
  <1>a. cached' = cached \/ Put(decision) BY DEF Authorize
  <1>b. /\ cached' \in [answer: {"none", "allow", "deny"}, at: 0..MaxTime]
        /\ cached'.at <= now'
    BY <1>0, <1>a DEF Put, Answers
  <1>1. WorldType' /\ CacheInv'
    BY <1>b DEF PathInv, WorldType, CacheInv, Authorize
  <1>2. CASE ~job[m].token.amr /\ Fail(m, "step_up")
    BY <1>0, <1>1, <1>2, FailKeeps DEF Errors, Refusals
  <1>3. CASE job[m].token.amr /\ Hit /\ Answered(m, cached.answer, now - cached.at)
    <2>1. cached.answer \in Answers BY <1>0, <1>3 DEF Hit, Answers
    <2>2. now - cached.at \in 0..MaxTime /\ now - cached.at <= Allowance
      BY <1>0, <1>3, TimeAssumption DEF Hit, Allowance
    <2> QED BY <1>0, <1>1, <1>3, <2>1, <2>2, AnsweredKeeps
  <1>4. ASSUME NEW fault \in FaultsIn(anubis), Fail(m, do(fault)) PROVE PathInv'
    <2>1. do(fault) \in {"unavailable", "rate_limited", "auth", "api"} BY <1>0, DoErrors
    <2>2. do(fault) \in Errors BY <2>1 DEF Errors, Refusals, Outages
    <2> QED BY <1>0, <1>1, <1>4, <2>1, <2>2, FailKeeps
  <1>5. CASE job[m].token.amr /\ Answered(m, decision, 0)
    <2>1. 0 \in 0..MaxTime /\ 0 <= Allowance BY <1>0, TimeAssumption DEF Allowance
    <2> QED BY <1>0, <1>1, <1>5, <2>1, AnsweredKeeps
  <1> QED BY <1>2, <1>3, <1>4, <1>5 DEF Authorize

LEMMA ServiceFailsKeeps ==
  ASSUME PathInv, NEW m \in Jobs, ServiceFails(m)
  PROVE  PathInv'
  <1>1. WorldType' /\ CacheInv' /\ UNCHANGED <<now, caching>>
    BY DEF PathInv, WorldType, CacheInv, ServiceFails
  <1>2. Fail(m, "own") /\ "own" \in Errors /\ job[m].stage \in {"lifted", "verified", "allowed", "ran"}
    BY DEF ServiceFails, Errors, Refusals
  <1> QED BY <1>1, <1>2, FailKeeps

LEMMA EndpointKeeps ==
  ASSUME PathInv, NEW m \in Jobs, Endpoint(m) \/ publishAndAck(m)
  PROVE  PathInv'
  <1>0. /\ JobInv(job[m], now, Allowance) /\ job[m] \in JobRecord /\ job \in [Jobs -> JobRecord]
    BY DEF PathInv, JobInv, JobsType
  <1>1. WorldType' /\ CacheInv' /\ UNCHANGED <<now, caching>>
    BY DEF PathInv, WorldType, CacheInv, Endpoint, publishAndAck
  <1>2. CASE Endpoint(m)
    <2> DEFINE j == [job[m] EXCEPT !.stage = "ran"]
    <2>1. job' = [job EXCEPT ![m] = j] /\ job[m].stage = "allowed"
      BY <1>0, <1>2 DEF Endpoint, Advance
    <2>2. /\ j \in JobRecord /\ j.stage = "ran" /\ j.err = job[m].err /\ j.reply = job[m].reply
          /\ j.token = job[m].token /\ j.answer = job[m].answer /\ j.verifiedAt = job[m].verifiedAt
          /\ j.age = job[m].age
      BY <1>0 DEF JobRecord, Stages
    <2> HIDE DEF j
    <2>3. JobInv(j, now, Allowance)
      BY <1>0, <2>1, <2>2 DEF JobInv, Underway, Cleared, Blamed, Advised
    <2> QED BY <1>1, <2>1, <2>3, OneJob DEF PathInv
  <1>3. CASE publishAndAck(m)
    <2> DEFINE j == [job[m] EXCEPT !.stage = "settled", !.reply = "ok"]
    <2>1. job' = [job EXCEPT ![m] = j] /\ job[m].stage = "ran"
      BY <1>0, <1>3 DEF publishAndAck
    <2>2. /\ j \in JobRecord /\ j.stage = "settled" /\ j.err = job[m].err /\ j.reply = "ok"
      BY <1>0 DEF JobRecord, Stages, Replies
    <2> HIDE DEF j
    <2>3. JobInv(j, now, Allowance)
      BY <1>0, <2>1, <2>2 DEF JobInv, Underway, Cleared, Blamed, Advised, Retryable
    <2> QED BY <1>1, <2>1, <2>3, OneJob DEF PathInv
  <1> QED BY <1>2, <1>3

(* StatusCode and GRPCCode answer 429 or 503 exactly to what a queue would   *)
(* deliver again.                                                            *)
LEMMA CodesAgree ==
  ASSUME NEW err \in Errors
  PROVE  /\ StatusCode(err) \in Replies /\ GRPCCode(err) \in Replies
         /\ MiddlewareStatus(err) \in Replies
         /\ StatusCode(err) \in {"429", "503"} <=> Retryable(err)
         /\ GRPCCode(err) \in {"429", "503"} <=> Retryable(err)
         /\ Retryable(err) => MiddlewareStatus(err) = "503"
  BY DEF StatusCode, GRPCCode, MiddlewareStatus, Retryable, Replies

LEMMA ErrorEncoderKeeps ==
  ASSUME PathInv, NEW m \in Jobs, ErrorEncoder(m)
  PROVE  PathInv'
  <1> DEFINE a == CASE job[m].transport = "http" -> MiddlewareStatus(job[m].err)
                    [] job[m].transport = "kit" -> StatusCode(job[m].err)
                    [] job[m].transport = "grpc" -> GRPCCode(job[m].err)
             j == [job[m] EXCEPT !.stage = "settled", !.reply = a]
  <1>0. /\ JobInv(job[m], now, Allowance) /\ job[m] \in JobRecord /\ job \in [Jobs -> JobRecord]
        /\ job[m].err \in Errors /\ job[m].transport \in {"http", "kit", "grpc"}
    BY DEF PathInv, JobInv, JobsType, JobRecord, ErrorEncoder, Transports
  <1>1. WorldType' /\ CacheInv' /\ UNCHANGED <<now, caching>>
    BY DEF PathInv, WorldType, CacheInv, ErrorEncoder
  <1>2. job' = [job EXCEPT ![m] = j] BY <1>0 DEF ErrorEncoder
  <1>3. /\ a \in Replies
        /\ Retryable(job[m].err) => a \in {"429", "503"}
        /\ job[m].transport \in {"kit", "grpc"} /\ a \in {"429", "503"} => Retryable(job[m].err)
    <2>1. CASE job[m].transport = "http"
      <3>1. a = MiddlewareStatus(job[m].err) BY <2>1
      <3> QED BY <1>0, <2>1, <3>1, CodesAgree
    <2>2. CASE job[m].transport = "kit"
      <3>1. a = StatusCode(job[m].err) BY <2>2
      <3> QED BY <1>0, <3>1, CodesAgree
    <2>3. CASE job[m].transport = "grpc"
      <3>1. a = GRPCCode(job[m].err) BY <2>3
      <3> QED BY <1>0, <3>1, CodesAgree
    <2> QED BY <1>0, <2>1, <2>2, <2>3
  <1> HIDE DEF a
  <1>4. /\ j \in JobRecord /\ j.stage = "settled" /\ j.err = job[m].err /\ j.reply = a
        /\ j.transport = job[m].transport
    BY <1>0, <1>3 DEF JobRecord, Stages
  <1> HIDE DEF j
  <1>5. JobInv(j, now, Allowance)
    BY <1>3, <1>4 DEF JobInv, Underway, Cleared, Blamed, Advised
  <1> QED BY <1>1, <1>2, <1>5, OneJob DEF PathInv

LEMMA NackErrorEncoderKeeps ==
  ASSUME PathInv, NEW m \in Jobs, NackErrorEncoder(m)
  PROVE  PathInv'
  <1> DEFINE again == [job[m] EXCEPT !.stage = "queued", !.err = "none", !.verifiedAt = 0]
             dead == [job[m] EXCEPT !.stage = "dead"]
  <1>0. /\ JobInv(job[m], now, Allowance) /\ job[m] \in JobRecord /\ job \in [Jobs -> JobRecord]
        /\ job[m].stage = "failed"
    BY DEF PathInv, JobInv, JobsType, NackErrorEncoder
  <1>1. WorldType' /\ CacheInv' /\ UNCHANGED <<now, caching>>
    BY DEF PathInv, WorldType, CacheInv, NackErrorEncoder
  <1>2. job' = [job EXCEPT ![m] = IF Retryable(job[m].err) THEN again ELSE dead]
    BY <1>0 DEF NackErrorEncoder
  <1>3. again \in JobRecord /\ dead \in JobRecord
    <2>1. 0 \in 0..MaxTime BY TimeAssumption
    <2>2. "none" \in Errors /\ "queued" \in Stages /\ "dead" \in Stages BY DEF Errors, Stages
    <2> QED BY <1>0, <2>1, <2>2 DEF JobRecord
  <1>4. /\ again.stage = "queued" /\ again.err = "none" /\ again.reply = job[m].reply
        /\ dead.stage = "dead" /\ dead.err = job[m].err /\ dead.reply = job[m].reply
        /\ dead.token = job[m].token /\ dead.answer = job[m].answer
    BY <1>0 DEF JobRecord
  <1> HIDE DEF again, dead
  <1>5. JobInv(again, now, Allowance)
    BY <1>0, <1>3, <1>4 DEF JobInv, Underway, Cleared, Blamed, Advised
  <1>6. ASSUME ~Retryable(job[m].err) PROVE JobInv(dead, now, Allowance)
    BY <1>0, <1>3, <1>4, <1>6 DEF JobInv, Underway, Cleared, Blamed, Advised, ForGood
  <1>7. CASE Retryable(job[m].err) BY <1>1, <1>2, <1>5, <1>7, OneJob DEF PathInv
  <1>8. CASE ~Retryable(job[m].err) BY <1>1, <1>2, <1>6, <1>8, OneJob DEF PathInv
  <1> QED BY <1>7, <1>8

-----------------------------------------------------------------------------
(* The world's steps. *)

LEMMA CrashKeeps ==
  ASSUME PathInv, Crash
  PROVE  PathInv'
  <1>1. WorldType' /\ CacheInv' /\ UNCHANGED <<now, caching>>
    <2>1. /\ crashes \in 0..MaxCrashes /\ crashes < MaxCrashes /\ crashes' = crashes + 1
          /\ keys' = "empty" /\ cached' = NoEntry
          /\ UNCHANGED <<now, anubis, decision, keySource, caching>>
      BY DEF PathInv, WorldType, Crash
    <2>2. crashes' \in 0..MaxCrashes BY <2>1, TimeAssumption
    <2>3. NoEntry \in [answer: {"none", "allow", "deny"}, at: 0..MaxTime] /\ NoEntry.at <= now
      BY TimeAssumption DEF NoEntry, PathInv, WorldType
    <2> QED BY <2>1, <2>2, <2>3 DEF PathInv, WorldType, CacheInv
  <1> DEFINE again(m) == [job[m] EXCEPT !.stage = "queued", !.err = "none", !.verifiedAt = 0,
                                        !.answer = "none", !.age = 0]
             gone(m) == [job[m] EXCEPT !.stage = "settled"]
  <1>2. ASSUME NEW m \in Jobs PROVE JobInv(job'[m], now, Allowance)
    <2>0. JobInv(job[m], now, Allowance) /\ job[m] \in JobRecord BY DEF PathInv, JobInv
    <2>1. CASE job[m].stage \in {"absent", "queued", "settled", "dead"}
      <3>1. job'[m] = job[m] BY <2>1 DEF Crash
      <3> QED BY <2>0, <3>1
    <2>2. CASE job[m].stage \notin {"absent", "queued", "settled", "dead"} /\ job[m].transport = "amqp"
      <3>1. job'[m] = again(m) BY <2>2 DEF Crash
      <3>2. again(m) \in JobRecord
        <4>1. 0 \in 0..MaxTime BY TimeAssumption
        <4>2. "none" \in Errors /\ "queued" \in Stages BY DEF Errors, Stages
        <4>3. "none" \in Answers \cup {"none"} OBVIOUS
        <4> QED BY <2>0, <4>1, <4>2, <4>3 DEF JobRecord
      <3>3. again(m).stage = "queued" /\ again(m).err = "none" /\ again(m).reply = job[m].reply
        BY <2>0 DEF JobRecord
      <3> HIDE DEF again
      <3>4. JobInv(again(m), now, Allowance)
        BY <2>0, <2>2, <3>2, <3>3 DEF JobInv, Underway, Cleared, Blamed, Advised
      <3> QED BY <3>1, <3>4
    <2>3. CASE job[m].stage \notin {"absent", "queued", "settled", "dead"} /\ job[m].transport # "amqp"
      <3>1. job'[m] = gone(m) BY <2>3 DEF Crash
      <3>2. gone(m) \in JobRecord BY <2>0 DEF JobRecord, Stages
      <3>3. gone(m).stage = "settled" /\ gone(m).reply = job[m].reply BY <2>0 DEF JobRecord
      <3> HIDE DEF gone
      <3>4. JobInv(gone(m), now, Allowance)
        BY <2>0, <2>3, <3>2, <3>3 DEF JobInv, Underway, Cleared, Blamed, Advised
      <3> QED BY <3>1, <3>4
    <2> QED BY <2>1, <2>2, <2>3
  <1>3. JobsType'
    <2>1. \A m \in Jobs : job'[m] \in JobRecord BY <1>2 DEF JobInv
    <2>2. job' = [m \in Jobs |-> job'[m]] BY DEF Crash
    <2> QED BY <2>1, <2>2 DEF JobsType
  <1>4. Allowance' = Allowance BY <1>1 DEF Allowance
  <1> QED BY <1>1, <1>2, <1>3, <1>4 DEF PathInv

LEMMA WorldKeeps ==
  ASSUME PathInv, World
  PROVE  PathInv'
  <1>1. CASE Tick
    <2>1. WorldType' /\ now' = now + 1 /\ now' \in 0..MaxTime /\ now \in 0..MaxTime
      BY <1>1, TimeAssumption DEF PathInv, WorldType, Tick
    <2>2. job' = job /\ cached' = cached /\ Allowance' = Allowance BY <1>1 DEF Tick, Allowance
    <2>a. CacheInv' BY <2>1, <2>2 DEF PathInv, WorldType, CacheInv
    <2>3. \A m \in Jobs : job[m] \in JobRecord /\ JobInv(job[m], now, Allowance) BY DEF PathInv, JobInv
    <2>4. \A m \in Jobs : JobInv(job[m], now + 1, Allowance) BY <2>1, <2>3, TimePasses
    <2>5. \A m \in Jobs : JobInv(job'[m], now', Allowance') BY <2>1, <2>2, <2>4
    <2> QED BY <2>1, <2>2, <2>a, <2>5 DEF PathInv, JobsType
  <1>2. CASE Crash BY <1>2, CrashKeeps
  <1>3. CASE (\E s \in Weather : AnubisTurns(s)) \/ \E d \in Answers : GrantsChange(d)
    BY <1>3 DEF AnubisTurns, GrantsChange, PathInv, WorldType, CacheInv, JobsType, Allowance
  <1>a. CASE AskedElsewhere
    <2>1. /\ cached' \in [answer: {"none", "allow", "deny"}, at: 0..MaxTime] /\ cached'.at <= now
          /\ UNCHANGED <<now, anubis, decision, keySource, keys, caching, crashes, job>>
      BY <1>a DEF AskedElsewhere, Put, Answers, PathInv, WorldType, CacheInv
    <2> QED BY <2>1 DEF PathInv, WorldType, CacheInv, JobsType, Allowance
  <1>4. ASSUME NEW m \in Jobs, NEW transport \in Transports, NEW token \in Tokens,
               Publish(m, transport, token)
        PROVE  PathInv'
    <2> DEFINE j == [NoJob EXCEPT !.transport = transport, !.token = token, !.stage = "queued"]
    <2>1. job' = [job EXCEPT ![m] = j] /\ UNCHANGED <<now, caching>> BY <1>4 DEF Publish
    <2>2. WorldType' /\ CacheInv' /\ now \in 0..MaxTime
      BY <1>4 DEF Publish, PathInv, WorldType, CacheInv
    <2>3. JobInv(j, now, Allowance) BY <2>2, NoJobFacts
    <2> HIDE DEF j
    <2> QED BY <2>1, <2>2, <2>3, OneJob DEF PathInv
  <1> QED BY <1>1, <1>2, <1>3, <1>a, <1>4 DEF World

LEMMA PathInvNext == PathInv /\ [Next]_vars => PathInv'
  <1> SUFFICES ASSUME PathInv, [Next]_vars PROVE PathInv' OBVIOUS
  <1>1. CASE World BY <1>1, WorldKeeps
  <1>2. ASSUME NEW m \in Jobs, WorkerStep(m) PROVE PathInv'
    BY <1>2, ToContextKeeps, AuthenticateKeeps, AuthorizeKeeps, EndpointKeeps, ServiceFailsKeeps,
       ErrorEncoderKeeps, NackErrorEncoderKeeps DEF WorkerStep
  <1>3. CASE UNCHANGED pathVars BY <1>3 DEF pathVars, PathInv, WorldType, CacheInv, JobsType, Allowance
  <1> QED BY <1>1, <1>2, <1>3 DEF Next, vars

LEMMA PathInvHolds == Spec => []PathInv
  BY PathInvInit, PathInvNext, PTL DEF Spec

(* Whatever crashes, is delivered again or changes its mind in between, an   *)
(* endpoint runs only for a token that was good when it was verified and a   *)
(* caller Anubis allowed, at most the time to live of a cached decision      *)
(* before it was asked (anubiskit.go:88-92,143-148, authz.go:150-176).       *)
THEOREM OnlyAllowedCallersAreServed == Spec => []OnlyAllowedCallersServed
  <1>1. PathInv => OnlyAllowedCallersServed
    BY DEF PathInv, JobInv, Cleared, OnlyAllowedCallersServed
  <1> QED BY <1>1, PathInvHolds, PTL

(* Every failure has a class; a dead letter was refused for good or met one  *)
(* of the two outages the SDK does not type; and a caller is told to come    *)
(* back when a queue would deliver again, over go-kit only then              *)
(* (errors.go:244-283, amqp.go:74-106, StatusCode, GRPCCode, Requires).      *)
THEOREM FailuresAreAlwaysTold == Spec => []FailuresAreTold
  <1>1. PathInv /\ ManyInv => FailuresAreTold
    <2> SUFFICES ASSUME PathInv, ManyInv PROVE FailuresAreTold OBVIOUS
    <2>1. TypeOK BY TypeParts DEF PathInv, ManyInv
    <2>2. NoWorkLostToOutage
      BY DEF PathInv, JobInv, Blamed, ForGood, RefusedForGood, NoWorkLostToOutage
    <2>3. RetryAdviceAgrees BY DEF PathInv, JobInv, Advised, RetryAdviceAgrees
    <2> QED BY <2>1, <2>2, <2>3 DEF FailuresAreTold
  <1> QED BY <1>1, PathInvHolds, ManyInvHolds, PTL
=============================================================================
