----------------------------- MODULE KeyCache -----------------------------
(***************************************************************************)
(* The verifier's key cache (keys/key_cache.go): goroutines looking up kids *)
(* in one shared document, which is refetched single-flight when it is      *)
(* missing, stale or lacks the kid.  One action is one critical section of  *)
(* kc.mu or one step of the fetch that runs with no lock held.  Every call  *)
(* works with the instant it captured when it began, not with the time at   *)
(* which it gets the lock.                                                  *)
(***************************************************************************)
EXTENDS KeySet

CONSTANTS
    Callers,        \* goroutines that call GetAt
    Nobody,         \* not a caller
    Kids,           \* key ids that occur in tokens
    Documents,      \* keys documents the issuer may publish
    TTL, MinRefetch, MinRetry,  \* ttl(), minRefetch(), minRetry()
    FetchTimeout,   \* http.Client.Timeout: longest a fetch may hold the slot
    Faults,         \* how a fetch may fail, among "error" and "panic"
    MaxClock        \* bound: last instant

\* No document: kc.set is nil, or a fetch has read nothing yet.
NoDoc == [issuer |-> "none", keys |-> <<>>]

\* A zero or negative interval is replaced by a positive default.
ASSUME IntervalsAssumption ==
    {TTL, MinRefetch, MinRetry, FetchTimeout} \subseteq Nat \ {0}
ASSUME ClockAssumption == MaxClock \in Nat
ASSUME FaultsAssumption == Faults \subseteq {"error", "panic"}
ASSUME DistinctAssumption ==
    Nobody \notin Callers /\ NoDoc \notin Documents /\ Kids # {}

VARIABLES
    set,        \* kc.set, as the document it was parsed from
    lastFetch,  \* kc.lastFetch
    nextFetch,  \* kc.nextFetch
    lastErr,    \* kc.lastErr
    inflight,   \* kc.inflight: the caller whose channel it is
    pc,         \* pc[c]: where c is in GetAt
    kid, now,   \* the arguments of c's call
    had,        \* the call's first snapshot held a set
    err,        \* what refetch returns to the call
    on,         \* on[c]: whose channel c waits for
    got,        \* got[c]: the document c's fetch has read
    since,      \* when the slot was last taken
    ret,        \* what the last call to end returned
    upstream,   \* the document the issuer publishes
    withdrawn,  \* withdrawn[k]: when k last left that document, -1 if it never did
    clock,      \* the time
    panicked    \* some fetch has panicked

cache  == <<set, lastFetch, nextFetch, lastErr, inflight>>
args   == <<kid, now, had>>
fetch  == <<got, since>>
world  == <<upstream, withdrawn, clock>>
vars   == <<cache, pc, args, err, on, ret, fetch, world, panicked>>

Errors   == {"nil", "fetch", "ctx", "unknown_kid"}
Steps    == {"idle", "begin", "refetch", "wait", "woken", "get", "read",
             "release", "unwind", "resume"}
NoReturn == [err |-> "unknown_kid", refetch |-> "nil", age |-> 0]
AnyKid   == CHOOSE k \in Kids : TRUE

\* The issuer is publishing k; when k was last published.
Lists(doc, k)    == Acceptable(doc) /\ k \in DOMAIN ParseDocument(doc)
LastPublished(k) == IF Lists(upstream, k) THEN clock ELSE withdrawn[k]

Init ==
    /\ set = NoDoc /\ lastFetch = 0 /\ nextFetch = 0
    /\ lastErr = "nil" /\ inflight = Nobody
    /\ pc = [c \in Callers |-> "idle"]
    /\ kid = [c \in Callers |-> AnyKid]
    /\ now = [c \in Callers |-> 0]
    /\ had = [c \in Callers |-> FALSE]
    /\ err = [c \in Callers |-> "nil"]
    /\ on = [c \in Callers |-> Nobody]
    /\ ret = NoReturn
    /\ got = [c \in Callers |-> NoDoc]
    /\ since = 0
    /\ upstream \in Documents
    /\ withdrawn = [k \in Kids |-> -1]
    /\ clock = 0
    /\ panicked = FALSE

----------------------------------------------------------------------------
(* GetAt *)

\* Get captures the instant of the call.
Call(c, k) ==
    /\ pc[c] = "idle"
    /\ pc' = [pc EXCEPT ![c] = "begin"]
    /\ kid' = [kid EXCEPT ![c] = k]
    /\ now' = [now EXCEPT ![c] = clock]
    /\ UNCHANGED <<had, err, on, ret, cache, fetch, world, panicked>>

\* The call ends and its locals with it.  Recorded are what refetch told it and
\* how long before the call the key it returns had been withdrawn.
Return(c, e) ==
    /\ pc' = [pc EXCEPT ![c] = "idle"]
    /\ ret' = [err |-> e, refetch |-> err[c],
               age |-> IF e = "nil" THEN now[c] - LastPublished(kid[c]) ELSE 0]
    /\ kid' = [kid EXCEPT ![c] = AnyKid]
    /\ now' = [now EXCEPT ![c] = 0]
    /\ had' = [had EXCEPT ![c] = FALSE]
    /\ err' = [err EXCEPT ![c] = "nil"]

Holds(c) == set # NoDoc /\ Trusts(ParseDocument(set), kid[c], now[c])

Hot(c) == now[c] - lastFetch < TTL /\ Holds(c)

\* The first snapshot: a current document holding the kid answers at once.
GetHot(c) ==
    /\ pc[c] = "begin" /\ Hot(c)
    /\ Return(c, "nil")
    /\ UNCHANGED <<on, cache, fetch, world, panicked>>

GetCold(c) ==
    /\ pc[c] = "begin" /\ ~Hot(c)
    /\ pc' = [pc EXCEPT ![c] = "refetch"]
    /\ had' = [had EXCEPT ![c] = set # NoDoc]
    /\ UNCHANGED <<kid, now, err, on, ret, cache, fetch, world, panicked>>

\* refetch has returned: an error ends the call if the first snapshot held no
\* set, otherwise the second snapshot is consulted, stale or not.
Resume(c) ==
    /\ pc[c] = "resume"
    /\ \/ err[c] # "nil" /\ ~had[c] /\ Return(c, err[c])
       \/ /\ err[c] = "nil" \/ had[c]
          /\ Return(c, IF Holds(c) THEN "nil" ELSE "unknown_kid")
    /\ UNCHANGED <<on, cache, fetch, world, panicked>>

----------------------------------------------------------------------------
(* refetch *)

Refetched(c, e) ==
    /\ pc' = [pc EXCEPT ![c] = "resume"]
    /\ err' = [err EXCEPT ![c] = e]
    /\ on' = [on EXCEPT ![c] = Nobody]
    /\ UNCHANGED <<args, ret, cache, fetch, world, panicked>>

\* Mutant: waits without looking whether anything is in flight.
RefetchJoinBlindly(c) ==
    /\ pc[c] = "refetch"
    /\ pc' = [pc EXCEPT ![c] = "wait"]
    /\ on' = [on EXCEPT ![c] = inflight]
    /\ UNCHANGED <<args, err, ret, cache, fetch, world, panicked>>

\* A fetch is in flight: wait for its channel.
RefetchJoin(c) ==
    /\ pc[c] = "refetch" /\ inflight # Nobody
    /\ pc' = [pc EXCEPT ![c] = "wait"]
    /\ on' = [on EXCEPT ![c] = inflight]
    /\ UNCHANGED <<args, err, ret, cache, fetch, world, panicked>>

\* The channel is closed: report the error of the last fetch there was.
WaitDone(c) ==
    /\ pc[c] = "woken"
    /\ Refetched(c, lastErr)

\* The waiter's context ends.
WaitCancelled(c) ==
    /\ pc[c] \in {"wait", "woken"}
    /\ Refetched(c, "ctx")

\* The budget allows no fetch yet.
RefetchThrottled(c) ==
    /\ pc[c] = "refetch" /\ inflight = Nobody /\ now[c] < nextFetch
    /\ Refetched(c, lastErr)

\* Mutants: starts although a fetch is in flight; starts against the budget.
RefetchStartTwice(c) ==
    /\ pc[c] = "refetch" /\ now[c] >= nextFetch
    /\ inflight' = c
    /\ since' = clock
    /\ pc' = [pc EXCEPT ![c] = "get"]
    /\ UNCHANGED <<set, lastFetch, nextFetch, lastErr,
                   args, err, on, ret, got, world, panicked>>
RefetchStartUnbudgeted(c) ==
    /\ pc[c] = "refetch" /\ inflight = Nobody
    /\ inflight' = c
    /\ since' = clock
    /\ pc' = [pc EXCEPT ![c] = "get"]
    /\ UNCHANGED <<set, lastFetch, nextFetch, lastErr,
                   args, err, on, ret, got, world, panicked>>

\* Take the slot and send the request.
RefetchStart(c) ==
    /\ pc[c] = "refetch" /\ inflight = Nobody /\ now[c] >= nextFetch
    /\ inflight' = c
    /\ since' = clock
    /\ pc' = [pc EXCEPT ![c] = "get"]
    /\ UNCHANGED <<set, lastFetch, nextFetch, lastErr,
                   args, err, on, ret, got, world, panicked>>

\* The keys endpoint answers with what it publishes at that moment.
FetchRead(c) ==
    /\ pc[c] = "get"
    /\ got' = [got EXCEPT ![c] = upstream]
    /\ pc' = [pc EXCEPT ![c] = "read"]
    /\ UNCHANGED <<args, err, on, ret, since, cache, world, panicked>>

\* Mutant: stamps the document with the time at which it arrived.
FetchCommitLate(c) ==
    /\ pc[c] = "read" /\ Acceptable(got[c])
    /\ set' = got[c] /\ lastFetch' = clock
    /\ nextFetch' = clock + MinRefetch
    /\ lastErr' = "nil"
    /\ pc' = [pc EXCEPT ![c] = "release"]
    /\ UNCHANGED <<inflight, args, err, on, ret, fetch, world, panicked>>

\* The answer has arrived and parses: the new document is held and both clocks
\* are set, as of the instant of the call that fetched.
FetchCommit(c) ==
    /\ pc[c] = "read" /\ Acceptable(got[c])
    /\ set' = got[c] /\ lastFetch' = now[c]
    /\ nextFetch' = now[c] + MinRefetch
    /\ lastErr' = "nil"
    /\ pc' = [pc EXCEPT ![c] = "release"]
    /\ UNCHANGED <<inflight, args, err, on, ret, fetch, world, panicked>>

\* Mutant: a failed fetch renews the document held.
FetchFailRenews(c) ==
    /\ \/ pc[c] \in {"get", "read"} /\ "error" \in Faults
       \/ pc[c] = "read" /\ ~Acceptable(got[c])
    /\ lastErr' = "fetch"
    /\ lastFetch' = now[c]
    /\ nextFetch' = now[c] + MinRetry
    /\ err' = [err EXCEPT ![c] = "fetch"]
    /\ pc' = [pc EXCEPT ![c] = "release"]
    /\ UNCHANGED <<set, inflight, args, on, ret, fetch, world, panicked>>

\* The fetch fails, in transit or because the document is refused: the previous
\* document stays and the next attempt comes sooner.
FetchFail(c) ==
    /\ \/ pc[c] \in {"get", "read"} /\ "error" \in Faults
       \/ pc[c] = "read" /\ ~Acceptable(got[c])
    /\ lastErr' = "fetch"
    /\ nextFetch' = now[c] + MinRetry
    /\ err' = [err EXCEPT ![c] = "fetch"]
    /\ pc' = [pc EXCEPT ![c] = "release"]
    /\ UNCHANGED <<set, lastFetch, inflight, args, on, ret, fetch, world,
                   panicked>>

\* Mutant: the release is not deferred.
FetchPanicUnreleased(c) ==
    /\ "panic" \in Faults
    /\ pc[c] \in {"get", "read"}
    /\ panicked' = TRUE
    /\ pc' = [pc EXCEPT ![c] = "idle"]
    /\ UNCHANGED <<cache, args, err, on, ret, fetch, world>>

\* The fetch panics: nothing is recorded, but the deferred release still runs.
FetchPanic(c) ==
    /\ "panic" \in Faults
    /\ pc[c] \in {"get", "read"}
    /\ panicked' = TRUE
    /\ pc' = [pc EXCEPT ![c] = "unwind"]
    /\ UNCHANGED <<cache, args, err, on, ret, fetch, world>>

\* The deferred release: free the slot, close the channel, and return the
\* fetch's error or unwind with the panic.
Release(c) ==
    /\ pc[c] \in {"release", "unwind"}
    /\ inflight' = Nobody
    /\ pc' = [d \in Callers |->
                 IF d = c THEN IF pc[c] = "release" THEN "resume" ELSE "idle"
                 ELSE IF pc[d] = "wait" /\ on[d] = c THEN "woken"
                 ELSE pc[d]]
    /\ got' = [got EXCEPT ![c] = NoDoc]
    /\ since' = 0
    /\ UNCHANGED <<set, lastFetch, nextFetch, lastErr,
                   args, err, on, ret, world, panicked>>

----------------------------------------------------------------------------
(* The issuer and the clock. *)

\* The issuer publishes another document.
Publish(d) ==
    /\ d # upstream
    /\ upstream' = d
    /\ withdrawn' = [k \in Kids |-> IF Lists(upstream, k) /\ ~Lists(d, k)
                                    THEN clock ELSE withdrawn[k]]
    /\ UNCHANGED <<cache, pc, args, err, on, ret, fetch, clock, panicked>>

\* Time passes; a fetch is given up before it has held the slot longer than
\* FetchTimeout.
Tick ==
    /\ clock < MaxClock
    /\ inflight # Nobody => clock < since + FetchTimeout
    /\ clock' = clock + 1
    /\ UNCHANGED <<cache, pc, args, err, on, ret, fetch,
                   upstream, withdrawn, panicked>>

GetAt(c) ==
    \/ GetHot(c) \/ GetCold(c) \/ Resume(c)
    \/ RefetchJoin(c) \/ WaitDone(c) \/ WaitCancelled(c)
    \/ RefetchThrottled(c) \/ RefetchStart(c)
    \/ FetchRead(c) \/ FetchCommit(c) \/ FetchFail(c) \/ FetchPanic(c)
    \/ Release(c)

Next ==
    \/ \E c \in Callers : GetAt(c) \/ \E k \in Kids : Call(c, k)
    \/ \E d \in Documents : Publish(d)
    \/ Tick

Spec == Init /\ [][Next]_vars

(* Goroutines run, and the endpoint answers.  Nobody is obliged to call, no *)
(* context to end, no document to change and no fetch to fail.              *)
Fairness ==
    \A c \in Callers :
        /\ WF_vars(GetHot(c) \/ GetCold(c) \/ Resume(c))
        /\ WF_vars(RefetchJoin(c) \/ RefetchThrottled(c) \/ RefetchStart(c))
        /\ WF_vars(WaitDone(c))
        /\ WF_vars(FetchRead(c) \/ FetchCommit(c)
                     \/ (pc[c] = "read" /\ FetchFail(c)))
        /\ WF_vars(Release(c))

FairSpec == Spec /\ Fairness

----------------------------------------------------------------------------
(* Properties *)

CacheType ==
    /\ set \in Documents \cup {NoDoc}
    /\ lastFetch \in Nat /\ nextFetch \in Nat
    /\ lastErr \in Errors
    /\ inflight \in Callers \cup {Nobody}

CallsType ==
    /\ pc \in [Callers -> Steps]
    /\ kid \in [Callers -> Kids]
    /\ now \in [Callers -> Nat]
    /\ err \in [Callers -> Errors]
    /\ on \in [Callers -> Callers \cup {Nobody}]
    /\ got \in [Callers -> Documents \cup {NoDoc}]

WorldType ==
    /\ upstream \in Documents
    /\ withdrawn \in [Kids -> Int]
    /\ clock \in Nat /\ since \in Nat
    /\ ret \in [err : Errors, refetch : Errors, age : Int]

FlagsType == had \in [Callers -> BOOLEAN] /\ panicked \in BOOLEAN

\* Every variable has its type, and a waiting call waits for somebody's channel
\* (keys/key_cache.go:107).
TypeOK ==
    /\ CacheType /\ CallsType /\ WorldType /\ FlagsType
    /\ \A c \in Callers : pc[c] = "wait" => on[c] # Nobody

Fetching(c) == pc[c] \in {"get", "read", "release", "unwind"}

\* At most one fetch is in flight, and the slot is given back however the fetch
\* ends (keys/key_cache.go:103, :130).
SingleFetch ==
    /\ \A c \in Callers : Fetching(c) => inflight = c
    /\ inflight # Nobody => Fetching(inflight)

\* Neither clock of the cache runs backwards, although calls commit the instant
\* they began with and a slow call may begin long before it gets the lock
\* (keys/key_cache.go:145-148).
ClocksAdvance ==
    [][lastFetch' >= lastFetch /\ nextFetch' >= nextFetch]_vars

\* Every key of the document held was still published at lastFetch or later:
\* the age the hot path computes never flatters the document
\* (keys/key_cache.go:76, :145).
DocumentAsOfLastFetch ==
    set # NoDoc => \A k \in Kids : Lists(set, k) => LastPublished(k) >= lastFetch

Oldest(S) == CHOOSE m \in S : \A n \in S : n <= m
StalenessBound == Oldest({TTL, MinRefetch, FetchTimeout})

\* A call whose refetch reported no error never accepts a key that the issuer
\* had withdrawn longer than the staleness bound before the call began.  A
\* waiter may see a document as old as the fetch it joined, and a throttled call
\* one as old as the budget (GetAt, keys/key_cache.go:72).
WithdrawnKeyExpires ==
    ret.refetch = "nil" /\ ~panicked => ret.age <= StalenessBound

\* Every lookup gets past its waits: nobody is parked on a channel that nothing
\* closes, even when the fetch panics (keys/key_cache.go:130).
LookupReturns == \A c \in Callers : pc[c] # "idle" ~> pc[c] = "idle"

\* Documented at keys/key_cache.go:88 and docs/WIRE.md:254, "stale keys beat no
\* keys": a call ends with the error of a fetch only when the cache holds no
\* document with its key.
StaleKeysBeatNoKeys ==
    [][\A c \in Callers : Resume(c) /\ ret'.err = "fetch" => ~Holds(c)]_vars
=============================================================================
