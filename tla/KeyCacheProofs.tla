--------------------------- MODULE KeyCacheProofs ---------------------------
(***************************************************************************)
(* Proofs about KeyCache, for every set of goroutines, kids and documents, *)
(* every choice of the intervals and every bound on the clock.             *)
(***************************************************************************)
EXTENDS KeyCache, TLAPS

WaitsForSomebody == \A c \in Callers : pc[c] = "wait" => on[c] # Nobody

LEMMA AnyKidIsAKid == AnyKid \in Kids
  BY DistinctAssumption DEF AnyKid

LEMMA ReturnFacts ==
    /\ NoReturn \in [err : Errors, refetch : Errors, age : Int]
    /\ \A e, f \in Errors, n \in Int :
          [err |-> e, refetch |-> f, age |-> n]
              \in [err : Errors, refetch : Errors, age : Int]
  BY DEF NoReturn, Errors

(* What an action leaves alone keeps its type. *)
LEMMA Untouched ==
    ASSUME TypeOK
    PROVE  /\ UNCHANGED cache => CacheType'
           /\ UNCHANGED <<pc, kid, now, err, on, got>> => CallsType'
           /\ UNCHANGED <<world, since, ret>> => WorldType'
           /\ UNCHANGED <<had, panicked>> => FlagsType'
           /\ UNCHANGED <<pc, on>> => WaitsForSomebody'
  <1>1. UNCHANGED cache => CacheType' BY DEF TypeOK, CacheType, cache
  <1>2. UNCHANGED <<pc, kid, now, err, on, got>> => CallsType'
    BY DEF TypeOK, CallsType
  <1>3. UNCHANGED <<world, since, ret>> => WorldType'
    BY DEF TypeOK, WorldType, world
  <1>4. UNCHANGED <<had, panicked>> => FlagsType' BY DEF TypeOK, FlagsType
  <1>5. UNCHANGED <<pc, on>> => WaitsForSomebody'
    BY DEF TypeOK, WaitsForSomebody
  <1> QED BY <1>1, <1>2, <1>3, <1>4, <1>5

(* The end of a call. *)
LEMMA ReturnType ==
    ASSUME TypeOK, NEW c \in Callers, NEW e \in Errors, Return(c, e),
           UNCHANGED <<on, cache, fetch, world, panicked>>
    PROVE  TypeOK'
  <1>0. CallsType /\ WorldType /\ FlagsType /\ WaitsForSomebody
    BY DEF TypeOK, WaitsForSomebody
  <1>1. CacheType' BY Untouched
  <1>2. CallsType'
    BY <1>0, AnyKidIsAKid DEF CallsType, Return, Steps, Errors, fetch
  <1>3. WorldType'
    <2>1. /\ err[c] \in Errors
          /\ now[c] - LastPublished(kid[c]) \in Int
      BY <1>0 DEF CallsType, WorldType, LastPublished
    <2>2. ret' \in [err : Errors, refetch : Errors, age : Int]
      BY <2>1, ReturnFacts DEF Return
    <2> QED BY <1>0, <2>2 DEF WorldType, world, fetch
  <1>4. FlagsType' BY <1>0 DEF FlagsType, Return
  <1>5. WaitsForSomebody' BY <1>0 DEF CallsType, WaitsForSomebody, Return
  <1> QED BY <1>1, <1>2, <1>3, <1>4, <1>5 DEF TypeOK, WaitsForSomebody

(* Every variable of the key cache keeps its type, and a waiting call waits  *)
(* for somebody's channel (keys/key_cache.go:107).                           *)
THEOREM TypeCorrect == Spec => []TypeOK
  <1> USE IntervalsAssumption
  <1>1. Init => TypeOK
    <2> SUFFICES ASSUME Init PROVE TypeOK
      OBVIOUS
    <2>1. CacheType BY DEF Init, CacheType, Errors
    <2>2. CallsType BY AnyKidIsAKid DEF Init, CallsType, Steps, Errors
    <2>3. WorldType BY ReturnFacts DEF Init, WorldType
    <2>4. FlagsType BY DEF Init, FlagsType
    <2>5. WaitsForSomebody BY DEF Init, WaitsForSomebody
    <2> QED BY <2>1, <2>2, <2>3, <2>4, <2>5 DEF TypeOK, WaitsForSomebody
  <1>2. TypeOK /\ [Next]_vars => TypeOK'
    <2> SUFFICES ASSUME TypeOK, [Next]_vars PROVE TypeOK'
      OBVIOUS
    <2>0. CacheType /\ CallsType /\ WorldType /\ FlagsType /\ WaitsForSomebody
      BY DEF TypeOK, WaitsForSomebody
    <2>a. ASSUME CacheType', CallsType', WorldType', FlagsType', WaitsForSomebody'
          PROVE  TypeOK'
      BY <2>a DEF TypeOK, WaitsForSomebody
    <2>1. ASSUME NEW c \in Callers, NEW k \in Kids, Call(c, k) PROVE TypeOK'
      <3>1. CallsType'
        BY <2>0, <2>1 DEF CallsType, WorldType, Call, Steps, fetch
      <3>2. WaitsForSomebody'
        BY <2>0, <2>1 DEF CallsType, WaitsForSomebody, Call
      <3> QED BY <2>a, <2>1, <3>1, <3>2, Untouched DEF Call, fetch
    <2>2. ASSUME NEW c \in Callers, GetHot(c) PROVE TypeOK'
      BY <2>2, ReturnType DEF GetHot, Errors
    <2>3. ASSUME NEW c \in Callers, GetCold(c) PROVE TypeOK'
      <3>1. CallsType' BY <2>0, <2>3 DEF CallsType, GetCold, Steps, fetch
      <3>2. FlagsType' BY <2>0, <2>3 DEF FlagsType, GetCold
      <3>3. WaitsForSomebody'
        BY <2>0, <2>3 DEF CallsType, WaitsForSomebody, GetCold
      <3> QED BY <2>a, <2>3, <3>1, <3>2, <3>3, Untouched DEF GetCold, fetch
    <2>4. ASSUME NEW c \in Callers, Resume(c) PROVE TypeOK'
      <3>1. PICK e \in Errors : Return(c, e)
        BY <2>0, <2>4 DEF CallsType, Resume, Errors
      <3> QED BY <2>4, <3>1, ReturnType DEF Resume
    <2>5. ASSUME NEW c \in Callers, NEW e \in Errors, Refetched(c, e)
          PROVE  TypeOK'
      <3>1. CallsType'
        BY <2>0, <2>5 DEF CallsType, Refetched, Steps, args, fetch
      <3>2. WaitsForSomebody'
        BY <2>0, <2>5 DEF CallsType, WaitsForSomebody, Refetched
      <3> QED BY <2>a, <2>5, <3>1, <3>2, Untouched DEF Refetched, args, fetch
    <2>6. ASSUME NEW c \in Callers,
                 WaitDone(c) \/ WaitCancelled(c) \/ RefetchThrottled(c)
          PROVE  TypeOK'
      <3>1. PICK e \in Errors : Refetched(c, e)
        BY <2>0, <2>6 DEF CacheType, WaitDone, WaitCancelled, RefetchThrottled,
                          Errors
      <3> QED BY <2>5, <3>1
    <2>7. ASSUME NEW c \in Callers, RefetchJoin(c) PROVE TypeOK'
      <3>1. CallsType'
        BY <2>0, <2>7 DEF CacheType, CallsType, RefetchJoin, Steps, args, fetch
      <3>2. WaitsForSomebody'
        BY <2>0, <2>7 DEF CallsType, WaitsForSomebody, RefetchJoin
      <3> QED BY <2>a, <2>7, <3>1, <3>2, Untouched DEF RefetchJoin, args, fetch
    <2>8. ASSUME NEW c \in Callers, RefetchStart(c) PROVE TypeOK'
      <3>1. CacheType' BY <2>0, <2>8 DEF CacheType, RefetchStart
      <3>2. CallsType' BY <2>0, <2>8 DEF CallsType, RefetchStart, Steps, args
      <3>3. WorldType' BY <2>0, <2>8 DEF WorldType, RefetchStart, world
      <3>4. WaitsForSomebody'
        BY <2>0, <2>8 DEF CallsType, WaitsForSomebody, RefetchStart
      <3> QED BY <2>a, <2>8, <3>1, <3>2, <3>3, <3>4, Untouched DEF RefetchStart, args
    <2>9. ASSUME NEW c \in Callers, FetchRead(c) PROVE TypeOK'
      <3>1. CallsType'
        BY <2>0, <2>9 DEF CallsType, WorldType, FetchRead, Steps, args
      <3>2. WaitsForSomebody'
        BY <2>0, <2>9 DEF CallsType, WaitsForSomebody, FetchRead
      <3> QED BY <2>a, <2>9, <3>1, <3>2, Untouched DEF FetchRead, args
    <2>10. ASSUME NEW c \in Callers, FetchCommit(c) PROVE TypeOK'
      <3>1. CacheType'
        BY <2>0, <2>10 DEF CacheType, CallsType, FetchCommit, Errors
      <3>2. CallsType' BY <2>0, <2>10 DEF CallsType, FetchCommit, Steps, args, fetch
      <3>3. WaitsForSomebody'
        BY <2>0, <2>10 DEF CallsType, WaitsForSomebody, FetchCommit
      <3> QED BY <2>a, <2>10, <3>1, <3>2, <3>3, Untouched DEF FetchCommit, args, fetch
    <2>11. ASSUME NEW c \in Callers, FetchFail(c) PROVE TypeOK'
      <3>1. CacheType'
        BY <2>0, <2>11 DEF CacheType, CallsType, FetchFail, Errors
      <3>2. CallsType'
        BY <2>0, <2>11 DEF CallsType, FetchFail, Steps, Errors, args, fetch
      <3>3. WaitsForSomebody'
        BY <2>0, <2>11 DEF CallsType, WaitsForSomebody, FetchFail
      <3> QED BY <2>a, <2>11, <3>1, <3>2, <3>3, Untouched DEF FetchFail, args, fetch
    <2>12. ASSUME NEW c \in Callers, FetchPanic(c) PROVE TypeOK'
      <3>1. CallsType' BY <2>0, <2>12 DEF CallsType, FetchPanic, Steps, args, fetch
      <3>2. FlagsType' BY <2>0, <2>12 DEF FlagsType, FetchPanic, args
      <3>3. WaitsForSomebody'
        BY <2>0, <2>12 DEF CallsType, WaitsForSomebody, FetchPanic
      <3> QED BY <2>a, <2>12, <3>1, <3>2, <3>3, Untouched DEF FetchPanic, args, fetch
    <2>13. ASSUME NEW c \in Callers, Release(c) PROVE TypeOK'
      <3>1. CacheType' BY <2>0, <2>13 DEF CacheType, Release
      <3>2. CallsType' BY <2>0, <2>13 DEF CallsType, Release, Steps, args
      <3>3. WorldType' BY <2>0, <2>13 DEF WorldType, Release, world
      <3>4. WaitsForSomebody'
        BY <2>0, <2>13 DEF CallsType, WaitsForSomebody, Release
      <3> QED BY <2>a, <2>13, <3>1, <3>2, <3>3, <3>4, Untouched DEF Release, args
    <2>14. ASSUME NEW d \in Documents, Publish(d) PROVE TypeOK'
      <3>1. WorldType' BY <2>0, <2>14 DEF WorldType, Publish, fetch
      <3> QED BY <2>a, <2>14, <3>1, Untouched DEF Publish, args, fetch
    <2>15. CASE Tick
      <3>1. WorldType' BY <2>0, <2>15 DEF WorldType, Tick, fetch
      <3> QED BY <2>a, <2>15, <3>1, Untouched DEF Tick, args, fetch
    <2>16. CASE UNCHANGED vars
      BY <2>a, <2>16, Untouched DEF vars, args, fetch
    <2> QED
      BY <2>1, <2>2, <2>3, <2>4, <2>6, <2>7, <2>8, <2>9, <2>10, <2>11, <2>12,
         <2>13, <2>14, <2>15, <2>16 DEF Next, GetAt
  <1> QED BY <1>1, <1>2, PTL DEF Spec

----------------------------------------------------------------------------
(* The slot. *)

LEMMA SingleFetchInit == Init => SingleFetch
  BY DEF Init, SingleFetch, Fetching

LEMMA SingleFetchStep ==
    ASSUME TypeOK, SingleFetch, [Next]_vars
    PROVE  SingleFetch'
  <1>0. /\ pc \in [Callers -> Steps]
        /\ inflight \in Callers \cup {Nobody} /\ Nobody \notin Callers
    BY DistinctAssumption DEF TypeOK, CallsType, CacheType
  <1>1. ASSUME NEW c \in Callers, ~Fetching(c), ~Fetching(c)', inflight' = inflight,
               \A d \in Callers : d # c => pc'[d] = pc[d]
        PROVE  SingleFetch'
    BY <1>0, <1>1 DEF SingleFetch, Fetching
  <1>2. ASSUME NEW c \in Callers, Fetching(c), Fetching(c)', inflight' = inflight,
               \A d \in Callers : d # c => pc'[d] = pc[d]
        PROVE  SingleFetch'
    BY <1>0, <1>2 DEF SingleFetch, Fetching
  <1>3. ASSUME NEW c \in Callers, NEW k \in Kids, Call(c, k) PROVE SingleFetch'
    BY <1>0, <1>1, <1>3 DEF Call, Fetching, cache
  <1>4. ASSUME NEW c \in Callers, GetHot(c) \/ GetCold(c) \/ Resume(c)
        PROVE  SingleFetch'
    BY <1>0, <1>1, <1>4 DEF GetHot, GetCold, Resume, Return, Fetching, cache
  <1>5. ASSUME NEW c \in Callers,
               \/ RefetchJoin(c) \/ WaitDone(c) \/ WaitCancelled(c)
               \/ RefetchThrottled(c)
        PROVE  SingleFetch'
    BY <1>0, <1>1, <1>5
    DEF RefetchJoin, WaitDone, WaitCancelled, RefetchThrottled, Refetched,
        Fetching, cache
  <1>6. ASSUME NEW c \in Callers, RefetchStart(c) PROVE SingleFetch'
    BY <1>0, <1>6 DEF SingleFetch, Fetching, RefetchStart
  <1>7. ASSUME NEW c \in Callers,
               FetchRead(c) \/ FetchCommit(c) \/ FetchFail(c) \/ FetchPanic(c)
        PROVE  SingleFetch'
    BY <1>0, <1>2, <1>7
    DEF FetchRead, FetchCommit, FetchFail, FetchPanic, Fetching, cache
  <1>8. ASSUME NEW c \in Callers, Release(c) PROVE SingleFetch'
    <2>1. ~Fetching(c)' BY <1>8 DEF Release, Fetching
    <2>2. ASSUME NEW d \in Callers, d # c PROVE ~Fetching(d)'
      BY <1>0, <1>8, <2>2 DEF SingleFetch, Fetching, Release
    <2>3. inflight' = Nobody BY <1>8 DEF Release
    <2> QED BY <2>1, <2>2, <2>3 DEF SingleFetch
  <1>9. ASSUME NEW d \in Documents, Publish(d) PROVE SingleFetch'
    BY <1>9 DEF SingleFetch, Fetching, Publish, cache
  <1>10. CASE Tick BY <1>10 DEF SingleFetch, Fetching, Tick, cache
  <1>11. CASE UNCHANGED vars BY <1>11 DEF SingleFetch, Fetching, vars, cache
  <1> QED
    BY <1>3, <1>4, <1>5, <1>6, <1>7, <1>8, <1>9, <1>10, <1>11 DEF Next, GetAt

(* At most one fetch is in flight, under every interleaving, and the slot is *)
(* given back however the fetch ends (keys/key_cache.go:103-152).            *)
THEOREM FetchesAreSingleFlight == Spec => []SingleFetch
  BY TypeCorrect, SingleFetchInit, SingleFetchStep, PTL DEF Spec

----------------------------------------------------------------------------
(* The clocks of the cache.  A fetch may commit only the instant its call    *)
(* began with, so it must be known, from taking the slot to the commit, that *)
(* this instant is not before nextFetch, nor nextFetch before lastFetch.     *)

ClockInv ==
    /\ lastFetch <= nextFetch
    /\ \A c \in Callers : pc[c] \in {"get", "read"} => now[c] >= nextFetch

LEMMA ClockInit == Init => ClockInv
  BY DEF Init, ClockInv

LEMMA ClockStep ==
    ASSUME TypeOK, SingleFetch, ClockInv, [Next]_vars
    PROVE  /\ ClockInv'
           /\ lastFetch' >= lastFetch /\ nextFetch' >= nextFetch
  <1> DEFINE Forward == lastFetch' >= lastFetch /\ nextFetch' >= nextFetch
  <1> USE IntervalsAssumption
  <1>0. /\ pc \in [Callers -> Steps] /\ now \in [Callers -> Nat]
        /\ lastFetch \in Nat /\ nextFetch \in Nat
    BY DEF TypeOK, CallsType, CacheType
  <1>1. ASSUME NEW c \in Callers, pc'[c] \in {"get", "read"} => pc[c] = "get",
               UNCHANGED <<lastFetch, nextFetch>>,
               \A d \in Callers : d # c => pc'[d] = pc[d] \/ pc'[d] = "woken",
               \A d \in Callers : now'[d] = now[d] \/ pc'[d] \in {"idle", "begin"}
        PROVE  ClockInv' /\ Forward
    BY <1>0, <1>1 DEF ClockInv
  <1>2. ASSUME NEW c \in Callers, NEW k \in Kids, Call(c, k)
        PROVE  ClockInv' /\ Forward
    BY <1>0, <1>1, <1>2 DEF Call, cache
  <1>3. ASSUME NEW c \in Callers, GetHot(c) \/ GetCold(c) \/ Resume(c)
        PROVE  ClockInv' /\ Forward
    BY <1>0, <1>1, <1>3 DEF GetHot, GetCold, Resume, Return, cache
  <1>4. ASSUME NEW c \in Callers,
               \/ RefetchJoin(c) \/ WaitDone(c) \/ WaitCancelled(c)
               \/ RefetchThrottled(c)
        PROVE  ClockInv' /\ Forward
    BY <1>0, <1>1, <1>4
    DEF RefetchJoin, WaitDone, WaitCancelled, RefetchThrottled, Refetched,
        cache, args
  <1>5. ASSUME NEW c \in Callers, RefetchStart(c) PROVE ClockInv' /\ Forward
    BY <1>0, <1>5 DEF ClockInv, RefetchStart, args
  <1>6. ASSUME NEW c \in Callers, FetchRead(c) \/ FetchPanic(c)
        PROVE  ClockInv' /\ Forward
    BY <1>0, <1>1, <1>6 DEF FetchRead, FetchPanic, cache, args
  <1>7. ASSUME NEW c \in Callers, FetchCommit(c) \/ FetchFail(c)
        PROVE  ClockInv' /\ Forward
    <2>1. now[c] >= nextFetch /\ now[c] \in Nat
      BY <1>0, <1>7 DEF ClockInv, FetchCommit, FetchFail
    <2>2. \A d \in Callers : pc'[d] \notin {"get", "read"}
      BY <1>0, <1>7 DEF SingleFetch, Fetching, FetchCommit, FetchFail
    <2>3. nextFetch' > now[c] /\ nextFetch' \in Nat /\ lastFetch' \in {lastFetch, now[c]}
      BY <1>7, <2>1 DEF FetchCommit, FetchFail
    <2> QED BY <1>0, <2>1, <2>2, <2>3 DEF ClockInv
  <1>8. ASSUME NEW c \in Callers, Release(c) PROVE ClockInv' /\ Forward
    BY <1>0, <1>1, <1>8 DEF Release, args
  <1>9. ASSUME NEW d \in Documents, Publish(d) PROVE ClockInv' /\ Forward
    BY <1>0, <1>9 DEF ClockInv, Publish, cache, args
  <1>10. CASE Tick BY <1>0, <1>10 DEF ClockInv, Tick, cache, args
  <1>11. CASE UNCHANGED vars BY <1>0, <1>11 DEF ClockInv, vars, cache, args
  <1> QED
    BY <1>2, <1>3, <1>4, <1>5, <1>6, <1>7, <1>8, <1>9, <1>10, <1>11
    DEF Next, GetAt

(* Neither lastFetch nor nextFetch ever runs backwards, whichever call gets   *)
(* the slot and however long ago it began (keys/key_cache.go:121-148).        *)
THEOREM ClocksOnlyAdvance == Spec => ClocksAdvance
  <1>1. Spec => []ClockInv
    BY TypeCorrect, FetchesAreSingleFlight, ClockInit, ClockStep, PTL DEF Spec
  <1>2. TypeOK /\ SingleFetch /\ ClockInv /\ [Next]_vars
          => [lastFetch' >= lastFetch /\ nextFetch' >= nextFetch]_vars
    BY ClockStep
  <1> QED
    BY <1>1, <1>2, TypeCorrect, FetchesAreSingleFlight, PTL
    DEF Spec, ClocksAdvance

----------------------------------------------------------------------------
(* The age of the document.  A call commits the instant it began with, which *)
(* is not after the moment the endpoint answered it, and a key read in that  *)
(* answer has been published at least until then.                            *)

PastInv == /\ \A k \in Kids : withdrawn[k] <= clock
           /\ \A c \in Callers : now[c] <= clock
ReadInv == \A c \in Callers, k \in Kids :
               pc[c] = "read" /\ Lists(got[c], k) => LastPublished(k) >= now[c]
DocInv  == PastInv /\ ReadInv /\ DocumentAsOfLastFetch

(* The issuer only moves forward: when a key was last published never recedes. *)
LEMMA LastPublishedGrows ==
    ASSUME TypeOK, PastInv, [Next]_vars
    PROVE  \A k \in Kids : /\ LastPublished(k) \in Int /\ LastPublished(k)' \in Int
                          /\ LastPublished(k)' >= LastPublished(k)
                          /\ withdrawn'[k] <= clock'
  <1>0. WorldType BY DEF TypeOK
  <1>1. CASE UNCHANGED world
    BY <1>0, <1>1 DEF world, WorldType, LastPublished, PastInv
  <1>2. ASSUME NEW doc \in Documents, Publish(doc)
        PROVE  \A k \in Kids :
                   /\ LastPublished(k) \in Int /\ LastPublished(k)' \in Int
                   /\ LastPublished(k)' >= LastPublished(k)
                   /\ withdrawn'[k] <= clock'
    BY <1>0, <1>2 DEF Publish, WorldType, LastPublished, PastInv
  <1>3. CASE Tick
    BY <1>0, <1>3 DEF Tick, WorldType, LastPublished, PastInv
  <1>4. UNCHANGED world \/ Tick \/ \E doc \in Documents : Publish(doc)
    BY DEF Next, GetAt, Call, GetHot, GetCold, Resume, RefetchJoin, WaitDone,
           WaitCancelled, RefetchThrottled, Refetched, RefetchStart, FetchRead,
           FetchCommit, FetchFail, FetchPanic, Release, vars
  <1> QED BY <1>1, <1>2, <1>3, <1>4

LEMMA DocStep ==
    ASSUME TypeOK, TypeOK', DocInv, [Next]_vars
    PROVE  DocInv'
  <1>0. /\ CacheType /\ CallsType /\ WorldType
        /\ PastInv /\ ReadInv /\ DocumentAsOfLastFetch
    BY DEF TypeOK, DocInv
  <1>1. \A k \in Kids : /\ LastPublished(k) \in Int /\ LastPublished(k)' \in Int
                       /\ LastPublished(k)' >= LastPublished(k)
                       /\ withdrawn'[k] <= clock'
    BY <1>0, LastPublishedGrows
  <1>2. PastInv'
    <2>1. clock' >= clock /\ clock \in Nat /\ clock' \in Nat
      BY <1>0 DEF TypeOK, WorldType, Next, GetAt, Call, GetHot, GetCold, Resume,
           RefetchJoin, WaitDone, WaitCancelled, RefetchThrottled, Refetched,
           RefetchStart, FetchRead, FetchCommit, FetchFail, FetchPanic, Release,
           Publish, Tick, vars, world
    <2>2. \A c \in Callers : now'[c] \in {now[c], clock, 0}
      BY <1>0 DEF CallsType, Next, GetAt, Call, GetHot, GetCold, Resume, Return,
           RefetchJoin, WaitDone, WaitCancelled, RefetchThrottled, Refetched,
           RefetchStart, FetchRead, FetchCommit, FetchFail, FetchPanic, Release,
           Publish, Tick, vars, args
    <2> QED BY <1>0, <1>1, <2>1, <2>2 DEF PastInv, CallsType
  <1>3. ReadInv'
    <2> SUFFICES ASSUME NEW c \in Callers, NEW k \in Kids,
                        pc'[c] = "read", Lists(got'[c], k)
                 PROVE  LastPublished(k)' >= now'[c]
      BY DEF ReadInv
    <2>1. CASE FetchRead(c)
      <3>1. /\ got'[c] = upstream /\ now'[c] = now[c] /\ now[c] \in Nat
            /\ now[c] <= clock
        BY <1>0, <2>1 DEF FetchRead, CallsType, PastInv, args
      <3>2. LastPublished(k) = clock BY <3>1 DEF LastPublished
      <3> QED BY <1>0, <1>1, <3>1, <3>2 DEF WorldType
    <2>2. CASE pc[c] = "read" /\ UNCHANGED <<got[c], now[c]>>
      <3>1. LastPublished(k) >= now[c] /\ now[c] \in Nat
        BY <1>0, <2>2 DEF ReadInv, CallsType
      <3> QED BY <1>1, <2>2, <3>1
    <2>3. FetchRead(c) \/ (pc[c] = "read" /\ UNCHANGED <<got[c], now[c]>>)
      BY <1>0 DEF CallsType, Next, GetAt, Call, GetHot, GetCold, Resume, Return,
           RefetchJoin, WaitDone, WaitCancelled, RefetchThrottled, Refetched,
           RefetchStart, FetchRead, FetchCommit, FetchFail, FetchPanic, Release,
           Publish, Tick, vars, args, fetch
    <2> QED BY <2>1, <2>2, <2>3
  <1>4. DocumentAsOfLastFetch'
    <2> SUFFICES ASSUME set' # NoDoc, NEW k \in Kids, Lists(set', k)
                 PROVE  LastPublished(k)' >= lastFetch'
      BY DEF DocumentAsOfLastFetch
    <2>1. ASSUME NEW c \in Callers, FetchCommit(c)
          PROVE  LastPublished(k)' >= lastFetch'
      <3>1. Lists(got[c], k) /\ pc[c] = "read" /\ lastFetch' = now[c]
        BY <2>1 DEF FetchCommit
      <3>2. LastPublished(k) >= now[c] /\ now[c] \in Nat
        BY <1>0, <3>1 DEF ReadInv, CallsType
      <3> QED BY <1>1, <3>1, <3>2
    <2>2. CASE UNCHANGED <<set, lastFetch>>
      <3>1. LastPublished(k) >= lastFetch /\ lastFetch \in Nat
        BY <1>0, <2>2 DEF DocumentAsOfLastFetch, CacheType
      <3> QED BY <1>1, <2>2, <3>1
    <2>3. UNCHANGED <<set, lastFetch>> \/ \E c \in Callers : FetchCommit(c)
      BY DEF Next, GetAt, Call, GetHot, GetCold, Resume, RefetchJoin, WaitDone,
           WaitCancelled, RefetchThrottled, Refetched, RefetchStart, FetchRead,
           FetchFail, FetchPanic, Release, Publish, Tick, vars, cache
    <2> QED BY <2>1, <2>2, <2>3
  <1> QED BY <1>2, <1>3, <1>4 DEF DocInv

LEMMA DocInvariant == Spec => []DocInv
  <1>1. Init => DocInv
    BY DEF Init, DocInv, PastInv, ReadInv, DocumentAsOfLastFetch
  <1> QED BY <1>1, DocStep, TypeCorrect, PTL DEF Spec

(* Every key of the document held was still published at lastFetch or later,  *)
(* so that the age the hot path computes never flatters it                    *)
(* (keys/key_cache.go:76, :145).                                              *)
THEOREM DocumentNeverFlattered == Spec => []DocumentAsOfLastFetch
  <1>1. DocInv => DocumentAsOfLastFetch BY DEF DocInv
  <1> QED BY <1>1, DocInvariant, PTL

----------------------------------------------------------------------------
(* How stale an accepted key may be.  lastFetch does not tell: a call may     *)
(* take the slot long after the instant it commits.  What tells is since: a   *)
(* document is read while the slot is held, and no call that is under way by  *)
(* its release began later than FetchTimeout after the slot was taken.        *)

(* Every key of the document held was still published at n, now and after the *)
(* step.                                                                      *)
Vouched(n)     == \A k \in Kids :
                     set # NoDoc /\ Lists(set, k) => LastPublished(k) >= n
VouchedNext(n) == \A k \in Kids :
                     set' # NoDoc /\ Lists(set', k) => LastPublished(k)' >= n

SlotInv   == inflight # Nobody => since <= clock /\ clock <= since + FetchTimeout
BudgetInv == lastErr = "nil" => nextFetch <= lastFetch + MinRefetch
HeldInv   == set # NoDoc => Acceptable(set)
FetchInv(c) ==
    /\ pc[c] = "read" => \A k \in Kids : Lists(got[c], k) => LastPublished(k) >= since
    /\ pc[c] = "release" /\ err[c] = "nil" => lastErr = "nil"
    /\ pc[c] = "release" /\ lastErr = "nil" => Vouched(since)
    /\ pc[c] = "unwind" => panicked
AnswerInv(c) ==
    /\ pc[c] = "woken" /\ lastErr = "nil" /\ ~panicked
          => Vouched(now[c] - StalenessBound)
    /\ pc[c] = "resume" /\ err[c] = "nil" /\ ~panicked
          => Vouched(now[c] - StalenessBound)
StaleInv == /\ SlotInv /\ BudgetInv /\ HeldInv
            /\ \A c \in Callers : FetchInv(c) /\ AnswerInv(c)

LEMMA BoundFacts ==
    /\ StalenessBound \in Nat
    /\ TTL <= StalenessBound /\ MinRefetch <= StalenessBound
    /\ FetchTimeout <= StalenessBound
  <1> DEFINE S == {TTL, MinRefetch, FetchTimeout}
  <1>1. \E m \in S : \A n \in S : n <= m  BY IntervalsAssumption
  <1>2. StalenessBound \in S /\ \A n \in S : n <= StalenessBound
    BY <1>1 DEF StalenessBound, Oldest
  <1> QED  BY <1>2, IntervalsAssumption

(* A document that stays stays vouched for. *)
LEMMA VouchedKept ==
    ASSUME TypeOK, PastInv, [Next]_vars, set' = set
    PROVE  \A n \in Int : Vouched(n) => VouchedNext(n)
  <1>1. \A k \in Kids : /\ LastPublished(k) \in Int /\ LastPublished(k)' \in Int
                       /\ LastPublished(k)' >= LastPublished(k)
    BY LastPublishedGrows
  <1> QED  BY <1>1 DEF Vouched, VouchedNext

(* A step of nobody's fetch. *)
LEMMA QuietStep ==
    ASSUME TypeOK, TypeOK', DocInv, StaleInv, [Next]_vars,
           UNCHANGED <<cache, since, got, panicked>>,
           inflight # Nobody => clock' \in {clock, clock + 1} /\ clock' <= since + FetchTimeout,
           \A c \in Callers : pc'[c] \in {"read", "release", "unwind"}
                                 => pc[c] = pc'[c] /\ err'[c] = err[c],
           \A c \in Callers : pc'[c] = "woken" => pc[c] = "woken" /\ now'[c] = now[c],
           \A c \in Callers :
               pc'[c] = "resume" =>
                   /\ now'[c] = now[c]
                   /\ \/ pc[c] = "resume" /\ err'[c] = err[c]
                      \/ err'[c] = "nil" /\ ~panicked => Vouched(now[c] - StalenessBound)
    PROVE  StaleInv'
  <1>0. /\ set' = set /\ lastFetch' = lastFetch /\ nextFetch' = nextFetch
        /\ lastErr' = lastErr /\ inflight' = inflight
        /\ since' = since /\ got' = got /\ panicked' = panicked
    BY DEF cache
  <1>1. /\ clock \in Nat /\ since \in Nat /\ now \in [Callers -> Nat]
    BY DEF TypeOK, WorldType, CallsType
  <1>2. \A n \in Int : Vouched(n) => VouchedNext(n)
    BY <1>0, VouchedKept DEF DocInv
  <1>3. \A k \in Kids : /\ LastPublished(k) \in Int /\ LastPublished(k)' \in Int
                       /\ LastPublished(k)' >= LastPublished(k)
    BY LastPublishedGrows DEF DocInv
  <1>4. SlotInv'  BY <1>0, <1>1, IntervalsAssumption DEF SlotInv, StaleInv
  <1>5. BudgetInv' /\ HeldInv'  BY <1>0 DEF StaleInv, BudgetInv, HeldInv
  <1>6. ASSUME NEW c \in Callers PROVE FetchInv(c)'
    <2>0. FetchInv(c)  BY DEF StaleInv
    <2>1. ASSUME pc'[c] = "read", NEW k \in Kids, Lists(got'[c], k)
          PROVE  LastPublished(k)' >= since'
      BY <1>0, <1>1, <1>3, <2>0, <2>1 DEF FetchInv
    <2>2. pc'[c] = "release" /\ err'[c] = "nil" => lastErr' = "nil"
      BY <1>0, <2>0 DEF FetchInv
    <2>3. pc'[c] = "release" /\ lastErr' = "nil" => VouchedNext(since)
      BY <1>0, <1>1, <1>2, <2>0 DEF FetchInv
    <2>4. VouchedNext(since) => Vouched(since)'  BY <1>0 DEF Vouched, VouchedNext
    <2>5. pc'[c] = "unwind" => panicked'  BY <1>0, <2>0 DEF FetchInv
    <2> QED  BY <2>1, <2>2, <2>3, <2>4, <2>5 DEF FetchInv
  <1>7. ASSUME NEW c \in Callers PROVE AnswerInv(c)'
    <2>0. AnswerInv(c) /\ now[c] - StalenessBound \in Int
      BY <1>1, BoundFacts DEF StaleInv
    <2>1. now'[c] = now[c] /\ VouchedNext(now[c] - StalenessBound)
             => Vouched(now[c] - StalenessBound)'
      BY DEF Vouched, VouchedNext
    <2>2. pc'[c] = "woken" /\ lastErr' = "nil" /\ ~panicked'
             => Vouched(now[c] - StalenessBound)'
      BY <1>0, <1>2, <2>0, <2>1 DEF AnswerInv
    <2>3. pc'[c] = "resume" /\ err'[c] = "nil" /\ ~panicked'
             => Vouched(now[c] - StalenessBound)'
      BY <1>0, <1>2, <2>0, <2>1 DEF AnswerInv
    <2> QED  BY <2>2, <2>3 DEF AnswerInv
  <1> QED  BY <1>4, <1>5, <1>6, <1>7 DEF StaleInv

LEMMA StaleStep ==
    ASSUME TypeOK, TypeOK', SingleFetch, SingleFetch', DocInv, StaleInv, [Next]_vars
    PROVE  StaleInv'
  <1>0. /\ pc \in [Callers -> Steps] /\ now \in [Callers -> Nat]
        /\ err \in [Callers -> Errors] /\ got \in [Callers -> Documents \cup {NoDoc}]
        /\ lastFetch \in Nat /\ nextFetch \in Nat /\ lastErr \in Errors
        /\ clock \in Nat /\ since \in Nat
        /\ inflight \in Callers \cup {Nobody}
    BY DEF TypeOK, CallsType, CacheType, WorldType
  <1>1. /\ StalenessBound \in Nat
        /\ TTL <= StalenessBound /\ MinRefetch <= StalenessBound
        /\ FetchTimeout <= StalenessBound
    BY BoundFacts
  <1>2. SlotInv /\ BudgetInv /\ HeldInv /\ \A c \in Callers : FetchInv(c) /\ AnswerInv(c)
    BY DEF StaleInv
  <1>3. \A k \in Kids : /\ LastPublished(k) \in Int /\ LastPublished(k)' \in Int
                       /\ LastPublished(k)' >= LastPublished(k)
    BY LastPublishedGrows DEF DocInv
  <1>4. \A c \in Callers : now[c] <= clock  BY DEF DocInv, PastInv
  <1>5. ASSUME NEW c \in Callers, NEW k \in Kids, Call(c, k)  PROVE StaleInv'
    BY <1>0, <1>2, <1>5, QuietStep DEF Call, cache, fetch, world, SlotInv
  <1>6. ASSUME NEW c \in Callers, GetHot(c) \/ GetCold(c) \/ Resume(c)  PROVE StaleInv'
    BY <1>0, <1>2, <1>6, QuietStep DEF GetHot, GetCold, Resume, Return, cache, fetch, world, SlotInv
  <1>7. ASSUME NEW c \in Callers, RefetchJoin(c)  PROVE StaleInv'
    BY <1>0, <1>2, <1>7, QuietStep DEF RefetchJoin, cache, fetch, world, args, SlotInv
  <1>8. ASSUME NEW c \in Callers, NEW e, Refetched(c, e),
               e = "nil" /\ ~panicked => Vouched(now[c] - StalenessBound)
        PROVE  StaleInv'
    BY <1>0, <1>2, <1>8, QuietStep DEF Refetched, cache, fetch, world, args, SlotInv
  <1>9. ASSUME NEW c \in Callers, WaitDone(c)  PROVE StaleInv'
    BY <1>2, <1>8, <1>9 DEF WaitDone, AnswerInv
  <1>10. ASSUME NEW c \in Callers, WaitCancelled(c)  PROVE StaleInv'
    BY <1>8, <1>10 DEF WaitCancelled
  <1>11. ASSUME NEW c \in Callers, RefetchThrottled(c)  PROVE StaleInv'
    <2>1. lastErr = "nil" => now[c] - StalenessBound <= lastFetch
      BY <1>0, <1>1, <1>2, <1>11, IntervalsAssumption DEF RefetchThrottled, BudgetInv
    <2>2. now[c] - StalenessBound \in Int  BY <1>0, <1>1
    <2>3. DocumentAsOfLastFetch  BY DEF DocInv
    <2>4. lastErr = "nil" => Vouched(now[c] - StalenessBound)
      BY <1>0, <1>3, <2>1, <2>2, <2>3 DEF Vouched, DocumentAsOfLastFetch
    <2> QED  BY <1>8, <1>11, <2>4 DEF RefetchThrottled
  <1>12. ASSUME NEW d \in Documents, Publish(d)  PROVE StaleInv'
    BY <1>0, <1>2, <1>12, QuietStep DEF Publish, cache, fetch, args, SlotInv
  <1>13. CASE Tick
    BY <1>0, <1>2, <1>13, QuietStep, IntervalsAssumption DEF Tick, cache, fetch, args, SlotInv
  <1>14. CASE UNCHANGED vars
    BY <1>0, <1>2, <1>14, QuietStep DEF vars, cache, fetch, args, world, SlotInv
  <1>15. ASSUME NEW c \in Callers, Fetching(c)
         PROVE  /\ inflight = c /\ c # Nobody
                /\ \A d \in Callers : d # c => pc[d] \notin {"get", "read", "release", "unwind"}
    BY <1>15, DistinctAssumption DEF SingleFetch, Fetching
  <1>16. ASSUME NEW c \in Callers, RefetchStart(c)  PROVE StaleInv'
    <2>1. /\ set' = set /\ lastFetch' = lastFetch /\ nextFetch' = nextFetch
          /\ lastErr' = lastErr /\ panicked' = panicked /\ clock' = clock
          /\ since' = clock /\ now' = now /\ err' = err
          /\ pc' = [pc EXCEPT ![c] = "get"]
      BY <1>16 DEF RefetchStart, args, world
    <2>2. SlotInv'  BY <1>0, <2>1, IntervalsAssumption DEF SlotInv
    <2>3. BudgetInv' /\ HeldInv'  BY <1>2, <2>1 DEF BudgetInv, HeldInv
    <2>4. \A d \in Callers : pc'[d] \notin {"read", "release", "unwind"}
      BY <1>0, <1>16, <2>1 DEF SingleFetch, Fetching, RefetchStart
    <2>5. \A d \in Callers : FetchInv(d)'  BY <2>4 DEF FetchInv
    <2>6. \A d \in Callers : AnswerInv(d)'
      <3> TAKE d \in Callers
      <3>1. pc'[d] \in {"woken", "resume"} => pc'[d] = pc[d]  BY <1>0, <2>1
      <3>2. now[d] - StalenessBound \in Int  BY <1>0, <1>1
      <3>3. Vouched(now[d] - StalenessBound) => VouchedNext(now[d] - StalenessBound)
        BY <2>1, <3>2, VouchedKept DEF DocInv
      <3>4. VouchedNext(now[d] - StalenessBound) => Vouched(now[d] - StalenessBound)'
        BY <2>1 DEF Vouched, VouchedNext
      <3> QED  BY <1>2, <2>1, <3>1, <3>3, <3>4 DEF AnswerInv
    <2> QED  BY <2>2, <2>3, <2>5, <2>6 DEF StaleInv
  (* A step of a fetch that keeps the slot and the document. *)
  <1>17. ASSUME NEW c \in Callers, Fetching(c), pc'[c] \in {"read", "release", "unwind"},
                UNCHANGED <<set, lastFetch, inflight, since, now, clock>>,
                \A d \in Callers : d # c => pc'[d] = pc[d] /\ err'[d] = err[d],
                UNCHANGED <<lastErr, nextFetch>> \/ lastErr' # "nil",
                panicked => panicked',
                FetchInv(c)'
         PROVE  StaleInv'
    <2>1. SlotInv'  BY <1>2, <1>17 DEF SlotInv
    <2>2. BudgetInv' /\ HeldInv'  BY <1>2, <1>17 DEF BudgetInv, HeldInv
    <2>3. ASSUME NEW d \in Callers  PROVE FetchInv(d)'
      <3>1. CASE d # c
        <4>1. pc'[d] \notin {"read", "release", "unwind"}  BY <1>15, <1>17, <3>1
        <4> QED  BY <4>1 DEF FetchInv
      <3> QED  BY <1>17, <3>1
    <2>4. ASSUME NEW d \in Callers  PROVE AnswerInv(d)'
      <3>1. pc'[d] \in {"woken", "resume"} => pc'[d] = pc[d] /\ err'[d] = err[d]
        BY <1>17
      <3>2. now[d] - StalenessBound \in Int  BY <1>0, <1>1
      <3>3. Vouched(now[d] - StalenessBound) => VouchedNext(now[d] - StalenessBound)
        BY <1>17, <3>2, VouchedKept DEF DocInv
      <3>4. VouchedNext(now[d] - StalenessBound) => Vouched(now[d] - StalenessBound)'
        BY <1>17 DEF Vouched, VouchedNext
      <3> QED  BY <1>2, <1>17, <3>1, <3>3, <3>4 DEF AnswerInv
    <2> QED  BY <2>1, <2>2, <2>3, <2>4 DEF StaleInv
  <1>18. ASSUME NEW c \in Callers, FetchRead(c)  PROVE StaleInv'
    <2>1. /\ Fetching(c) /\ pc'[c] = "read" /\ got'[c] = upstream
          /\ UNCHANGED <<set, lastFetch, inflight, since, now, clock, lastErr, nextFetch,
                         panicked, err>>
          /\ \A d \in Callers : d # c => pc'[d] = pc[d]
      BY <1>0, <1>18 DEF FetchRead, Fetching, cache, args, world
    <2>2. ASSUME NEW k \in Kids, Lists(got'[c], k)  PROVE LastPublished(k)' >= since'
      <3>1. LastPublished(k) = clock  BY <2>1, <2>2 DEF LastPublished
      <3>2. since <= clock  BY <1>2, <1>15, <2>1 DEF SlotInv
      <3> QED  BY <1>0, <1>3, <2>1, <3>1, <3>2
    <2>3. FetchInv(c)'  BY <2>1, <2>2 DEF FetchInv
    <2> QED  BY <1>17, <2>1, <2>3
  <1>19. ASSUME NEW c \in Callers, FetchFail(c)  PROVE StaleInv'
    <2>1. /\ Fetching(c) /\ pc'[c] = "release" /\ err'[c] = "fetch" /\ lastErr' = "fetch"
          /\ UNCHANGED <<set, lastFetch, inflight, since, now, clock, panicked>>
          /\ \A d \in Callers : d # c => pc'[d] = pc[d] /\ err'[d] = err[d]
      BY <1>0, <1>19 DEF FetchFail, Fetching, fetch, args, world
    <2>2. FetchInv(c)'  BY <2>1 DEF FetchInv
    <2> QED  BY <1>17, <2>1, <2>2
  <1>20. ASSUME NEW c \in Callers, FetchPanic(c)  PROVE StaleInv'
    <2>1. /\ Fetching(c) /\ pc'[c] = "unwind" /\ panicked'
          /\ UNCHANGED <<set, lastFetch, inflight, since, now, clock, lastErr, nextFetch, err>>
          /\ \A d \in Callers : d # c => pc'[d] = pc[d]
      BY <1>0, <1>20 DEF FetchPanic, Fetching, cache, fetch, args, world
    <2>2. FetchInv(c)'  BY <2>1 DEF FetchInv
    <2> QED  BY <1>17, <2>1, <2>2
  <1>21. ASSUME NEW c \in Callers, FetchCommit(c)  PROVE StaleInv'
    <2>1. /\ Fetching(c) /\ pc[c] = "read" /\ pc'[c] = "release"
          /\ set' = got[c] /\ Acceptable(got[c]) /\ lastErr' = "nil"
          /\ lastFetch' = now[c] /\ nextFetch' = now[c] + MinRefetch
          /\ UNCHANGED <<inflight, since, now, clock, panicked>>
          /\ \A d \in Callers : d # c => pc'[d] = pc[d]
      BY <1>0, <1>21 DEF FetchCommit, Fetching, fetch, args, world
    <2>2. SlotInv'  BY <1>2, <2>1 DEF SlotInv
    <2>3. BudgetInv' /\ HeldInv'
      BY <1>0, <2>1, IntervalsAssumption DEF BudgetInv, HeldInv
    <2>4. VouchedNext(since)
      <3> SUFFICES ASSUME NEW k \in Kids, Lists(set', k)  PROVE LastPublished(k)' >= since
        BY DEF VouchedNext
      <3>1. LastPublished(k) >= since  BY <1>2, <2>1 DEF FetchInv
      <3> QED  BY <1>0, <1>3, <3>1
    <2>5. Vouched(since)'  BY <2>1, <2>4 DEF Vouched, VouchedNext
    <2>6. \A d \in Callers : FetchInv(d)'
      <3> TAKE d \in Callers
      <3>1. CASE d = c  BY <2>1, <2>5, <3>1 DEF FetchInv
      <3>2. CASE d # c
        <4>1. pc'[d] \notin {"read", "release", "unwind"}  BY <1>15, <2>1, <3>2
        <4> QED  BY <4>1 DEF FetchInv
      <3> QED  BY <3>1, <3>2
    <2>7. ASSUME NEW d \in Callers  PROVE AnswerInv(d)'
      <3>1. now[d] - StalenessBound \in Int /\ now[d] - StalenessBound <= since
        BY <1>0, <1>1, <1>2, <1>4, <1>15, <2>1, IntervalsAssumption DEF SlotInv
      <3>2. Vouched(now[d] - StalenessBound)'
        BY <1>0, <1>3, <2>1, <2>4, <3>1 DEF Vouched, VouchedNext
      <3> QED  BY <3>2 DEF AnswerInv
    <2> QED  BY <2>2, <2>3, <2>6, <2>7 DEF StaleInv
  <1>22. ASSUME NEW c \in Callers, Release(c)  PROVE StaleInv'
    <2>1. /\ Fetching(c) /\ pc[c] \in {"release", "unwind"}
          /\ inflight' = Nobody
          /\ UNCHANGED <<set, lastFetch, nextFetch, lastErr, now, err, clock, panicked>>
          /\ pc'[c] = IF pc[c] = "release" THEN "resume" ELSE "idle"
          /\ \A d \in Callers : d # c => \/ pc'[d] = pc[d]
                                         \/ pc[d] = "wait" /\ pc'[d] = "woken"
      BY <1>0, <1>22 DEF Release, Fetching, args, world
    <2>2. SlotInv'  BY <2>1 DEF SlotInv
    <2>3. BudgetInv' /\ HeldInv'  BY <1>2, <2>1 DEF BudgetInv, HeldInv
    <2>4. \A d \in Callers : FetchInv(d)'
      <3>1. \A d \in Callers : pc'[d] \notin {"read", "release", "unwind"}
        BY <1>15, <2>1
      <3> QED  BY <3>1 DEF FetchInv
    <2>5. ASSUME NEW d \in Callers  PROVE AnswerInv(d)'
      <3>1. now[d] - StalenessBound \in Int /\ now[d] - StalenessBound <= since
        BY <1>0, <1>1, <1>2, <1>4, <1>15, <2>1, IntervalsAssumption DEF SlotInv
      <3>2. Vouched(since) => Vouched(now[d] - StalenessBound)
        BY <1>0, <1>3, <3>1 DEF Vouched
      <3>3. lastErr = "nil" /\ ~panicked => Vouched(since)
        BY <1>2, <2>1 DEF FetchInv
      <3>4. Vouched(now[d] - StalenessBound) => VouchedNext(now[d] - StalenessBound)
        BY <2>1, <3>1, VouchedKept DEF DocInv
      <3>5. VouchedNext(now[d] - StalenessBound) => Vouched(now[d] - StalenessBound)'
        BY <2>1 DEF Vouched, VouchedNext
      <3>6. d # c /\ pc'[d] = "resume" => pc[d] = "resume"  BY <2>1
      <3>7. d = c /\ pc'[d] = "resume" /\ err[d] = "nil" => lastErr = "nil"
        BY <1>2, <2>1 DEF FetchInv
      <3>8. /\ lastErr' = lastErr /\ err'[d] = err[d] /\ panicked' = panicked  BY <2>1
      <3>9. AnswerInv(d)  BY <1>2
      <3> QED  BY <3>2, <3>3, <3>4, <3>5, <3>6, <3>7, <3>8, <3>9 DEF AnswerInv
    <2> QED  BY <2>2, <2>3, <2>4, <2>5 DEF StaleInv
  <1> QED
    BY <1>5, <1>6, <1>7, <1>9, <1>10, <1>11, <1>12, <1>13, <1>14, <1>16, <1>18, <1>19,
       <1>20, <1>21, <1>22
    DEF Next, GetAt

(* Only the end of a call says what it accepted, and it says it of the        *)
(* document held then.                                                        *)
LEMMA ExpiryStep ==
    ASSUME TypeOK, DocInv, StaleInv, WithdrawnKeyExpires, [Next]_vars
    PROVE  WithdrawnKeyExpires'
  <1>0. /\ now \in [Callers -> Nat] /\ kid \in [Callers -> Kids]
        /\ lastFetch \in Nat /\ clock \in Nat /\ err \in [Callers -> Errors]
    BY DEF TypeOK, CallsType, CacheType, WorldType
  <1>1. /\ StalenessBound \in Nat /\ TTL <= StalenessBound
    BY BoundFacts
  <1>2. \A k \in Kids : LastPublished(k) \in Int
    BY LastPublishedGrows DEF DocInv
  <1>3. ASSUME NEW c \in Callers, Holds(c)  PROVE set # NoDoc /\ Lists(set, kid[c])
    BY <1>3 DEF Holds, Trusts, Lists, StaleInv, HeldInv
  <1>4. ASSUME NEW c \in Callers, NEW e, Return(c, e), panicked' = panicked,
               e = "nil" => Holds(c),
               e = "nil" /\ err[c] = "nil" /\ ~panicked => Vouched(now[c] - StalenessBound)
        PROVE  WithdrawnKeyExpires'
    <2>1. /\ ret'.refetch = err[c]
          /\ ret'.age = IF e = "nil" THEN now[c] - LastPublished(kid[c]) ELSE 0
      BY <1>4 DEF Return
    <2>2. CASE e = "nil" /\ err[c] = "nil" /\ ~panicked
      <3>1. LastPublished(kid[c]) >= now[c] - StalenessBound
        BY <1>0, <1>3, <1>4, <2>2 DEF Vouched
      <3>2. ret'.age <= StalenessBound  BY <1>0, <1>1, <1>2, <2>1, <2>2, <3>1
      <3> QED  BY <3>2 DEF WithdrawnKeyExpires
    <2>3. CASE e # "nil"  BY <1>1, <2>1, <2>3 DEF WithdrawnKeyExpires
    <2>4. CASE err[c] # "nil" \/ panicked  BY <1>4, <2>1, <2>4 DEF WithdrawnKeyExpires
    <2> QED  BY <2>2, <2>3, <2>4
  <1>5. ASSUME NEW c \in Callers, GetHot(c)  PROVE WithdrawnKeyExpires'
    <2>1. now[c] - lastFetch < TTL /\ Holds(c)  BY <1>5 DEF GetHot, Hot
    <2>2. now[c] - StalenessBound \in Int /\ now[c] - StalenessBound <= lastFetch
      BY <1>0, <1>1, <2>1, IntervalsAssumption
    <2>3. Vouched(now[c] - StalenessBound)
      BY <1>0, <1>2, <2>2 DEF Vouched, DocInv, DocumentAsOfLastFetch
    <2> QED  BY <1>4, <1>5, <2>1, <2>3 DEF GetHot
  <1>6. ASSUME NEW c \in Callers, Resume(c)  PROVE WithdrawnKeyExpires'
    <2>1. err[c] = "nil" /\ ~panicked => Vouched(now[c] - StalenessBound)
      BY <1>6 DEF Resume, StaleInv, AnswerInv
    <2>2. panicked' = panicked  BY <1>6 DEF Resume
    <2>3. CASE err[c] # "nil" /\ ~had[c] /\ Return(c, err[c])  BY <1>4, <2>1, <2>2, <2>3
    <2>4. CASE Return(c, IF Holds(c) THEN "nil" ELSE "unknown_kid")
      BY <1>4, <2>1, <2>2, <2>4
    <2> QED  BY <1>6, <2>3, <2>4 DEF Resume
  <1>7. CASE ret' = ret /\ (panicked => panicked')
    <2>1. StalenessBound' = StalenessBound  OBVIOUS
    <2> QED  BY <1>7, <2>1 DEF WithdrawnKeyExpires
  <1>8. \/ \E c \in Callers : GetHot(c) \/ Resume(c)
        \/ ret' = ret /\ (panicked => panicked')
    BY DEF Next, GetAt, Call, GetCold, RefetchJoin, WaitDone, WaitCancelled,
           RefetchThrottled, Refetched, RefetchStart, FetchRead, FetchCommit, FetchFail,
           FetchPanic, Release, Publish, Tick, vars
  <1> QED  BY <1>5, <1>6, <1>7, <1>8

(* A lookup whose refetch reported no error never accepts a key that the       *)
(* issuer had withdrawn longer before the call than the greatest of the TTL,   *)
(* the refetch budget and the fetch timeout, however long calls wait for the   *)
(* lock and whichever fetch they join (GetAt, keys/key_cache.go:72-97).        *)
THEOREM WithdrawnKeysAlwaysExpire == Spec => []WithdrawnKeyExpires
  <1>1. Init => StaleInv
    BY IntervalsAssumption, DistinctAssumption
    DEF Init, StaleInv, SlotInv, BudgetInv, HeldInv, FetchInv, AnswerInv
  <1>2. Init => WithdrawnKeyExpires
    BY BoundFacts DEF Init, NoReturn, WithdrawnKeyExpires
  <1> QED
    BY <1>1, <1>2, StaleStep, ExpiryStep, TypeCorrect, FetchesAreSingleFlight,
       DocInvariant, PTL
    DEF Spec
=============================================================================
