------------------------- MODULE TokenSourceProofs -------------------------
(***************************************************************************)
(* Proofs about TokenSource, for every set of goroutines, every selection  *)
(* of failures and every bound on flights and lapses.                      *)
(***************************************************************************)
EXTENDS TokenSource, TLAPS

LEMMA PairFacts ==
    /\ NoTokens \in Pair /\ InitialTokens \subseteq Pair
    /\ \A m, n \in Nat : [access |-> m, refresh |-> n] \in Pair
    /\ \A p \in Pair : p.access \in Nat /\ p.refresh \in Nat
    /\ \A p \in Pair, n \in Nat : Adopted(p, n) \in Pair
  BY DEF Pair, NoTokens, InitialTokens, Adopted

LEMMA ResultFacts ==
    /\ NoResult \in Result
    /\ \A p \in Pair, e \in Errors : [tokens |-> p, err |-> e] \in Result
    /\ \A o \in Result : o.tokens \in Pair /\ o.err \in Errors
    /\ \A o \in Result : [o EXCEPT !.err = "persist"] \in Result
    /\ \A o \in Result : Published(o) \in Result
  BY PairFacts DEF Result, Errors, NoResult, Published

(* What an action leaves alone keeps its type. *)
LEMMA Untouched ==
    ASSUME TypeOK
    PROVE  /\ UNCHANGED source => SourceType'
           /\ UNCHANGED source => onRotate' \in BOOLEAN
           /\ UNCHANGED calls => CallsType'
           /\ UNCHANGED <<pc, on, flights>> => OnAFlight'
           /\ UNCHANGED server => ServerType'
           /\ UNCHANGED world => WorldType'
  <1>1. UNCHANGED source => SourceType' BY DEF TypeOK, SourceType, source
  <1>2. UNCHANGED source => onRotate' \in BOOLEAN BY DEF TypeOK, source
  <1>3. UNCHANGED calls => CallsType' BY DEF TypeOK, CallsType, calls
  <1>4. UNCHANGED <<pc, on, flights>> => OnAFlight' BY DEF TypeOK, OnAFlight
  <1>5. UNCHANGED server => ServerType' BY DEF TypeOK, ServerType, server
  <1>6. UNCHANGED world => WorldType' BY DEF TypeOK, WorldType, world
  <1> QED BY <1>1, <1>2, <1>3, <1>4, <1>5, <1>6

(* Returning from Token puts a goroutine back to idle, on no flight. *)
LEMMA ReturnType ==
    ASSUME TypeOK, NEW c \in Callers, NEW t \in Pair, NEW e \in Errors,
           Return(c, t, e), flights' = flights
    PROVE  CallsType' /\ OnAFlight'
  <1>1. CallsType'
    BY BoundsAssumption, ResultFacts DEF TypeOK, CallsType, Return, Steps
  <1>2. OnAFlight'
    BY DEF TypeOK, CallsType, OnAFlight, Return
  <1> QED BY <1>1, <1>2

(* The locked section of rotate. *)
LEMMA SettleType ==
    ASSUME TypeOK, NEW c \in Callers, pc[c] = "refresh",
           NEW next \in Pair, NEW e \in Errors, Settle(c, next, e)
    PROVE  SourceType' /\ CallsType' /\ OnAFlight' /\ onRotate' \in BOOLEAN
  <1>1. on[c] \in 1..flights /\ on[c] \in Flights /\ presented[on[c]] \in Nat
    BY BoundsAssumption DEF TypeOK, SourceType, OnAFlight, Flights
  <1>2. tokens' \in Pair
    BY <1>1, PairFacts DEF TypeOK, SourceType, Settle
  <1>3. outcome' \in [Flights -> Result]
    BY <1>1, <1>2, ResultFacts DEF TypeOK, SourceType, Settle
  <1>4. SourceType'
    BY <1>2, <1>3 DEF TypeOK, SourceType, Settle
  <1>5. CallsType'
    BY DEF TypeOK, CallsType, Settle, Steps
  <1>6. OnAFlight'
    BY DEF TypeOK, CallsType, OnAFlight, Settle
  <1>7. onRotate' \in BOOLEAN
    BY DEF TypeOK, Settle
  <1> QED BY <1>4, <1>5, <1>6, <1>7

(* Every variable of the token source keeps its type, and a goroutine inside *)
(* Token is always on a flight that exists (tokensource.go:95).              *)
THEOREM TypeCorrect == Spec => []TypeOK
  <1> USE BoundsAssumption
  <1>1. Init => TypeOK
    <2> SUFFICES ASSUME Init PROVE TypeOK
      OBVIOUS
    <2>1. SourceType BY PairFacts, ResultFacts DEF Init, SourceType
    <2>2. CallsType BY ResultFacts DEF Init, CallsType, Steps
    <2>3. ServerType BY PairFacts DEF Init, ServerType, ReqStates
    <2>4. WorldType BY PairFacts DEF Init, WorldType
    <2>5. OnAFlight BY DEF Init, OnAFlight
    <2>6. onRotate \in BOOLEAN BY DEF Init
    <2> QED BY <2>1, <2>2, <2>3, <2>4, <2>5, <2>6 DEF TypeOK
  <1>2. TypeOK /\ [Next]_vars => TypeOK'
    <2> SUFFICES ASSUME TypeOK, [Next]_vars PROVE TypeOK'
      OBVIOUS
    <2>0. SourceType /\ CallsType /\ ServerType /\ WorldType /\ OnAFlight
      BY DEF TypeOK
    <2>1. ASSUME NEW c \in Callers, Token(c) PROVE TypeOK'
      <3>1. CASE TokenHeld(c)
        <4>1. tokens \in Pair /\ "nil" \in Errors /\ flights' = flights
          BY <2>0, <3>1 DEF SourceType, Errors, TokenHeld, source
        <4> QED BY <3>1, <4>1, Untouched, ReturnType DEF TypeOK, TokenHeld
      <3>2. CASE TokenJoin(c)
        <4>1. CallsType'
          BY <2>0, <3>2 DEF SourceType, CallsType, TokenJoin, Steps
        <4>2. OnAFlight'
          BY <2>0, <3>2 DEF SourceType, CallsType, OnAFlight, TokenJoin, source
        <4> QED BY <3>2, <4>1, <4>2, Untouched DEF TypeOK, TokenJoin
      <3>3. CASE TokenSpent(c)
        <4>1. "no_refresh_token" \in Errors /\ flights' = flights
          BY <3>3 DEF Errors, TokenSpent, source
        <4> QED BY <3>3, <4>1, Untouched, ReturnType, PairFacts DEF TypeOK, TokenSpent
      <3>4. CASE TokenLead(c)
        <4>0. tokens.refresh \in Nat
          BY <2>0, PairFacts DEF SourceType
        <4>1. SourceType'
          BY <2>0, <3>4, <4>0 DEF SourceType, TokenLead, Flights
        <4>2. CallsType'
          BY <2>0, <3>4 DEF SourceType, CallsType, TokenLead, Steps
        <4>3. OnAFlight'
          BY <2>0, <3>4 DEF SourceType, CallsType, OnAFlight, TokenLead
        <4>4. ServerType'
          BY <2>0, <3>4 DEF ServerType, TokenLead, ReqStates
        <4>5. onRotate' \in BOOLEAN BY <3>4 DEF TypeOK, TokenLead
        <4> QED BY <3>4, <4>1, <4>2, <4>3, <4>4, <4>5, Untouched DEF TypeOK, TokenLead
      <3> QED BY <2>1, <3>1, <3>2, <3>3, <3>4 DEF Token
    <2>2. ASSUME NEW c \in Callers, Rotate(c) PROVE TypeOK'
      <3>0. ASSUME pc[c] # "idle"
            PROVE  /\ on[c] \in Flights
                   /\ outcome[on[c]] \in Result /\ reply[on[c]] \in Pair
        BY <2>0, <3>0 DEF SourceType, ServerType, OnAFlight, Flights
      <3>1. CASE RotateSettle(c)
        <4>1. PICK e \in {"nil", "reuse"} : Settle(c, reply[on[c]], e)
          BY <3>1 DEF RotateSettle
        <4>2. reply[on[c]] \in Pair /\ e \in Errors
          BY <3>0, <3>1 DEF RotateSettle, Errors
        <4>3. SourceType' /\ CallsType' /\ OnAFlight' /\ onRotate' \in BOOLEAN
          BY <3>1, <4>1, <4>2, SettleType DEF RotateSettle
        <4> QED BY <3>1, <4>3, Untouched DEF TypeOK, RotateSettle
      <3>2. CASE RefreshUnsent(c)
        <4>1. "transport" \in Errors BY DEF Errors
        <4>2. SourceType' /\ CallsType' /\ OnAFlight' /\ onRotate' \in BOOLEAN
          BY <3>2, <4>1, SettleType, PairFacts DEF RefreshUnsent
        <4>3. ServerType'
          BY <2>0, <3>2 DEF ServerType, RefreshUnsent, ReqStates
        <4> QED BY <3>2, <4>2, <4>3, Untouched DEF TypeOK, RefreshUnsent
      <3>3. CASE RefreshLost(c)
        <4>1. PICK e \in {"ctx", "transport"} : Settle(c, NoTokens, e)
          BY <3>3 DEF RefreshLost
        <4>2. e \in Errors BY DEF Errors
        <4>3. SourceType' /\ CallsType' /\ OnAFlight' /\ onRotate' \in BOOLEAN
          BY <3>3, <4>1, <4>2, SettleType, PairFacts DEF RefreshLost
        <4>4. WorldType' BY <2>0, <3>3 DEF WorldType, RefreshLost
        <4> QED BY <3>3, <4>3, <4>4, Untouched DEF TypeOK, RefreshLost
      <3>4. CASE Persist(c)
        <4>1. WorldType' BY <2>0, <3>0, <3>4, ResultFacts DEF WorldType, Persist
        <4>2. CallsType' BY <2>0, <3>4 DEF CallsType, Persist, Steps
        <4>3. OnAFlight'
          BY <2>0, <3>4 DEF CallsType, OnAFlight, Persist, source
        <4> QED BY <3>4, <4>1, <4>2, <4>3, Untouched DEF TypeOK, Persist
      <3>5. CASE PersistFails(c)
        <4>1. SourceType' BY <2>0, <3>0, <3>5, ResultFacts DEF SourceType, PersistFails
        <4>2. CallsType' BY <2>0, <3>5 DEF CallsType, PersistFails, Steps
        <4>3. OnAFlight'
          BY <2>0, <3>5 DEF CallsType, OnAFlight, PersistFails
        <4>4. onRotate' \in BOOLEAN BY <3>5 DEF TypeOK, PersistFails
        <4> QED BY <3>5, <4>1, <4>2, <4>3, <4>4, Untouched DEF TypeOK, PersistFails
      <3>6. CASE PersistPanics(c)
        <4>1. CallsType' BY <2>0, <3>6 DEF CallsType, PersistPanics, Steps
        <4>2. OnAFlight'
          BY <2>0, <3>6 DEF CallsType, OnAFlight, PersistPanics, source
        <4>3. WorldType' BY <2>0, <3>0, <3>6 DEF WorldType, PersistPanics
        <4> QED BY <3>6, <4>1, <4>2, <4>3, Untouched DEF TypeOK, PersistPanics
      <3>7. CASE RotatePublish(c)
        <4> DEFINE o == Published(outcome[on[c]])
        <4>1. o \in Result /\ o.tokens \in Pair /\ o.err \in Errors
          BY <3>0, <3>7, ResultFacts DEF RotatePublish
        <4>2. SourceType'
          BY <2>0, <3>7, <4>1 DEF SourceType, OnAFlight, RotatePublish
        <4>3. flights' = flights /\ Return(c, o.tokens, o.err)
          BY <3>7 DEF RotatePublish
        <4>4. CallsType' /\ OnAFlight' BY <4>1, <4>3, ReturnType
        <4>5. onRotate' \in BOOLEAN BY <3>7 DEF TypeOK, RotatePublish
        <4> QED BY <3>7, <4>2, <4>4, <4>5, Untouched DEF TypeOK, RotatePublish
      <3> QED BY <2>2, <3>1, <3>2, <3>3, <3>4, <3>5, <3>6, <3>7 DEF Rotate
    <2>3. ASSUME NEW c \in Callers, WaitDone(c) \/ WaitCancelled(c) PROVE TypeOK'
      <3>1. /\ outcome[on[c]].tokens \in Pair /\ outcome[on[c]].err \in Errors
            /\ "ctx" \in Errors
        BY <2>0, <2>3, ResultFacts DEF SourceType, OnAFlight, Flights, Errors,
                    WaitDone, WaitCancelled
      <3>2. flights' = flights /\ UNCHANGED <<source, server, world>>
        BY <2>3 DEF WaitDone, WaitCancelled, source
      <3>3. CallsType' /\ OnAFlight'
        BY <2>3, <3>1, <3>2, ReturnType, PairFacts DEF WaitDone, WaitCancelled
      <3> QED BY <3>2, <3>3, Untouched DEF TypeOK
    <2>4. ASSUME NEW f \in Flights, Serve(f) PROVE TypeOK'
      <3>0. /\ issued + 1 \in Nat /\ presented[f] \in Nat
            /\ [access |-> issued + 1, refresh |-> issued + 1] \in Pair
            /\ [access |-> issued + 1, refresh |-> 0] \in Pair
        BY <2>0, PairFacts DEF SourceType, ServerType
      <3>1. ServerType'
        <4>1. CASE RefreshLookup(f)
          BY <2>0, <3>0, <4>1 DEF ServerType, ReqStates, RefreshLookup
        <4>2. CASE RefreshRevoke(f)
          BY <2>0, <4>2 DEF ServerType, ReqStates, RefreshRevoke
        <4>3. CASE RefreshRotate(f)
          BY <2>0, <3>0, <4>3 DEF ServerType, ReqStates, RefreshRotate
        <4>4. CASE Mint(f)
          BY <2>0, <3>0, <4>4 DEF ServerType, ReqStates, Mint
        <4> QED BY <2>4, <4>1, <4>2, <4>3, <4>4 DEF Serve
      <3>2. UNCHANGED <<source, calls, world>>
        BY <2>4 DEF Serve, RefreshLookup, RefreshRevoke, RefreshRotate, Mint
      <3> QED BY <3>1, <3>2, Untouched DEF TypeOK, source, calls
    <2>5. ASSUME NEW n \in 1..issued, Age(n) PROVE TypeOK'
      <3>1. WorldType' BY <2>0, <2>5 DEF ServerType, WorldType, Age
      <3> QED BY <2>5, <3>1, Untouched DEF TypeOK, Age, source, calls
    <2>6. CASE OnRotate
      <3>1. SourceType' BY <2>0, <2>6 DEF SourceType, OnRotate
      <3> QED BY <2>6, <3>1, Untouched DEF TypeOK, OnRotate, calls
    <2>7. CASE Restart
      <3>0. issued + 1 \in Nat /\ [access |-> issued + 1, refresh |-> 0] \in Pair
        BY <2>0, PairFacts DEF ServerType
      <3>1. SourceType'
        BY <2>0, <2>7, <3>0 DEF SourceType, WorldType, Restart, RestoreSession,
                                MintAfresh
      <3>2. CallsType' /\ OnAFlight'
        BY <2>7, ResultFacts DEF CallsType, OnAFlight, Restart, Steps
      <3>a. aged' \subseteq Nat
        BY <2>0, <2>7 DEF WorldType, Restart, RestoreSession, MintAfresh
      <3>3. WorldType' BY <2>0, <2>7, <3>a DEF WorldType, Restart
      <3>4. onRotate' \in BOOLEAN BY <2>7 DEF Restart
      <3>5. ServerType'
        BY <2>0, <2>7, <3>0 DEF ServerType, Restart, RestoreSession, MintAfresh
      <3> QED BY <3>1, <3>2, <3>3, <3>4, <3>5 DEF TypeOK
    <2>8. CASE UNCHANGED vars
      BY <2>8, Untouched DEF TypeOK, vars, source, calls
    <2> QED
      BY <2>1, <2>2, <2>3, <2>4, <2>5, <2>6, <2>7, <2>8 DEF Next
  <1> QED BY <1>1, <1>2, PTL DEF Spec

----------------------------------------------------------------------------
(* The inflight slot. *)

LEMMA SingleFlightInit == Init => SingleFlight
  BY DEF Init, SingleFlight

LEMMA SingleFlightStep ==
    ASSUME TypeOK, SingleFlight, [Next]_vars
    PROVE  SingleFlight'
  <1>0. /\ SourceType /\ CallsType /\ OnAFlight
        /\ \A c \in Callers : pc[c] = "refresh" => inflight # 0
    BY DEF TypeOK, OnAFlight, SingleFlight
  <1>1. ASSUME NEW c \in Callers, TokenLead(c) PROVE SingleFlight'
    BY <1>0, <1>1 DEF SourceType, CallsType, SingleFlight, TokenLead
  <1>2. ASSUME NEW c \in Callers, pc[c] # "refresh", pc'[c] # "refresh",
               inflight' = inflight,
               \A d \in Callers : d # c => pc'[d] = pc[d] /\ on'[d] = on[d]
        PROVE  SingleFlight'
    BY <1>2 DEF SingleFlight
  <1>3. ASSUME NEW c \in Callers, NEW next, NEW e, pc[c] = "refresh",
               Settle(c, next, e)
        PROVE  SingleFlight'
    BY <1>0, <1>3 DEF CallsType, SingleFlight, Settle
  <1>4. ASSUME NEW c \in Callers, Token(c) \/ WaitDone(c) \/ WaitCancelled(c)
        PROVE  SingleFlight'
    <2>1. CASE TokenLead(c) BY <1>1, <2>1
    <2>2. CASE TokenHeld(c)
      BY <1>0, <1>2, <2>2 DEF CallsType, TokenHeld, Return, source
    <2>3. CASE TokenJoin(c)
      BY <1>0, <1>2, <2>3 DEF CallsType, TokenJoin, source
    <2>4. CASE TokenSpent(c)
      BY <1>0, <1>2, <2>4 DEF CallsType, TokenSpent, Return, source
    <2>5. CASE WaitDone(c) \/ WaitCancelled(c)
      BY <1>0, <1>2, <2>5 DEF CallsType, WaitDone, WaitCancelled, Return, source
    <2> QED BY <1>4, <2>1, <2>2, <2>3, <2>4, <2>5 DEF Token
  <1>5. ASSUME NEW c \in Callers, Rotate(c) PROVE SingleFlight'
    <2>1. CASE RotateSettle(c) BY <1>3, <2>1 DEF RotateSettle
    <2>2. CASE RefreshUnsent(c) BY <1>3, <2>2 DEF RefreshUnsent
    <2>3. CASE RefreshLost(c) BY <1>3, <2>3 DEF RefreshLost
    <2>4. CASE Persist(c)
      BY <1>0, <1>2, <2>4 DEF CallsType, Persist, source
    <2>5. CASE PersistFails(c)
      BY <1>0, <1>2, <2>5 DEF CallsType, PersistFails
    <2>6. CASE PersistPanics(c)
      BY <1>0, <1>2, <2>6 DEF CallsType, PersistPanics, source
    <2>7. CASE RotatePublish(c)
      BY <1>0, <1>2, <2>7 DEF CallsType, RotatePublish, Return
    <2> QED BY <1>5, <2>1, <2>2, <2>3, <2>4, <2>5, <2>6, <2>7 DEF Rotate
  <1>6. ASSUME NEW f \in Flights, Serve(f) PROVE SingleFlight'
    BY <1>6 DEF SingleFlight, Serve, RefreshLookup, RefreshRevoke,
                RefreshRotate, Mint, source, calls
  <1>7. ASSUME NEW n \in 1..issued, Age(n) PROVE SingleFlight'
    BY <1>7 DEF SingleFlight, Age, source, calls
  <1>8. CASE OnRotate BY <1>8 DEF SingleFlight, OnRotate, calls
  <1>9. CASE Restart BY <1>9 DEF SingleFlight, Restart
  <1>10. CASE UNCHANGED vars BY <1>10 DEF SingleFlight, vars, source, calls
  <1> QED BY <1>4, <1>5, <1>6, <1>7, <1>8, <1>9, <1>10 DEF Next

(* Refreshes are single-flight under every interleaving and every failure,  *)
(* and the slot is never left taken by a leader that is no longer           *)
(* refreshing (Token and rotate, tokensource.go:102-145).                   *)
THEOREM RefreshesAreSingleFlight == Spec => []SingleFlight
  BY TypeCorrect, SingleFlightInit, SingleFlightStep, PTL DEF Spec

----------------------------------------------------------------------------
(* The family.  HeldTokenIsLive speaks of the moments between rotations; to  *)
(* carry it across one, the invariant follows the request: sent with the     *)
(* token that is live, admitted by consuming it, answered with its successor.*)

Outstanding(f) == req[f] \in {"sent", "admitted"}

FamilyInv ==
    /\ \A f \in Flights : req[f] \notin {"refused", "denied"}
    /\ \A f \in Flights : Outstanding(f) => f = inflight
    /\ inflight = 0 => tokens.refresh = live
    /\ inflight # 0 =>
         /\ Outstanding(inflight) \/ req[inflight] = "ok"
         /\ Outstanding(inflight) => presented[inflight] = tokens.refresh
         /\ req[inflight] = "sent" => /\ tokens.refresh = live
                                      /\ needsRefreshToken => live # 0
         /\ req[inflight] = "ok" =>
              Adopted(reply[inflight], presented[inflight]).refresh = live
    /\ consumed \subseteq 1..issued /\ live <= issued
    /\ inflight = 0 \/ req[inflight] # "admitted" => live \notin consumed
    /\ ~needsRefreshToken =>
         /\ live = 0 /\ tokens.refresh = 0
         /\ \A f \in Flights : req[f] # "admitted"

FamilySafe == lapses = 0 => FamilyInv

LEMMA AdoptedFacts ==
    \A p \in Pair, n \in Nat :
        /\ Adopted(p, n).access = p.access
        /\ Adopted(p, n).refresh = IF p.refresh = 0 THEN n ELSE p.refresh
  BY DEF Pair, Adopted

LEMMA FamilyInit == Init => FamilySafe
  <1> SUFFICES ASSUME Init PROVE FamilyInv
    BY DEF FamilySafe
  <1>1. tokens.refresh \in {0, 1} /\ (~needsRefreshToken => tokens.refresh = 0)
    BY DEF Init, InitialTokens, NoTokens
  <1> QED BY <1>1 DEF Init, FamilyInv, Outstanding

(* Which constructor made the source never changes. *)
LEMMA ModeIsFixed ==
    ASSUME [Next]_vars PROVE UNCHANGED needsRefreshToken
  BY DEF Next, Token, TokenHeld, TokenJoin, TokenSpent, TokenLead, Rotate,
     RotateSettle, RefreshUnsent, RefreshLost, Persist, PersistFails,
     PersistPanics, RotatePublish, WaitDone, WaitCancelled, Serve,
     RefreshLookup, RefreshRevoke, RefreshRotate, Mint, Age, OnRotate, Restart,
     vars, world

LEMMA FamilyStep ==
    ASSUME TypeOK, SingleFlight, FamilySafe, [Next]_vars
    PROVE  FamilySafe'
  <1> SUFFICES ASSUME lapses' = 0 PROVE FamilyInv'
    BY DEF FamilySafe
  <1>m. UNCHANGED needsRefreshToken BY ModeIsFixed
  <1> USE BoundsAssumption, <1>m
  <1>0. /\ SourceType /\ CallsType /\ ServerType /\ OnAFlight
        /\ tokens.refresh \in Nat /\ lapses \in Nat
        /\ \A f \in Flights : reply[f] \in Pair
    <2>1. SourceType /\ CallsType /\ ServerType /\ OnAFlight /\ WorldType
      BY DEF TypeOK
    <2>2. tokens.refresh \in Nat BY <2>1, PairFacts DEF SourceType
    <2>3. lapses \in Nat BY <2>1 DEF WorldType
    <2>4. \A f \in Flights : reply[f] \in Pair BY <2>1 DEF ServerType
    <2> QED BY <2>1, <2>2, <2>3, <2>4
  <1>1. ASSUME lapses = 0,
               UNCHANGED <<tokens, inflight, presented, req, reply, live,
                           consumed, issued>>
        PROVE  FamilyInv'
    BY <1>1 DEF FamilySafe, FamilyInv, Outstanding
  <1>2. ASSUME NEW c \in Callers, TokenLead(c) PROVE FamilyInv'
    <2>1. FamilyInv /\ lapses = 0 /\ inflight = 0
      BY <1>2 DEF FamilySafe, TokenLead, world
    <2> DEFINE f == flights + 1
    <2>2. /\ f \in Flights /\ f # 0 /\ inflight' = f
          /\ req' = [req EXCEPT ![f] = "sent"] /\ req'[f] = "sent"
          /\ presented'[f] = tokens.refresh
          /\ UNCHANGED <<tokens, live, consumed, issued>>
          /\ (needsRefreshToken => tokens.refresh # 0)
      BY <1>0, <1>2 DEF SourceType, ServerType, TokenLead, Flights
    <2>3. \A g \in Flights : ~Outstanding(g)
      BY <1>0, <2>1 DEF FamilyInv, Flights
    <2>4. \A g \in Flights : g # f => req'[g] = req[g]
      BY <1>0, <2>2 DEF ServerType
    <2> QED
      BY <2>1, <2>2, <2>3, <2>4 DEF FamilyInv, Outstanding
  <1>3. ASSUME NEW c \in Callers, RotateSettle(c) PROVE FamilyInv'
    <2>1. FamilyInv /\ lapses = 0 /\ inflight # 0 /\ on[c] = inflight
      BY <1>0, <1>3 DEF FamilySafe, RotateSettle, world, SingleFlight, OnAFlight
    <2>2. /\ inflight \in Flights /\ req[inflight] = "ok"
          /\ tokens' = Adopted(reply[inflight], presented[inflight])
          /\ inflight' = 0
          /\ UNCHANGED <<req, live, consumed, issued>>
      BY <1>0, <1>3, <2>1
      DEF SourceType, FamilyInv, RotateSettle, Settle, server, Flights
    <2>3. tokens'.refresh = live'
      BY <2>1, <2>2 DEF FamilyInv
    <2> QED
      BY <2>1, <2>2, <2>3 DEF FamilyInv, Outstanding
  <1>4. ASSUME NEW c \in Callers, RefreshUnsent(c) PROVE FamilyInv'
    <2>1. FamilyInv /\ lapses = 0 /\ inflight # 0 /\ on[c] = inflight
      BY <1>0, <1>4 DEF FamilySafe, RefreshUnsent, world, SingleFlight, OnAFlight
    <2>2. /\ inflight \in Flights /\ req[inflight] = "sent"
          /\ req' = [req EXCEPT ![inflight] = "gone"]
          /\ tokens' = tokens /\ inflight' = 0
          /\ UNCHANGED <<live, consumed, issued>>
      BY <1>0, <1>4, <2>1
      DEF SourceType, RefreshUnsent, Settle, Flights
    <2>3. \A g \in Flights : g # inflight => req'[g] = req[g] /\ ~Outstanding(g)
      BY <1>0, <2>1, <2>2 DEF ServerType, FamilyInv
    <2>4. req'[inflight] = "gone"
      BY <1>0, <2>2 DEF ServerType
    <2> QED
      BY <2>1, <2>2, <2>3, <2>4 DEF FamilyInv, Outstanding
  <1>5. ASSUME NEW f \in Flights, Serve(f) PROVE FamilyInv'
    <2>1. FamilyInv /\ lapses = 0 /\ f # 0
      BY <1>5 DEF FamilySafe, Serve, RefreshLookup, RefreshRevoke,
                  RefreshRotate, Mint, world, Flights
    <2>2. CASE RefreshLookup(f)
      <3>1. f = inflight /\ presented[f] = live /\ live # 0 /\ live \in 1..issued
            /\ live \notin consumed /\ needsRefreshToken
        BY <1>0, <2>1, <2>2
        DEF FamilyInv, Outstanding, RefreshLookup, ServerType
      <3>2. /\ consumed' = consumed \cup {live}
            /\ req' = [req EXCEPT ![f] = "admitted"] /\ req'[f] = "admitted"
            /\ UNCHANGED <<live, issued, tokens, inflight, presented>>
        BY <1>0, <2>2, <3>1 DEF RefreshLookup, ServerType, source
      <3>3. \A g \in Flights : g # f => req'[g] = req[g]
        BY <1>0, <3>2 DEF ServerType
      <3> QED
        BY <2>1, <2>2, <3>1, <3>2, <3>3 DEF FamilyInv, Outstanding, RefreshLookup
    <2>3. CASE RefreshRevoke(f)
      BY <2>1, <2>3 DEF FamilyInv, RefreshRevoke
    <2>4. CASE RefreshRotate(f)
      <3>1. f = inflight /\ needsRefreshToken
        BY <2>1, <2>4 DEF FamilyInv, Outstanding, RefreshRotate
      <3>2. /\ issued' = issued + 1 /\ live' = issued + 1
            /\ reply'[f] = [access |-> issued + 1, refresh |-> issued + 1]
            /\ req' = [req EXCEPT ![f] = "ok"] /\ req'[f] = "ok"
            /\ UNCHANGED <<consumed, tokens, inflight, presented>>
        BY <1>0, <2>4 DEF RefreshRotate, ServerType, source
      <3>3. \A g \in Flights : g # f => req'[g] = req[g]
        BY <1>0, <3>2 DEF ServerType
      <3>4. Adopted(reply'[f], presented'[f]).refresh = issued + 1
        <4>1. /\ reply'[f] \in Pair /\ presented'[f] \in Nat
              /\ reply'[f].refresh = issued + 1 /\ issued + 1 # 0
          BY <1>0, <3>2, PairFacts DEF ServerType, SourceType
        <4> QED BY <4>1, AdoptedFacts
      <3>5. consumed' \subseteq 1..issued' /\ live' <= issued' /\ live' \notin consumed'
        BY <1>0, <2>1, <3>2 DEF FamilyInv, ServerType
      <3> QED
        BY <2>1, <3>1, <3>2, <3>3, <3>4, <3>5 DEF FamilyInv, Outstanding
    <2>5. CASE Mint(f)
      <3>1. f = inflight /\ ~needsRefreshToken /\ presented[f] = 0 /\ live = 0
        BY <2>1, <2>5 DEF FamilyInv, Outstanding, Mint
      <3>2. /\ issued' = issued + 1
            /\ reply'[f] = [access |-> issued + 1, refresh |-> 0]
            /\ req' = [req EXCEPT ![f] = "ok"] /\ req'[f] = "ok"
            /\ UNCHANGED <<live, consumed, tokens, inflight, presented>>
        BY <1>0, <2>5 DEF Mint, ServerType, source
      <3>3. \A g \in Flights : g # f => req'[g] = req[g]
        BY <1>0, <3>2 DEF ServerType
      <3>4. Adopted(reply'[f], presented'[f]).refresh = 0
        <4>1. /\ reply'[f] \in Pair /\ presented'[f] = 0
              /\ reply'[f].refresh = 0
          BY <1>0, <3>1, <3>2, PairFacts DEF ServerType
        <4> QED BY <4>1, AdoptedFacts
      <3>5. consumed' \subseteq 1..issued' /\ live' <= issued' /\ live' \notin consumed'
        BY <1>0, <2>1, <3>1, <3>2 DEF FamilyInv, ServerType
      <3> QED
        BY <2>1, <3>1, <3>2, <3>3, <3>4, <3>5 DEF FamilyInv, Outstanding
    <2> QED BY <1>5, <2>2, <2>3, <2>4, <2>5 DEF Serve
  <1>6. ASSUME NEW c \in Callers,
               \/ TokenHeld(c) \/ TokenJoin(c) \/ TokenSpent(c)
               \/ Persist(c) \/ PersistFails(c) \/ PersistPanics(c)
               \/ RotatePublish(c) \/ WaitDone(c) \/ WaitCancelled(c)
        PROVE  FamilyInv'
    BY <1>1, <1>6 DEF TokenHeld, TokenJoin, TokenSpent, Persist, PersistFails,
       PersistPanics, RotatePublish, WaitDone, WaitCancelled, source, server, world
  <1>7. ASSUME NEW c \in Callers, RefreshLost(c) PROVE FALSE
    BY <1>0, <1>7 DEF RefreshLost
  <1>8. ASSUME NEW n \in 1..issued, Age(n) PROVE FamilyInv'
    BY <1>1, <1>8 DEF Age, source, server
  <1>9. CASE OnRotate BY <1>1, <1>9 DEF OnRotate, server, world
  <1>10. CASE Restart BY <1>0, <1>10 DEF Restart
  <1>11. CASE UNCHANGED vars
    BY <1>1, <1>11 DEF vars, source, server, world
  <1> QED
    BY <1>2, <1>3, <1>4, <1>5, <1>6, <1>7, <1>8, <1>9, <1>10, <1>11
    DEF Next, Token, Rotate

LEMMA FamilyCorrect == Spec => []FamilySafe
  BY TypeCorrect, RefreshesAreSingleFlight, FamilyInit, FamilyStep, PTL DEF Spec

(* As long as every request is answered or known not to have been sent, the *)
(* refresh token in memory between rotations is the one the server will     *)
(* accept, although the callback fails or panics (tokensource.go:126).      *)
THEOREM HeldTokenStaysLive == Spec => []HeldTokenIsLive
  <1>1. FamilySafe => HeldTokenIsLive
    BY DEF FamilySafe, FamilyInv, HeldTokenIsLive
  <1> QED BY <1>1, FamilyCorrect, PTL

(* Under the same condition no refresh of this process is ever taken for    *)
(* theft, however many goroutines call Token (tokensource.go:20).           *)
THEOREM NoTheftSignal == Spec => []NoSelfInflictedTheft
  <1>1. FamilySafe => NoSelfInflictedTheft
    BY DEF FamilySafe, FamilyInv, NoSelfInflictedTheft
  <1> QED BY <1>1, FamilyCorrect, PTL

----------------------------------------------------------------------------
(* The pair held only moves forward.  Every pair anywhere was issued, and an *)
(* answer to the flight in the slot is newer than the pair it will replace.  *)

NewestInv ==
    /\ tokens.access <= issued /\ stored.access <= issued
    /\ \A f \in Flights : outcome[f].tokens.access <= issued
    /\ inflight # 0 /\ req[inflight] = "ok" =>
         /\ tokens.access < reply[inflight].access
         /\ reply[inflight].access <= issued

LEMMA NewestInit == Init => NewestInv
  <1> SUFFICES ASSUME Init PROVE NewestInv
    OBVIOUS
  <1>1. tokens.access \in {0, 1}
    BY DEF Init, InitialTokens, NoTokens
  <1>2. \A f \in Flights : outcome[f].tokens.access = 0
    BY DEF Init, NoResult, NoTokens
  <1> QED BY <1>1, <1>2 DEF Init, NewestInv

LEMMA NewestStep ==
    ASSUME TypeOK, SingleFlight, NewestInv, [Next]_vars
    PROVE  /\ NewestInv'
           /\ tokens' # tokens /\ ~Restart => tokens'.access > tokens.access
  <1> DEFINE Advance == tokens' # tokens /\ ~Restart => tokens'.access > tokens.access
  <1> USE BoundsAssumption
  <1>0. /\ SourceType /\ CallsType /\ ServerType /\ WorldType /\ OnAFlight
        /\ issued \in Nat
    BY DEF TypeOK, ServerType
  <1>a. /\ tokens.access \in Nat
        /\ \A f \in Flights : /\ reply[f] \in Pair /\ reply[f].access \in Nat
                              /\ outcome[f].tokens.access \in Nat
    BY <1>0, PairFacts, ResultFacts DEF SourceType, ServerType
  <1>1. ASSUME UNCHANGED <<tokens, inflight, outcome, req, reply, issued, stored>>
        PROVE  NewestInv' /\ Advance
    BY <1>1 DEF NewestInv
  <1>2. ASSUME NEW c \in Callers, TokenLead(c) PROVE NewestInv' /\ Advance
    <2>1. req'[flights + 1] = "sent" /\ inflight' = flights + 1
      BY <1>0, <1>2 DEF SourceType, ServerType, TokenLead, Flights
    <2> QED BY <1>2, <2>1 DEF NewestInv, TokenLead, world
  <1>3. ASSUME NEW c \in Callers, NEW next \in Pair, NEW e,
               pc[c] = "refresh", Settle(c, next, e), UNCHANGED issued,
               UNCHANGED stored,
               e = "nil" => tokens.access < next.access /\ next.access <= issued
        PROVE  NewestInv' /\ Advance
    <2>1. on[c] \in Flights /\ presented[on[c]] \in Nat
      BY <1>0, <1>3 DEF SourceType, OnAFlight, Flights
    <2>2. /\ tokens'.access = IF e = "nil" THEN next.access ELSE tokens.access
          /\ e # "nil" => tokens' = tokens
      BY <1>3, <2>1, AdoptedFacts DEF Settle
    <2>3. tokens'.access <= issued
      BY <1>3, <2>2 DEF NewestInv
    <2>4. \A f \in Flights : outcome'[f].tokens.access <= issued
      BY <1>0, <1>3, <2>1, <2>3 DEF NewestInv, Settle, SourceType
    <2>5. inflight' = 0 BY <1>3 DEF Settle
    <2> QED BY <1>3, <2>2, <2>3, <2>4, <2>5 DEF NewestInv
  <1>4. ASSUME NEW c \in Callers, RotateSettle(c) PROVE NewestInv' /\ Advance
    <2>1. inflight # 0 /\ on[c] = inflight /\ inflight \in Flights
      BY <1>0, <1>4 DEF RotateSettle, SingleFlight, OnAFlight, SourceType, Flights
    <2>2. PICK e : /\ Settle(c, reply[inflight], e)
                   /\ e = "nil" => req[inflight] = "ok"
      BY <1>4, <2>1 DEF RotateSettle
    <2>3. e = "nil" => /\ tokens.access < reply[inflight].access
                       /\ reply[inflight].access <= issued
      BY <2>1, <2>2 DEF NewestInv
    <2>4. UNCHANGED issued /\ UNCHANGED stored /\ pc[c] = "refresh"
      BY <1>4 DEF RotateSettle, server, world
    <2> QED BY <1>3, <1>a, <2>1, <2>2, <2>3, <2>4
  <1>5. ASSUME NEW c \in Callers, RefreshUnsent(c) \/ RefreshLost(c)
        PROVE  NewestInv' /\ Advance
    <2>1. PICK e : e # "nil" /\ Settle(c, NoTokens, e)
      BY <1>5 DEF RefreshUnsent, RefreshLost
    <2>2. UNCHANGED issued /\ UNCHANGED stored /\ pc[c] = "refresh"
      BY <1>5 DEF RefreshUnsent, RefreshLost, server, world
    <2> QED BY <1>3, <2>1, <2>2, PairFacts
  <1>6. ASSUME NEW f \in Flights, Serve(f) PROVE NewestInv' /\ Advance
    <2>1. UNCHANGED <<tokens, inflight, outcome, stored>>
      BY <1>6 DEF Serve, RefreshLookup, RefreshRevoke, RefreshRotate, Mint,
                  source, world
    <2>2. CASE RefreshLookup(f) \/ RefreshRevoke(f)
      <3>1. UNCHANGED <<reply, issued>> /\ req'[f] # "ok"
            /\ \A g \in Flights : g # f => req'[g] = req[g]
        BY <1>0, <2>2 DEF RefreshLookup, RefreshRevoke, ServerType
      <3>2. inflight # 0 => inflight \in Flights
        BY <1>0 DEF SourceType, Flights
      <3> QED BY <2>1, <3>1, <3>2 DEF NewestInv
    <2>3. CASE RefreshRotate(f) \/ Mint(f)
      <3>1. /\ issued' = issued + 1 /\ reply'[f].access = issued + 1
            /\ \A g \in Flights : g # f => req'[g] = req[g] /\ reply'[g] = reply[g]
        BY <1>0, <2>3 DEF RefreshRotate, Mint, ServerType
      <3>2. inflight # 0 => inflight \in Flights
        BY <1>0 DEF SourceType, Flights
      <3>3. stored.access \in Nat BY <1>0, PairFacts DEF WorldType
      <3> QED BY <1>0, <1>a, <2>1, <3>1, <3>2, <3>3 DEF NewestInv
    <2> QED BY <1>6, <2>2, <2>3 DEF Serve
  <1>7. ASSUME NEW c \in Callers, Persist(c) PROVE NewestInv' /\ Advance
    <2>1. on[c] \in Flights
      BY <1>0, <1>7 DEF Persist, SourceType, OnAFlight, Flights
    <2> QED BY <1>7, <2>1 DEF NewestInv, Persist, source, server
  <1>8. ASSUME NEW c \in Callers, PersistFails(c) \/ RotatePublish(c)
        PROVE  NewestInv' /\ Advance
    <2>1. UNCHANGED <<tokens, inflight, req, reply, issued, stored>>
      BY <1>8 DEF PersistFails, RotatePublish, server, world
    <2>2. on[c] \in Flights /\ outcome[on[c]] \in Result
      BY <1>0, <1>8 DEF PersistFails, RotatePublish, SourceType, OnAFlight, Flights
    <2>3. /\ [outcome[on[c]] EXCEPT !.err = "persist"].tokens = outcome[on[c]].tokens
          /\ Published(outcome[on[c]]).tokens \in {outcome[on[c]].tokens, NoTokens}
      BY <2>2 DEF Result, Published
    <2>4. NoTokens.access = 0 BY DEF NoTokens
    <2>5. \A f \in Flights : outcome'[f].tokens \in {outcome[f].tokens, NoTokens}
      BY <1>0, <1>8, <2>2, <2>3 DEF PersistFails, RotatePublish, SourceType
    <2>6. \A f \in Flights : outcome'[f].tokens.access <= issued
      BY <1>0, <2>4, <2>5 DEF NewestInv
    <2> QED BY <2>1, <2>6 DEF NewestInv
  <1>9. ASSUME NEW c \in Callers,
               \/ TokenHeld(c) \/ TokenJoin(c) \/ TokenSpent(c)
               \/ PersistPanics(c) \/ WaitDone(c) \/ WaitCancelled(c)
        PROVE  NewestInv' /\ Advance
    BY <1>1, <1>9 DEF TokenHeld, TokenJoin, TokenSpent, PersistPanics,
       WaitDone, WaitCancelled, source, server, world
  <1>10. ASSUME NEW n \in 1..issued, Age(n) PROVE NewestInv' /\ Advance
    BY <1>1, <1>10 DEF Age, source, server
  <1>11. CASE OnRotate BY <1>1, <1>11 DEF OnRotate, server, world
  <1>12. CASE Restart
    <2>1. /\ inflight' = 0 /\ UNCHANGED <<outcome, stored>>
          /\ issued' \in {issued, issued + 1} /\ tokens'.access <= issued'
      BY <1>0, <1>12 DEF Restart, RestoreSession, MintAfresh, NewestInv
    <2>2. stored.access \in Nat BY <1>0, PairFacts DEF WorldType
    <2>3. \A f \in Flights : outcome'[f].tokens.access <= issued'
      BY <1>0, <1>a, <2>1 DEF NewestInv
    <2> QED BY <1>0, <1>12, <2>1, <2>2, <2>3 DEF NewestInv
  <1>13. CASE UNCHANGED vars BY <1>1, <1>13 DEF vars, source, server, world
  <1> QED
    BY <1>2, <1>4, <1>5, <1>6, <1>7, <1>8, <1>9, <1>10, <1>11, <1>12, <1>13
    DEF Next, Token, Rotate

(* While a process lives, the pair it holds is only ever replaced by one     *)
(* issued later, whatever was lost before (rotate, tokensource.go:129-145).  *)
THEOREM AdoptionOnlyAdvances == Spec => AdoptionAdvances
  <1>1. Spec => []NewestInv
    BY TypeCorrect, RefreshesAreSingleFlight, NewestInit, NewestStep, PTL DEF Spec
  <1>2. TypeOK /\ SingleFlight /\ NewestInv /\ [Next]_vars
          => [tokens' # tokens /\ ~Restart => tokens'.access > tokens.access]_vars
    BY NewestStep
  <1> QED
    BY <1>1, <1>2, TypeCorrect, RefreshesAreSingleFlight, PTL
    DEF Spec, AdoptionAdvances
=============================================================================
