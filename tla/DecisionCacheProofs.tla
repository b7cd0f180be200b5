------------------------ MODULE DecisionCacheProofs ------------------------
(***************************************************************************)
(* Proofs about DecisionCache, for every set of goroutines and questions,  *)
(* every TTL, size and timeout and every bound.                            *)
(***************************************************************************)
EXTENDS DecisionCache, FiniteSetTheorems, SequenceTheorems, TLAPS

(* Sorting a list neither adds a method nor loses one. *)
LEMMA SortedFacts ==
    ASSUME NEW list \in Seq(Text)
    PROVE  /\ Sorted(list) \in Seq(Text) /\ Len(Sorted(list)) = Len(list)
           /\ {Sorted(list)[i] : i \in 1..Len(list)} = {list[i] : i \in DOMAIN list}
  <1> DEFINE D == DOMAIN list
             Onto(p) == \A j \in D : \E i \in D : p[i] = j
  <1>1. D = 1..Len(list) /\ Len(list) \in Nat  BY LenProperties
  <1>2. PICK same \in [D -> D] : Onto(same)
    <2>1. [i \in D |-> i] \in [D -> D] /\ Onto([i \in D |-> i])  OBVIOUS
    <2> QED  BY <2>1
  <1>3. [i \in D |-> list[same[i]]] \in Arrangements(list)
    BY <1>2 DEF Arrangements
  <1>4. Sorted(list) \in Arrangements(list)  BY <1>3 DEF Sorted
  <1>5. PICK p \in [D -> D] : Onto(p) /\ Sorted(list) = [i \in D |-> list[p[i]]]
    BY <1>4 DEF Arrangements
  <1>6. \A i \in D : list[i] \in Text  BY ElementOfSeq, <1>1
  <1>7. Sorted(list) \in [1..Len(list) -> Text]  BY <1>1, <1>5, <1>6
  <1>8. Sorted(list) \in Seq(Text) /\ Len(Sorted(list)) = Len(list)
    BY <1>1, <1>7, SeqDef, LenProperties
  <1>9. ASSUME NEW x \in {list[i] : i \in D}
        PROVE  x \in {Sorted(list)[i] : i \in 1..Len(list)}
    <2>1. PICK j \in D : x = list[j]  OBVIOUS
    <2>2. PICK i \in D : p[i] = j  BY <1>5
    <2> QED  BY <1>1, <1>5, <2>1, <2>2
  <1>10. \A i \in 1..Len(list) : Sorted(list)[i] \in {list[j] : j \in D}
    BY <1>1, <1>5
  <1> QED  BY <1>8, <1>9, <1>10

LEMMA TextsFacts ==
    ASSUME NEW scopes \in Seq(Piece)
    PROVE  /\ Texts(scopes) \in Seq(Text) /\ Len(Texts(scopes)) = Len(scopes)
           /\ \A i \in 1..Len(scopes) : /\ scopes[i] \in Piece
                                        /\ Texts(scopes)[i] = scopes[i].text
  <1>1. DOMAIN scopes = 1..Len(scopes) /\ Len(scopes) \in Nat  BY LenProperties
  <1>2. \A i \in 1..Len(scopes) : scopes[i] \in Piece  BY ElementOfSeq
  <1>3. Texts(scopes) \in [1..Len(scopes) -> Text]
    BY <1>1, <1>2 DEF Texts, Piece
  <1>4. Texts(scopes) \in Seq(Text) /\ Len(Texts(scopes)) = Len(scopes)
    BY <1>1, <1>3, SeqDef, LenProperties
  <1> QED  BY <1>1, <1>2, <1>4 DEF Texts

(* The texts of plain scopes have an "=" in them and plain methods have none, *)
(* so the join of the two can be told apart again.                            *)
LEMMA SplitsOnce ==
    ASSUME NEW s \in Seq(Text), NEW t \in Seq(Text),
           NEW u \in Seq(Text), NEW v \in Seq(Text), s \o u = t \o v,
           \A i \in 1..Len(t) : Len(t[i]) > 1,
           \A i \in 1..Len(u) : ~(Len(u[i]) > 1)
    PROVE  Len(t) <= Len(s)
  <1>1. /\ Len(s) \in Nat /\ Len(t) \in Nat /\ Len(u) \in Nat /\ Len(v) \in Nat
        /\ Len(s \o u) = Len(s) + Len(u) /\ Len(t \o v) = Len(t) + Len(v)
        /\ \A i \in 1..Len(s) + Len(u) :
              (s \o u)[i] = IF i <= Len(s) THEN s[i] ELSE u[i - Len(s)]
        /\ \A i \in 1..Len(t) + Len(v) :
              (t \o v)[i] = IF i <= Len(t) THEN t[i] ELSE v[i - Len(t)]
    BY LenProperties, ConcatProperties
  <1>2. SUFFICES ASSUME Len(s) < Len(t) PROVE FALSE  BY <1>1
  <1> DEFINE n == Len(s) + 1
  <1>3. /\ Len(s) + Len(u) = Len(t) + Len(v) /\ Len(u) >= 1
        /\ n \in 1..Len(s) + Len(u) /\ n \in 1..Len(t) /\ n - Len(s) = 1
        /\ ~(n <= Len(s)) /\ n <= Len(t)
    BY <1>1, <1>2
  <1>4. u[1] = t[n]  BY <1>1, <1>3
  <1> QED  BY <1>3, <1>4

(* Two plain questions with one cache key have the same inputs: neither is    *)
(* answered with the other's answer (cacheKey, cache.go:72-77).               *)
THEOREM KeyCoversInputs ==
    ASSUME NEW a \in Asked, NEW b \in Asked, Plain(a), Plain(b),
           cacheKey(a) = cacheKey(b)
    PROVE  Inputs(a) = Inputs(b)
  <1> DEFINE s == Texts(a.scopes)
             t == Texts(b.scopes)
             u == Sorted(a.amr)
             v == Sorted(b.amr)
  <1>1. /\ a.scopes \in Seq(Piece) /\ a.amr \in Seq(Text)
        /\ b.scopes \in Seq(Piece) /\ b.amr \in Seq(Text)
    BY QuestionsAssumption DEF Asked
  <1>2. /\ s \in Seq(Text) /\ t \in Seq(Text) /\ u \in Seq(Text) /\ v \in Seq(Text)
        /\ Len(s) = Len(a.scopes) /\ Len(t) = Len(b.scopes)
        /\ Len(u) = Len(a.amr) /\ Len(v) = Len(b.amr)
    BY <1>1, TextsFacts, SortedFacts
  <1>3. s \o u = t \o v /\ a.subject = b.subject /\ a.permission = b.permission
        /\ a.authTime = b.authTime
    BY DEF cacheKey
  <1>4. ASSUME NEW x \in Asked, Plain(x), x.scopes \in Seq(Piece), x.amr \in Seq(Text)
        PROVE  /\ \A i \in 1..Len(x.scopes) : Len(Texts(x.scopes)[i]) > 1
               /\ \A i \in 1..Len(Sorted(x.amr)) : ~(Len(Sorted(x.amr)[i]) > 1)
    <2>1. ASSUME NEW i \in 1..Len(x.scopes) PROVE Len(Texts(x.scopes)[i]) > 1
      <3>1. /\ x.scopes[i] \in Piece /\ Texts(x.scopes)[i] = x.scopes[i].text
            /\ i \in DOMAIN x.scopes
        BY <1>4, <2>1, TextsFacts, LenProperties
      <3>2. x.scopes[i].axis = 1  BY <1>4, <3>1 DEF Plain
      <3>3. x.scopes[i].axis < Len(x.scopes[i].text) /\ Len(x.scopes[i].text) \in Nat
        BY <3>1, LenProperties DEF Piece, Text
      <3> QED  BY <3>1, <3>2, <3>3
    <2>2. ASSUME NEW i \in 1..Len(Sorted(x.amr)) PROVE ~(Len(Sorted(x.amr)[i]) > 1)
      <3>1. PICK j \in DOMAIN x.amr : Sorted(x.amr)[i] = x.amr[j]
        BY <1>4, <2>2, SortedFacts
      <3>2. x.amr[j] \in Text /\ Len(x.amr[j]) <= 1
        BY <1>4, ElementOfSeq, LenProperties DEF Plain
      <3>3. Len(x.amr[j]) \in Nat  BY <3>2, LenProperties DEF Text
      <3> QED  BY <3>1, <3>2, <3>3
    <2> QED  BY <2>1, <2>2
  <1>5. /\ \A i \in 1..Len(s) : Len(s[i]) > 1
        /\ \A i \in 1..Len(t) : Len(t[i]) > 1
        /\ \A i \in 1..Len(u) : ~(Len(u[i]) > 1)
        /\ \A i \in 1..Len(v) : ~(Len(v[i]) > 1)
    BY <1>1, <1>2, <1>4
  <1>x. Len(s) \in Nat /\ Len(t) \in Nat /\ Len(u) \in Nat /\ Len(v) \in Nat
    BY <1>2, LenProperties
  <1> HIDE DEF s, t, u, v
  <1>6. Len(t) <= Len(s)  BY <1>2, <1>3, <1>5, SplitsOnce
  <1>7. Len(s) <= Len(t)  BY <1>2, <1>3, <1>5, SplitsOnce
  <1>8. Len(s) = Len(t) /\ Len(u) = Len(v)
    <2>1. Len(s \o u) = Len(s) + Len(u) /\ Len(t \o v) = Len(t) + Len(v)
      BY <1>2, ConcatProperties
    <2> QED  BY <1>x, <1>3, <1>6, <1>7, <2>1
  <1>9. /\ \A i \in 1..Len(s) : s[i] = t[i]
        /\ \A i \in 1..Len(u) : u[i] = v[i]
    <2>a. \A i \in 1..Len(s) + Len(u) :
            (s \o u)[i] = IF i <= Len(s) THEN s[i] ELSE u[i - Len(s)]
      BY <1>2, ConcatProperties
    <2>b. \A i \in 1..Len(t) + Len(v) :
            (t \o v)[i] = IF i <= Len(t) THEN t[i] ELSE v[i - Len(t)]
      BY <1>2, ConcatProperties
    <2>1. \A i \in 1..Len(s) + Len(u) :
            (t \o v)[i] = IF i <= Len(s) THEN t[i] ELSE v[i - Len(s)]
      BY <1>8, <2>b
    <2>2. ASSUME NEW i \in 1..Len(s) PROVE s[i] = t[i]
      <3>1. i \in 1..Len(s) + Len(u) /\ i <= Len(s)  BY <1>x
      <3> QED  BY <1>3, <2>a, <2>1, <3>1
    <2>3. ASSUME NEW i \in 1..Len(u) PROVE u[i] = v[i]
      <3>1. /\ Len(s) + i \in 1..Len(s) + Len(u) /\ ~(Len(s) + i <= Len(s))
            /\ (Len(s) + i) - Len(s) = i
        BY <1>x
      <3> QED  BY <1>3, <2>a, <2>1, <3>1
    <2> QED  BY <2>2, <2>3
  <1>10. a.scopes = b.scopes
    <2>1. ASSUME NEW i \in 1..Len(a.scopes) PROVE a.scopes[i] = b.scopes[i]
      <3>1. /\ a.scopes[i] \in Piece /\ b.scopes[i] \in Piece
            /\ a.scopes[i].text = b.scopes[i].text
        BY <1>1, <1>2, <1>8, <1>9, TextsFacts DEF s, t
      <3>2. i \in DOMAIN a.scopes /\ i \in DOMAIN b.scopes
        BY <1>1, <1>2, <1>8, LenProperties
      <3>3. a.scopes[i].axis = 1 /\ b.scopes[i].axis = 1  BY <3>2 DEF Plain
      <3> QED  BY <3>1, <3>3 DEF Piece
    <2> QED  BY <1>1, <1>2, <1>8, <2>1, SeqEqual
  <1>11. {a.amr[i] : i \in DOMAIN a.amr} = {b.amr[i] : i \in DOMAIN b.amr}
    <2>1. {u[i] : i \in 1..Len(u)} = {v[i] : i \in 1..Len(v)}  BY <1>8, <1>9
    <2>2. /\ {u[i] : i \in 1..Len(u)} = {a.amr[i] : i \in DOMAIN a.amr}
          /\ {v[i] : i \in 1..Len(v)} = {b.amr[i] : i \in DOMAIN b.amr}
      BY <1>1, <1>2, SortedFacts DEF u, v
    <2> QED  BY <2>1, <2>2
  <1> QED  BY <1>3, <1>10, <1>11 DEF Inputs

LEMMA QuestionFacts ==
    /\ AnyQuestion \in Asked
    /\ \A ask \in Questions : WellFormed(ask) => ask \in Asked
    /\ \A ask \in Asked : cacheKey(ask) \in Keys /\ Inputs(ask) \in Subjects
  <1>1. Asked # {} BY QuestionsAssumption, PermissionsAssumption DEF Asked, WellFormed
  <1>2. AnyQuestion \in Asked BY <1>1 DEF AnyQuestion
  <1>3. \A ask \in Questions : WellFormed(ask) => ask \in Asked BY DEF Asked
  <1>4. \A ask \in Asked : cacheKey(ask) \in Keys /\ Inputs(ask) \in Subjects
    BY DEF Keys, Subjects
  <1> QED BY <1>2, <1>3, <1>4

EntriesType == Generation(live) /\ Generation(old) /\ recent \in Seq(Keys)
ReturnType  == ret.age \in Int

LEMMA EmptyIsGeneration == Generation(Empty)
  BY DEF Generation, Empty, Entry

LEMMA WithFacts ==
    ASSUME NEW gen, Generation(gen), NEW k \in Keys, NEW e \in Entry
    PROVE  Generation(With(gen, k, e))
  BY DEF Generation, With

LEMMA NewestType ==
    ASSUME NEW s \in Seq(Keys), NEW k \in Keys
    PROVE  Newest(Append(s, k)) \in Seq(Keys)
  <1> DEFINE t == Append(s, k)
  <1>1. t \in Seq(Keys) /\ t # <<>> BY AppendProperties
  <1> HIDE DEF t
  <1>2. Tail(t) \in Seq(Keys) BY <1>1, HeadTailProperties
  <1> QED BY <1>1, <1>2 DEF Newest

(* The step that ends a call. *)
LEMMA ReturnKeepsType ==
    ASSUME CallsType, WorldType, NEW c \in Callers, NEW v, NEW hit \in BOOLEAN, NEW plain,
           hit => v \in Verdicts, Return(c, v, hit, plain), UNCHANGED world
    PROVE  CallsType' /\ WorldType' /\ ReturnType'
  <1>1. CallsType'
    BY QuestionFacts DEF CallsType, Return, Steps, Verdicts
  <1>2. WorldType' BY DEF WorldType, world
  <1>3. hit => now[c] - LastTrue(Inputs(q[c]), v) \in Int
    BY QuestionFacts DEF CallsType, WorldType, LastTrue
  <1>4. ReturnType' BY <1>3 DEF Return, ReturnType
  <1> QED BY <1>1, <1>2, <1>4

LEMMA SilentKeepsType ==
    ASSUME Silent PROVE ReturnType'
  BY DEF Silent, NoReturn, ReturnType

(* What a lookup finds is an entry. *)
LEMMA FoundIsEntry ==
    ASSUME EntriesType, NEW k, Known(k)
    PROVE  Found(k) \in Entry
  BY DEF EntriesType, Generation, Known, Found

(* Every variable of the decision cache keeps its type, and only keys of     *)
(* questions are filed (decisionCache, cache.go:20).                         *)
THEOREM TypeCorrect == Spec => []TypeOK
  <1> USE ConfigAssumption, BoundsAssumption
  <1> DEFINE Inv == EntriesType /\ CallsType /\ WorldType /\ ReturnType
  <1>1. Init => Inv
    <2> SUFFICES ASSUME Init PROVE Inv OBVIOUS
    <2>1. EntriesType
      BY EmptyIsGeneration DEF Init, EntriesType
    <2>2. CallsType BY QuestionFacts DEF Init, CallsType, Steps, Verdicts
    <2>3. WorldType BY DEF Init, WorldType
    <2>4. ReturnType BY DEF Init, ReturnType, NoReturn
    <2> QED BY <2>1, <2>2, <2>3, <2>4
  <1>2. Inv /\ [Next]_vars => Inv'
    <2> SUFFICES ASSUME Inv, [Next]_vars PROVE Inv' OBVIOUS
    <2>1. ASSUME UNCHANGED entries PROVE EntriesType'
      BY <2>1 DEF entries, EntriesType, Generation
    <2>2. ASSUME UNCHANGED world PROVE WorldType'
      BY <2>2 DEF world, WorldType
    <2>3. ASSUME NEW c \in Callers, NEW ask \in Questions, Ask(c, ask)
          PROVE  Inv'
      <3>1. CallsType'
        BY <2>3, QuestionFacts DEF Ask, CallsType, WorldType, Steps
      <3> QED BY <2>1, <2>2, <2>3, <3>1, SilentKeepsType DEF Ask
    <2>4. ASSUME NEW c \in Callers, NEW ask \in Questions, Refuse(c, ask)
          PROVE  Inv'
      <3>1. CallsType' BY <2>4 DEF Refuse, CallsType, locals
      <3>2. ReturnType' BY <2>4 DEF Refuse, ReturnType, NoReturn
      <3> QED BY <2>1, <2>2, <2>4, <3>1, <3>2 DEF Refuse
    <2>5. ASSUME NEW c \in Callers, GetHit(c) PROVE Inv'
      <3>1. Found(cacheKey(q[c])).decision \in Verdicts
        BY <2>5, FoundIsEntry DEF GetHit, Hit, Entry
      <3> QED BY <2>1, <2>5, <3>1, ReturnKeepsType DEF GetHit
    <2>6. ASSUME NEW c \in Callers, GetMiss(c) PROVE Inv'
      <3>1. CallsType' BY <2>6 DEF GetMiss, CallsType, WorldType, Steps
      <3> QED BY <2>1, <2>2, <2>6, <3>1, SilentKeepsType DEF GetMiss
    <2>7. ASSUME NEW c \in Callers, Decide(c) PROVE Inv'
      <3>1. policy[Inputs(q[c])] \in Verdicts
        BY QuestionFacts DEF CallsType, WorldType
      <3>2. CallsType' BY <2>7, <3>1 DEF Decide, CallsType, Steps
      <3> QED BY <2>1, <2>2, <2>7, <3>2, SilentKeepsType DEF Decide
    <2>8. ASSUME NEW c \in Callers, Receive(c) PROVE Inv'
      <3>1. CallsType' BY <2>8 DEF Receive, CallsType, WorldType, Steps
      <3> QED BY <2>1, <2>2, <2>8, <3>1, SilentKeepsType DEF Receive
    <2>9. ASSUME NEW c \in Callers, RpcFail(c) \/ PutSkipped(c) PROVE Inv'
      BY <2>1, <2>9, ReturnKeepsType DEF RpcFail, PutSkipped
    <2>10. ASSUME NEW c \in Callers, Put(c) PROVE Inv'
      <3> DEFINE k == cacheKey(q[c])
                 e == Filed(c)
      <3>1. k \in Keys BY QuestionFacts DEF CallsType
      <3>2. e \in Entry BY DEF CallsType, Entry, Filed, Plain
      <3>3. Generation(live') /\ Generation(old')
        <4>1. Store(k, e) BY <2>10 DEF Put
        <4>2. Generation(live) /\ Generation(old) BY DEF EntriesType
        <4> HIDE DEF k, e
        <4>3. Generation(With(live, k, e)) /\ Generation(With(Empty, k, e))
          BY <3>1, <3>2, <4>2, WithFacts, EmptyIsGeneration
        <4> QED BY <4>1, <4>2, <4>3 DEF Store
      <3>4. recent' \in Seq(Keys)
        BY <2>10, <3>1, NewestType DEF Put, EntriesType
      <3>5. EntriesType' BY <3>3, <3>4 DEF EntriesType, Generation
      <3> QED BY <2>10, <3>5, ReturnKeepsType DEF Put
    <2>11. ASSUME NEW i \in Subjects, NEW v \in Verdicts, Change(i, v)
           PROVE  Inv'
      <3>1. WorldType' BY <2>11 DEF Change, WorldType
      <3>2. CallsType' BY <2>11 DEF Change, CallsType, locals
      <3> QED BY <2>1, <2>11, <3>1, <3>2, SilentKeepsType DEF Change
    <2>12. CASE Tick
      <3>1. WorldType' BY <2>12 DEF Tick, WorldType
      <3>2. CallsType' BY <2>12 DEF Tick, CallsType, locals
      <3> QED BY <2>1, <2>12, <3>1, <3>2, SilentKeepsType DEF Tick
    <2>13. CASE UNCHANGED vars
      BY <2>13 DEF vars, entries, locals, world, EntriesType, Generation,
                   CallsType, WorldType, ReturnType
    <2> QED
      BY <2>3, <2>4, <2>5, <2>6, <2>7, <2>8, <2>9, <2>10, <2>11, <2>12, <2>13
      DEF Next, authorize
  <1>3. Inv => TypeOK BY DEF EntriesType, ReturnType, TypeOK
  <1> QED BY <1>1, <1>2, <1>3, PTL DEF Spec

----------------------------------------------------------------------------
(* The size of the generations. *)

Small(gen) == IsFiniteSet(DOMAIN gen) /\ Cardinality(DOMAIN gen) <= MaxSize
SizeInv    == Small(live) /\ Small(old)

LEMMA EmptyIsSmall == Small(Empty)
  BY ConfigAssumption, FS_EmptySet DEF Small, Empty

(* Filing one more answer in a generation that is not full keeps it small. *)
LEMMA WithIsSmall ==
    ASSUME NEW gen, IsFiniteSet(DOMAIN gen),
           Cardinality(DOMAIN gen) < MaxSize, NEW k, NEW e
    PROVE  Small(With(gen, k, e))
  <1>1. DOMAIN With(gen, k, e) = DOMAIN gen \cup {k} BY DEF With
  <1>2. /\ IsFiniteSet(DOMAIN gen \cup {k})
        /\ Cardinality(DOMAIN gen \cup {k}) =
             IF k \in DOMAIN gen THEN Cardinality(DOMAIN gen)
                                 ELSE Cardinality(DOMAIN gen) + 1
    BY FS_AddElement
  <1>3. Cardinality(DOMAIN gen) \in Nat BY FS_CardinalityType
  <1> QED BY <1>1, <1>2, <1>3, ConfigAssumption DEF Small

(* Only put touches the generations, and it does so through Store. *)
LEMMA EntriesChangeInPut ==
    ASSUME Next, ~UNCHANGED entries
    PROVE  \E c \in Callers : Put(c)
  BY DEF Next, authorize, Ask, Refuse, GetHit, GetMiss, Decide, Receive,
         RpcFail, PutSkipped, Change, Tick

LEMMA SizeInvariant == Spec => []SizeInv
  <1>1. Init => SizeInv
    BY EmptyIsSmall DEF Init, SizeInv
  <1>2. SizeInv /\ [Next]_vars => SizeInv'
    <2> SUFFICES ASSUME SizeInv, [Next]_vars PROVE SizeInv' OBVIOUS
    <2>1. CASE UNCHANGED entries
      BY <2>1 DEF entries, SizeInv, Small
    <2>2. CASE ~UNCHANGED entries
      <3>1. PICK c \in Callers : Put(c)
        BY <2>2, EntriesChangeInPut DEF vars
      <3> DEFINE k == cacheKey(q[c])
                 e == Filed(c)
      <3>2. Store(k, e) BY <3>1 DEF Put
      <3> HIDE DEF k, e
      <3>3. CASE Full
        <4>1. Cardinality(DOMAIN Empty) < MaxSize /\ IsFiniteSet(DOMAIN Empty)
          BY ConfigAssumption, FS_EmptySet DEF Empty
        <4>2. Small(With(Empty, k, e)) BY <4>1, WithIsSmall
        <4>3. live' = With(Empty, k, e) /\ old' = live
          BY <3>2, <3>3 DEF Store
        <4> QED BY <4>2, <4>3 DEF SizeInv, Small
      <3>4. CASE ~Full
        <4>1. IsFiniteSet(DOMAIN live) BY DEF SizeInv, Small
        <4>2. Cardinality(DOMAIN live) < MaxSize
          BY <3>4, <4>1, FS_CardinalityType, ConfigAssumption DEF Full
        <4>3. Small(With(live, k, e)) BY <4>1, <4>2, WithIsSmall
        <4>4. live' = With(live, k, e) /\ old' = old
          BY <3>2, <3>4 DEF Store
        <4> QED BY <4>3, <4>4 DEF SizeInv, Small
      <3> QED BY <3>3, <3>4
    <2> QED BY <2>1, <2>2
  <1> QED BY <1>1, <1>2, PTL DEF Spec

(* Neither generation of the decision cache outgrows MaxSize, whatever is    *)
(* asked and in whatever order (put, cache.go:66).                           *)
THEOREM GenerationsStayBounded == Spec => []GenerationsBounded
  <1>1. SizeInv => GenerationsBounded BY DEF SizeInv, Small, GenerationsBounded
  <1> QED BY <1>1, SizeInvariant, PTL

----------------------------------------------------------------------------
(* What a rotation keeps.  That the recent answers are all held is not        *)
(* inductive: a rotation drops the old generation, so the recent answers must *)
(* be in the live one by then.  They are, because a live generation of n keys *)
(* has been put to at least n times since it began: the last n answers put    *)
(* are all in it.                                                             *)

RecentInv ==
    /\ Len(recent) <= MaxSize
    /\ \A i \in DOMAIN recent :
           i + Cardinality(DOMAIN live) > Len(recent) => recent[i] \in DOMAIN live

HeldInv == SizeInv /\ RecentInv /\ RecentAnswersAreHeld

(* The window after one more answer: its last place holds the answer's key,   *)
(* and each other place that of a place of the window before, as far from the *)
(* end of it as the answer has moved it.                                      *)
LEMMA NewestFacts ==
    ASSUME NEW s \in Seq(Keys), Len(s) <= MaxSize, NEW k \in Keys
    PROVE  LET t == Newest(Append(s, k)) IN
           /\ Len(t) <= MaxSize
           /\ \A i \in DOMAIN t :
                 \/ t[i] = k
                 \/ \E j \in DOMAIN s : t[i] = s[j] /\ j - Len(s) = i - Len(t) + 1
  <1> DEFINE a == Append(s, k)
  <1>1. /\ a \in Seq(Keys) /\ a # <<>> /\ Len(a) = Len(s) + 1
        /\ a[Len(s) + 1] = k /\ \A i \in 1..Len(s) : a[i] = s[i]
    BY AppendProperties
  <1>2. /\ Tail(a) \in Seq(Keys) /\ Len(Tail(a)) = Len(s)
        /\ \A i \in 1..Len(s) : Tail(a)[i] = a[i + 1]
    BY <1>1, HeadTailProperties
  <1>3. Len(s) \in Nat /\ DOMAIN s = 1..Len(s) /\ DOMAIN a = 1..Len(s) + 1
        /\ DOMAIN Tail(a) = 1..Len(s)
    BY <1>1, <1>2, LenProperties
  <1> HIDE DEF a
  <1>4. CASE Len(a) > MaxSize
    <2>1. Newest(a) = Tail(a)  BY <1>4 DEF Newest
    <2>2. ASSUME NEW i \in 1..Len(s)
          PROVE  \/ Tail(a)[i] = k
                 \/ \E j \in DOMAIN s :
                      Tail(a)[i] = s[j] /\ j - Len(s) = i - Len(Tail(a)) + 1
      <3>1. CASE i = Len(s)  BY <1>1, <1>2, <1>3, <3>1
      <3>2. CASE i # Len(s)
        <4>1. i + 1 \in DOMAIN s /\ Tail(a)[i] = s[i + 1]
          BY <1>1, <1>2, <1>3, <3>2
        <4>2. (i + 1) - Len(s) = i - Len(Tail(a)) + 1  BY <1>2, <1>3
        <4> QED  BY <4>1, <4>2
      <3> QED  BY <3>1, <3>2
    <2> QED  BY <1>2, <1>3, <2>1, <2>2 DEF a
  <1>5. CASE ~(Len(a) > MaxSize)
    <2>1. Newest(a) = a /\ Len(a) <= MaxSize
      BY <1>1, <1>3, <1>5, ConfigAssumption DEF Newest
    <2>2. ASSUME NEW i \in 1..Len(s) + 1
          PROVE  \/ a[i] = k
                 \/ \E j \in DOMAIN s : a[i] = s[j] /\ j - Len(s) = i - Len(a) + 1
      <3>1. CASE i = Len(s) + 1  BY <1>1, <3>1
      <3>2. CASE i # Len(s) + 1
        <4>1. i \in DOMAIN s /\ a[i] = s[i]  BY <1>1, <1>3, <3>2
        <4>2. i - Len(s) = i - Len(a) + 1  BY <1>1, <1>3
        <4> QED  BY <4>1, <4>2
      <3> QED  BY <3>1, <3>2
    <2> QED  BY <1>3, <2>1, <2>2 DEF a
  <1> QED  BY <1>4, <1>5

(* Dropping a generation whole never loses a recent answer, however the keys  *)
(* of the answers repeat: the last MaxSize answers put are all still held     *)
(* (put, cache.go:66-69).                                                     *)
THEOREM RecentAnswersStayHeld == Spec => []RecentAnswersAreHeld
  <1>1. Init => HeldInv
    <2> SUFFICES ASSUME Init PROVE HeldInv OBVIOUS
    <2>1. SizeInv  BY EmptyIsSmall DEF Init, SizeInv
    <2>2. recent = <<>>  BY DEF Init
    <2>3. RecentInv /\ RecentAnswersAreHeld
      BY <2>2, ConfigAssumption DEF RecentInv, RecentAnswersAreHeld
    <2> QED  BY <2>1, <2>3 DEF HeldInv
  <1>2. ASSUME TypeOK, SizeInv', HeldInv, [Next]_vars  PROVE HeldInv'
    <2>1. CASE UNCHANGED entries
      <3>1. live' = live /\ old' = old /\ recent' = recent  BY <2>1 DEF entries
      <3> QED
        BY <1>2, <3>1 DEF HeldInv, SizeInv, Small, RecentInv, RecentAnswersAreHeld, Known
    <2>2. CASE ~UNCHANGED entries
      <3>1. PICK c \in Callers : Put(c)
        BY <1>2, <2>2, EntriesChangeInPut DEF vars
      <3> DEFINE k == cacheKey(q[c])
                 e == Filed(c)
                 n == Cardinality(DOMAIN live)
                 kept == IF Full THEN Empty ELSE live
      <3>2. /\ k \in Keys /\ recent \in Seq(Keys)
            /\ Store(k, e) /\ recent' = Newest(Append(recent, k))
        BY <1>2, <3>1, QuestionFacts DEF Put, TypeOK, CallsType
      <3> HIDE DEF k, e
      <3>3. DOMAIN live' = DOMAIN kept \cup {k}  BY <3>2 DEF Store, With
      <3>4. /\ Len(recent') <= MaxSize
            /\ \A i \in DOMAIN recent' :
                  \/ recent'[i] = k
                  \/ \E j \in DOMAIN recent :
                        /\ recent'[i] = recent[j]
                        /\ j - Len(recent) = i - Len(recent') + 1
        BY <1>2, <3>2, NewestFacts DEF HeldInv, RecentInv
      <3>5. /\ Len(recent) \in Nat /\ DOMAIN recent = 1..Len(recent)
            /\ Len(recent') \in Nat /\ DOMAIN recent' = 1..Len(recent')
        <4>1. recent' \in Seq(Keys)  BY <3>2, NewestType
        <4> QED  BY <3>2, <4>1, LenProperties
      <3>6. n \in Nat /\ IsFiniteSet(DOMAIN live)
        BY <1>2, FS_CardinalityType DEF HeldInv, SizeInv, Small
      <3>7. CASE Full
        <4>1. old' = live /\ DOMAIN live' = {k}
          BY <3>2, <3>3, <3>7 DEF Store, Empty
        <4>2. Cardinality(DOMAIN live') = 1  BY <4>1, FS_Singleton
        <4>3. \A j \in DOMAIN recent : recent[j] \in DOMAIN live
          BY <1>2, <3>5, <3>6, <3>7, ConfigAssumption DEF HeldInv, RecentInv, Full
        <4>4. RecentAnswersAreHeld'
          BY <3>4, <4>1, <4>3 DEF RecentAnswersAreHeld, Known
        <4>5. ASSUME NEW i \in DOMAIN recent', i + 1 > Len(recent')
              PROVE  recent'[i] \in DOMAIN live'
          <5>1. i = Len(recent')  BY <3>5, <4>5
          <5>2. recent'[i] = k  BY <3>4, <3>5, <4>5, <5>1
          <5> QED  BY <4>1, <5>2
        <4> QED  BY <1>2, <3>4, <4>2, <4>4, <4>5 DEF HeldInv, RecentInv
      <3>8. CASE ~Full
        <4>1. old' = old /\ DOMAIN live' = DOMAIN live \cup {k}
          BY <3>2, <3>3, <3>8 DEF Store
        <4>2. Cardinality(DOMAIN live') \in Nat /\ Cardinality(DOMAIN live') <= n + 1
          BY <3>6, <4>1, FS_AddElement
        <4>3. RecentAnswersAreHeld'
          BY <1>2, <3>4, <4>1 DEF HeldInv, RecentAnswersAreHeld, Known
        <4>4. ASSUME NEW i \in DOMAIN recent',
                     i + Cardinality(DOMAIN live') > Len(recent'), recent'[i] # k
              PROVE  recent'[i] \in DOMAIN live'
          <5>1. PICK j \in DOMAIN recent :
                  recent'[i] = recent[j] /\ j - Len(recent) = i - Len(recent') + 1
            BY <3>4, <4>4
          <5>2. j + n > Len(recent)  BY <3>5, <3>6, <4>2, <4>4, <5>1
          <5>3. recent[j] \in DOMAIN live  BY <1>2, <5>2 DEF HeldInv, RecentInv
          <5> QED  BY <4>1, <5>1, <5>3
        <4>5. \A i \in DOMAIN recent' :
                i + Cardinality(DOMAIN live') > Len(recent') => recent'[i] \in DOMAIN live'
          BY <4>1, <4>4
        <4> QED  BY <1>2, <3>4, <4>3, <4>5 DEF HeldInv, RecentInv
      <3> QED  BY <3>7, <3>8
    <2> QED  BY <2>1, <2>2
  <1>3. TypeOK /\ SizeInv' /\ HeldInv /\ [Next]_vars => HeldInv'  BY <1>2
  <1>4. HeldInv => RecentAnswersAreHeld  BY DEF HeldInv
  <1> QED  BY <1>1, <1>3, <1>4, TypeCorrect, SizeInvariant, PTL DEF Spec

----------------------------------------------------------------------------
(* Step-up refusals. *)

Curable(gen) == \E k \in DOMAIN gen : gen[k].decision = "step_up_required"
StepUpInv    == ~Curable(live) /\ ~Curable(old) /\ StepUpIsFresh

(* A refusal that re-authenticating cures is never answered from the cache   *)
(* (put, cache.go:58-63).                                                    *)
THEOREM StepUpAlwaysFresh == Spec => []StepUpIsFresh
  <1>1. Init => StepUpInv
    BY DEF Init, StepUpInv, Curable, Empty, StepUpIsFresh, NoReturn
  <1>2. StepUpInv /\ [Next]_vars => StepUpInv'
    <2> SUFFICES ASSUME StepUpInv, [Next]_vars PROVE StepUpInv' OBVIOUS
    <2>1. (~Curable(live) /\ ~Curable(old))'
      <3>1. CASE UNCHANGED entries
        BY <3>1 DEF entries, StepUpInv, Curable
      <3>2. CASE ~UNCHANGED entries
        <4>1. PICK c \in Callers : Put(c)
          BY <3>2, EntriesChangeInPut DEF vars
        <4> DEFINE k == cacheKey(q[c])
                   e == Filed(c)
        <4>2. e.decision # "step_up_required" BY <4>1 DEF Put, Cacheable, Filed
        <4>3. Store(k, e) BY <4>1 DEF Put
        <4> HIDE DEF k, e
        <4>4. ASSUME NEW gen, ~Curable(gen) PROVE ~Curable(With(gen, k, e))
          BY <4>2, <4>4 DEF Curable, With
        <4>5. ~Curable(Empty) BY DEF Curable, Empty
        <4>6. ~Curable(With(live, k, e)) /\ ~Curable(With(Empty, k, e))
          BY <4>4, <4>5 DEF StepUpInv
        <4>7. ~Curable(live') /\ ~Curable(old')
          BY <4>3, <4>6 DEF Store, StepUpInv
        <4> QED BY <4>7 DEF Curable
      <3> QED BY <3>1, <3>2
    <2>2. StepUpIsFresh'
      <3>1. ASSUME NEW c \in Callers, GetHit(c) PROVE StepUpIsFresh'
        <4>1. Known(cacheKey(q[c])) BY <3>1 DEF GetHit, Hit
        <4>2. Found(cacheKey(q[c])).decision # "step_up_required"
          BY <4>1 DEF Known, Found, StepUpInv, Curable
        <4> QED BY <3>1, <4>2 DEF GetHit, Return, StepUpIsFresh
      <3>2. ASSUME NEW c \in Callers,
                   RpcFail(c) \/ Put(c) \/ PutSkipped(c)
            PROVE  StepUpIsFresh'
        BY <3>2 DEF RpcFail, Put, PutSkipped, Return, StepUpIsFresh
      <3>3. CASE ret' = NoReturn BY <3>3 DEF NoReturn, StepUpIsFresh
      <3>4. CASE UNCHANGED vars BY <3>4 DEF vars, StepUpInv, StepUpIsFresh
      <3> QED
        BY <3>1, <3>2, <3>3, <3>4
        DEF Next, authorize, Silent, Ask, Refuse, GetMiss, Decide, Receive,
            Change, Tick
    <2> QED BY <2>1, <2>2 DEF StepUpInv
  <1>3. StepUpInv => StepUpIsFresh BY DEF StepUpInv
  <1> QED BY <1>1, <1>2, <1>3, PTL DEF Spec

----------------------------------------------------------------------------
(* How old an answer from the cache may be. *)

PastInv ==
    \A i \in Subjects, v \in Verdicts : was[i][v] <= clock
TripInv ==
    \A c \in Callers : pc[c] \in {"rpc", "answered"} =>
        sent[c] <= clock /\ clock <= sent[c] + Timeout
AnswerInv ==
    \A c \in Callers : pc[c] = "answered" =>
        LastTrue(Inputs(q[c]), d[c]) >= sent[c]
PutInv ==
    \A c \in Callers : pc[c] = "put" =>
        LastTrue(Inputs(q[c]), d[c]) + Timeout >= now[c]
Backed(gen) ==
    \A ask \in Asked : Plain(ask) /\ cacheKey(ask) \in DOMAIN gen =>
        LET e == gen[cacheKey(ask)]
        IN  e.plain => LastTrue(Inputs(ask), e.decision) + TTL + Timeout >= e.expires

\* Every answer under way was the server's recently enough for what the clock
\* readings made of it, and so was every answer filed for a plain question, to
\* each plain question that finds it.
FreshInv ==
    /\ PastInv /\ TripInv /\ AnswerInv /\ PutInv
    /\ Backed(live) /\ Backed(old)

LEMMA LastTrueType ==
    ASSUME TypeOK, NEW i \in Subjects, NEW v \in Verdicts
    PROVE  LastTrue(i, v) \in Int
  BY DEF TypeOK, WorldType, LastTrue

(* The server only moves forward: when it last gave an answer never recedes. *)
LEMMA LastTrueGrows ==
    ASSUME TypeOK, PastInv, [Next]_vars
    PROVE  /\ PastInv'
           /\ \A i \in Subjects, v \in Verdicts :
                  LastTrue(i, v)' >= LastTrue(i, v)
  <1>0. WorldType BY DEF TypeOK
  <1>1. CASE UNCHANGED world
    BY <1>0, <1>1 DEF world, WorldType, PastInv, LastTrue
  <1>2. ASSUME NEW i \in Subjects, NEW v \in Verdicts, Change(i, v)
        PROVE  /\ PastInv'
               /\ \A j \in Subjects, w \in Verdicts :
                      LastTrue(j, w)' >= LastTrue(j, w)
    <2>1. policy[i] \in Verdicts BY <1>0 DEF WorldType
    <2>2. ASSUME NEW j \in Subjects, NEW w \in Verdicts
          PROVE  was'[j][w] = IF j = i /\ w = policy[i] THEN clock ELSE was[j][w]
      BY <1>0, <1>2, <2>1 DEF Change, WorldType
    <2>3. clock' = clock /\ \A j \in Subjects :
              policy'[j] = IF j = i THEN v ELSE policy[j]
      BY <1>0, <1>2 DEF Change, WorldType
    <2> QED BY <1>0, <2>1, <2>2, <2>3 DEF WorldType, PastInv, LastTrue
  <1>3. CASE Tick
    BY <1>0, <1>3 DEF Tick, WorldType, PastInv, LastTrue
  <1>4. \/ UNCHANGED world \/ Tick
        \/ \E i \in Subjects, v \in Verdicts : Change(i, v)
    BY DEF Next, authorize, Ask, Refuse, GetHit, GetMiss, Decide, Receive,
           RpcFail, Put, PutSkipped, vars
  <1> QED BY <1>1, <1>2, <1>3, <1>4

(* A goroutine that is not at work keeps its locals, and one that has an     *)
(* answer in hand got it from Decide or from Receive.                        *)
LEMMA AnswerInHand ==
    ASSUME TypeOK, [Next]_vars, NEW c \in Callers,
           pc'[c] \in {"answered", "put"}
    PROVE  \/ Decide(c) \/ Receive(c)
           \/ pc'[c] = pc[c] /\ UNCHANGED <<q[c], now[c], sent[c], d[c]>>
  <1> DEFINE Same == pc'[c] = pc[c] /\ UNCHANGED <<q[c], now[c], sent[c], d[c]>>
  <1>0. CallsType BY DEF TypeOK
  <1>1. ASSUME NEW b \in Callers, NEW v, NEW hit, NEW plain, Return(b, v, hit, plain) PROVE Same
    BY <1>0, <1>1 DEF Return, CallsType
  <1>2. ASSUME NEW b \in Callers, NEW ask \in Questions, Ask(b, ask) PROVE Same
    BY <1>0, <1>2 DEF Ask, CallsType
  <1>3. ASSUME NEW b \in Callers, GetMiss(b) PROVE Same
    BY <1>0, <1>3 DEF GetMiss, CallsType
  <1>4. ASSUME NEW b \in Callers, b # c, Decide(b) \/ Receive(b) PROVE Same
    BY <1>0, <1>4 DEF Decide, Receive, CallsType
  <1>5. CASE UNCHANGED <<pc, locals>> BY <1>5 DEF locals
  <1> QED
    BY <1>1, <1>2, <1>3, <1>4, <1>5
    DEF Next, authorize, Refuse, GetHit, RpcFail, Put, PutSkipped, Change,
        Tick, vars

LEMMA FreshInductive ==
    ASSUME TypeOK, TypeOK', FreshInv, [Next]_vars
    PROVE  FreshInv'
  <1> USE ConfigAssumption, BoundsAssumption
  <1>0. /\ CallsType /\ WorldType /\ Generation(live) /\ Generation(old)
        /\ PastInv /\ TripInv /\ AnswerInv /\ PutInv
        /\ Backed(live) /\ Backed(old)
    BY DEF TypeOK, FreshInv
  <1>1. /\ PastInv'
        /\ \A i \in Subjects, v \in Verdicts :
               /\ LastTrue(i, v) \in Int /\ LastTrue(i, v)' \in Int
               /\ LastTrue(i, v)' >= LastTrue(i, v)
    <2>1. \A i \in Subjects, v \in Verdicts : LastTrue(i, v) \in Int
      BY LastTrueType
    <2>2. \A i \in Subjects, v \in Verdicts : LastTrue(i, v)' \in Int
      BY DEF TypeOK, WorldType, LastTrue
    <2> QED BY <1>0, <2>1, <2>2, LastTrueGrows
  <1>2. TripInv'
    <2>1. ASSUME NEW c \in Callers, NEW ask \in Questions, Ask(c, ask)
          PROVE  TripInv'
      BY <1>0, <2>1 DEF Ask, TripInv, CallsType, world
    <2>2. ASSUME NEW c \in Callers, NEW v, NEW hit, NEW plain, Return(c, v, hit, plain),
                 UNCHANGED world
          PROVE  TripInv'
      BY <1>0, <2>2 DEF Return, TripInv, CallsType, world
    <2>3. ASSUME NEW c \in Callers, GetMiss(c) PROVE TripInv'
      BY <1>0, <2>3 DEF GetMiss, TripInv, CallsType, WorldType, world
    <2>4. ASSUME NEW c \in Callers, Decide(c) \/ Receive(c) PROVE TripInv'
      BY <1>0, <2>4 DEF Decide, Receive, TripInv, CallsType, world
    <2>5. CASE Tick
      BY <1>0, <2>5 DEF Tick, TripInv, CallsType, WorldType, locals
    <2>6. CASE UNCHANGED <<pc, sent, clock>> BY <1>0, <2>6 DEF TripInv
    <2> QED
      BY <2>1, <2>2, <2>3, <2>4, <2>5, <2>6
      DEF Next, authorize, Refuse, GetHit, RpcFail, Put, PutSkipped, Change,
          vars, locals, world
  <1>3. AnswerInv'
    <2> SUFFICES ASSUME NEW c \in Callers, pc'[c] = "answered"
                 PROVE  LastTrue(Inputs(q[c]), d[c])' >= sent'[c]
      BY DEF AnswerInv
    <2>1. CASE Decide(c)
      <3>1. Inputs(q[c]) \in Subjects BY <1>0, QuestionFacts DEF CallsType
      <3>2. /\ q' = q /\ sent' = sent /\ clock' = clock /\ policy' = policy
            /\ d'[c] = policy[Inputs(q[c])]
        BY <1>0, <2>1 DEF Decide, CallsType, world
      <3>3. LastTrue(Inputs(q[c]), d[c])' = clock
        BY <3>2 DEF LastTrue
      <3> QED BY <1>0, <2>1, <3>2, <3>3 DEF Decide, TripInv
    <2>2. CASE pc[c] = "answered" /\ UNCHANGED <<q[c], d[c], sent[c]>>
      <3>1. Inputs(q[c]) \in Subjects /\ d[c] \in Verdicts /\ sent[c] \in Nat
        BY <1>0, QuestionFacts DEF CallsType
      <3> QED BY <1>0, <1>1, <2>2, <3>1 DEF AnswerInv
    <2>3. ~Receive(c) BY <1>0 DEF Receive, CallsType
    <2> QED BY <2>1, <2>2, <2>3, AnswerInHand
  <1>4. PutInv'
    <2> SUFFICES ASSUME NEW c \in Callers, pc'[c] = "put"
                 PROVE  LastTrue(Inputs(q[c]), d[c])' + Timeout >= now'[c]
      BY DEF PutInv
    <2>0. Inputs(q[c]) \in Subjects /\ d[c] \in Verdicts
          /\ sent[c] \in Nat /\ now[c] \in Nat /\ clock \in Nat
      BY <1>0, QuestionFacts DEF CallsType, WorldType
    <2>1. CASE Receive(c)
      <3>1. LastTrue(Inputs(q[c]), d[c]) >= sent[c] /\ clock <= sent[c] + Timeout
        BY <1>0, <2>1 DEF Receive, AnswerInv, TripInv
      <3>2. q' = q /\ d' = d /\ now'[c] = clock
        BY <1>0, <2>1 DEF Receive, CallsType
      <3> QED BY <1>1, <2>0, <3>1, <3>2
    <2>2. CASE pc[c] = "put" /\ UNCHANGED <<q[c], d[c], now[c]>>
      BY <1>0, <1>1, <2>0, <2>2 DEF PutInv
    <2>3. ~Decide(c) BY <1>0 DEF Decide, CallsType
    <2> QED BY <2>1, <2>2, <2>3, AnswerInHand
  <1> DEFINE Later(i, v) == IF policy'[i] = v THEN clock' ELSE was'[i][v]
             Backs(ask, e) == e.plain =>
                 Later(Inputs(ask), e.decision) + TTL + Timeout >= e.expires
  <1>5. \A i \in Subjects, v \in Verdicts :
            /\ LastTrue(i, v) \in Int /\ Later(i, v) \in Int
            /\ Later(i, v) >= LastTrue(i, v)
    BY <1>1 DEF LastTrue
  <1>6. Backed(live)' /\ Backed(old)'
    <2>0. ASSUME NEW ask \in Asked, NEW e \in Entry,
                 e.plain =>
                   LastTrue(Inputs(ask), e.decision) + TTL + Timeout >= e.expires
          PROVE  Backs(ask, e)
      <3>1. e.decision \in Verdicts /\ e.expires \in Nat BY DEF Entry
      <3>2. Inputs(ask) \in Subjects BY QuestionFacts
      <3> HIDE DEF Later
      <3> QED BY <1>5, <2>0, <3>1, <3>2
    <2> HIDE DEF Backs
    <2>1. \A ask \in Asked : Plain(ask) /\ cacheKey(ask) \in DOMAIN live =>
              Backs(ask, live[cacheKey(ask)])
      BY <1>0, <2>0 DEF Backed, Generation
    <2>2. \A ask \in Asked : Plain(ask) /\ cacheKey(ask) \in DOMAIN old =>
              Backs(ask, old[cacheKey(ask)])
      BY <1>0, <2>0 DEF Backed, Generation
    <2>3. CASE UNCHANGED entries
      <3>1. live' = live /\ old' = old BY <2>3 DEF entries
      <3> QED BY <2>1, <2>2, <3>1 DEF Backed, Backs, LastTrue
    <2>4. ASSUME NEW c \in Callers, Put(c) PROVE Backed(live)' /\ Backed(old)'
      <3> DEFINE k == cacheKey(q[c])
                 f == Filed(c)
      <3>1. /\ Store(k, f) /\ pc[c] = "put" /\ UNCHANGED world
            /\ q[c] \in Asked /\ d[c] \in Verdicts /\ now[c] \in Nat
        BY <1>0, <2>4 DEF Put, CallsType
      <3>2. ASSUME NEW ask \in Asked, Plain(ask), cacheKey(ask) = k
            PROVE  Backs(ask, f)
        <4>0. f \in Entry BY <3>1 DEF Entry, Filed, Plain
        <4>1. f.decision = d[c] /\ f.expires = now[c] + TTL /\ f.plain = Plain(q[c])
          BY DEF Filed
        <4> HIDE DEF f
        <4> SUFFICES ASSUME f.plain
                     PROVE  LastTrue(Inputs(ask), f.decision) + TTL + Timeout >= f.expires
          BY <2>0, <4>0
        <4>2. Inputs(ask) = Inputs(q[c]) BY <3>1, <3>2, <4>1, KeyCoversInputs
        <4>3. LastTrue(Inputs(ask), d[c]) + Timeout >= now[c]
          BY <1>0, <3>1, <4>2 DEF PutInv
        <4>4. Inputs(ask) \in Subjects BY QuestionFacts
        <4>5. LastTrue(Inputs(ask), d[c]) + TTL + Timeout >= now[c] + TTL
          BY <1>1, <3>1, <4>3, <4>4
        <4> QED BY <4>1, <4>5
      <3> HIDE DEF k, f
      <3>3. ASSUME NEW ask \in Asked, Plain(ask), cacheKey(ask) \in DOMAIN live'
            PROVE  Backs(ask, live'[cacheKey(ask)])
        BY <2>1, <3>1, <3>2, <3>3 DEF Store, With, Empty
      <3>4. ASSUME NEW ask \in Asked, Plain(ask), cacheKey(ask) \in DOMAIN old'
            PROVE  Backs(ask, old'[cacheKey(ask)])
        BY <2>1, <2>2, <3>1, <3>4 DEF Store
      <3> QED BY <3>3, <3>4 DEF Backed, Backs, LastTrue
    <2> QED BY <2>3, <2>4, EntriesChangeInPut DEF vars
  <1> QED BY <1>1, <1>2, <1>3, <1>4, <1>6 DEF FreshInv

(* An answer to a plain question, served from what a plain question filed, is *)
(* one the server gave to that same question and stood by until at most a TTL *)
(* and a round trip before the call, whatever other questions share the cache *)
(* (authorize, authz.go:150-172).                                             *)
THEOREM CachedAnswersAreRecent == Spec => []CachedAnswerIsRecent
  <1> DEFINE Inv == FreshInv /\ CachedAnswerIsRecent
  <1>1. Init => Inv
    <2> SUFFICES ASSUME Init PROVE Inv OBVIOUS
    <2>1. PastInv BY DEF Init, PastInv
    <2>2. TripInv /\ AnswerInv /\ PutInv
      BY DEF Init, TripInv, AnswerInv, PutInv
    <2>3. Backed(live) /\ Backed(old) BY DEF Init, Backed, Empty
    <2>4. CachedAnswerIsRecent BY DEF Init, NoReturn, CachedAnswerIsRecent
    <2> QED BY <2>1, <2>2, <2>3, <2>4 DEF FreshInv
  <1>2. TypeOK /\ TypeOK' /\ Inv /\ [Next]_vars => Inv'
    <2> SUFFICES ASSUME TypeOK, TypeOK', Inv, [Next]_vars PROVE Inv' OBVIOUS
    <2>1. FreshInv' BY FreshInductive
    <2>2. ASSUME NEW c \in Callers, GetHit(c) PROVE CachedAnswerIsRecent'
      <3> DEFINE k == cacheKey(q[c])
                 e == Found(k)
      <3>1. q[c] \in Asked /\ Inputs(q[c]) \in Subjects /\ now[c] \in Nat
        BY QuestionFacts DEF TypeOK, CallsType
      <3>2. Known(k) /\ now[c] <= e.expires
        BY <2>2 DEF GetHit, Hit
      <3>3. e \in Entry
        BY <3>2, FoundIsEntry DEF TypeOK, EntriesType
      <3>a. ret'.plain = (Plain(q[c]) /\ e.plain)
        BY <2>2 DEF GetHit, Return
      <3>b. SUFFICES ASSUME Plain(q[c]), e.plain PROVE CachedAnswerIsRecent'
        BY <3>a DEF CachedAnswerIsRecent
      <3>4. LastTrue(Inputs(q[c]), e.decision) + TTL + Timeout >= e.expires
        BY <3>1, <3>2, <3>b DEF FreshInv, Backed, Known, Found
      <3>5. LastTrue(Inputs(q[c]), e.decision) \in Int
        BY <3>1, <3>3, LastTrueType DEF Entry
      <3>6. ret'.age = now[c] - LastTrue(Inputs(q[c]), e.decision)
        BY <2>2 DEF GetHit, Return
      <3>7. e.expires \in Nat BY <3>3 DEF Entry
      <3> QED
        BY <3>1, <3>2, <3>4, <3>5, <3>6, <3>7, ConfigAssumption, BoundsAssumption
        DEF CachedAnswerIsRecent
    <2>3. ASSUME NEW c \in Callers, RpcFail(c) \/ Put(c) \/ PutSkipped(c)
          PROVE  CachedAnswerIsRecent'
      BY <2>3 DEF RpcFail, Put, PutSkipped, Return, CachedAnswerIsRecent
    <2>4. ASSUME ret' = NoReturn PROVE CachedAnswerIsRecent'
      <3>1. ret'.hit = FALSE BY <2>4 DEF NoReturn
      <3> QED BY <3>1 DEF CachedAnswerIsRecent
    <2>5. ASSUME UNCHANGED vars PROVE CachedAnswerIsRecent'
      <3>1. ret' = ret BY <2>5 DEF vars
      <3> QED BY <3>1 DEF CachedAnswerIsRecent
    <2>6. CachedAnswerIsRecent'
      BY <2>2, <2>3, <2>4, <2>5
      DEF Next, authorize, Silent, Ask, Refuse, GetMiss, Decide, Receive,
          Change, Tick
    <2> QED BY <2>1, <2>6
  <1>3. Inv => CachedAnswerIsRecent OBVIOUS
  <1> QED BY <1>1, <1>2, <1>3, TypeCorrect, PTL DEF Spec
=============================================================================
