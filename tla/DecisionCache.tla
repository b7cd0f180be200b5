--------------------------- MODULE DecisionCache ---------------------------
(***************************************************************************)
(* Authorization with a decision cache (authz.go authorize, cache.go):     *)
(* goroutines ask the server about a permission and reuse its answer for   *)
(* TTL.  Eviction is generational: a full live generation becomes the old  *)
(* one.  One action is one critical section of the cache's mutex, one read *)
(* of the clock before it, or one step of the round trip.                  *)
(***************************************************************************)
EXTENDS Integers, Sequences, FiniteSets

CONSTANTS
    Callers,    \* goroutines that call authorize
    Questions,  \* [subject, permission, scopes, amr, authTime] asked
    ValidPermissions, \* the keys Permission.IsValid accepts: app:resource:action
    TTL,        \* cfg.TTL
    MaxSize,    \* cfg.MaxSize
    Timeout,    \* longest a round trip may take: the http.Client's Timeout
    MaxClock,   \* bound: last instant
    MaxChanges  \* bound: changes of policy

\* WithDecisionCache refuses a TTL and replaces a MaxSize that is not positive.
ASSUME ConfigAssumption == TTL \in Nat \ {0} /\ MaxSize \in Nat \ {0}
ASSUME BoundsAssumption ==
    Timeout \in Nat /\ MaxClock \in Nat /\ MaxChanges \in Nat

(* The key is the question's parts, each followed by a NUL byte, hashed.     *)
(* What it keeps of them shows at that grain: a Text is what stands between  *)
(* two NULs, as the words between its "=" signs.  A scope is written         *)
(* axis=value, so its text has an axis of at least one word before a value   *)
(* of at least one; nothing is escaped, so an axis may have more words than  *)
(* one, and a value with a NUL in it goes on in a text that has no axis.     *)
Text  == Seq(STRING)
Piece == {x \in [text : Text, axis : Nat] : x.axis < Len(x.text)}

ASSUME QuestionsAssumption ==
    /\ \E ask \in Questions : ask.subject # "" /\ ask.permission \in ValidPermissions
    /\ \A ask \in Questions : ask.scopes \in Seq(Piece) /\ ask.amr \in Seq(Text)
ASSUME PermissionsAssumption == "" \notin ValidPermissions

Verdicts == {"allow", "deny", "step_up_required"}

\* What the server's answer depends on.
Inputs(ask) == <<ask.subject, ask.permission, ask.scopes,
               {ask.amr[i] : i \in DOMAIN ask.amr}, ask.authTime>>

\* What is written of the scopes: where an axis ends is not.
Texts(scopes) == [i \in DOMAIN scopes |-> scopes[i].text]

\* sort.Strings: one of the list's arrangements, the same for all of them.
Arrangements(list) ==
    {[i \in DOMAIN list |-> list[p[i]]] :
        p \in {p \in [DOMAIN list -> DOMAIN list] :
                 \A j \in DOMAIN list : \E i \in DOMAIN list : p[i] = j}}
Sorted(list) == CHOOSE s \in Arrangements(list) : TRUE

\* Mutant: leaves the authentication time out.
cacheKeyTimeless(ask) ==
    <<ask.subject, ask.permission, Texts(ask.scopes) \o Sorted(ask.amr), 0>>

\* Every input of the decision, with no mark where the scopes end and the
\* methods begin.  The first two parts and the last are one text each, so they
\* stay apart from what is between them.  The hash is taken to be injective.
cacheKey(ask) ==
    <<ask.subject, ask.permission, Texts(ask.scopes) \o Sorted(ask.amr), ask.authTime>>

\* The questions that are written unambiguously: no axis and no method has an
\* "=" in it, and no value a NUL.
Plain(ask) ==
    /\ \A i \in DOMAIN ask.scopes : ask.scopes[i].axis = 1
    /\ \A i \in DOMAIN ask.amr : Len(ask.amr[i]) <= 1

\* The questions that authorize puts to the server: others it refuses at once.
WellFormed(ask) ==
    /\ ask.subject # "" /\ ask.permission # ""
    /\ ask.permission \in ValidPermissions

Asked    == {ask \in Questions : WellFormed(ask)}
Keys     == {cacheKey(ask) : ask \in Asked}
Subjects == {Inputs(ask) : ask \in Asked}
AnyQuestion == CHOOSE ask \in Asked : TRUE

VARIABLES
    live, old,  \* the two generations: key -> [decision, expires], and whether
                \* the answer was to a plain question
    pc,         \* pc[c]: where c is in authorize
    q,          \* q[c]: its arguments
    now,        \* now[c]: the last reading of the clock it took
    sent,       \* sent[c]: when its round trip began
    d,          \* d[c]: the server's answer
    ret,        \* what a call that has just ended returned, and from where
    recent,     \* the keys of the last MaxSize answers put, newest last
    policy,     \* policy[i]: the server's answer to inputs i, now
    was,        \* was[i][v]: when i's answer last stopped being v, -1 if never
    clock,      \* the time
    changes     \* number of changes of policy so far

entries == <<live, old, recent>>
locals  == <<q, now, sent, d>>
world   == <<policy, was, clock, changes>>
vars    == <<entries, pc, locals, ret, world>>

Entry   == [decision : Verdicts, expires : Nat, plain : BOOLEAN]
Steps   == {"idle", "get", "rpc", "answered", "put"}
Empty   == [k \in {} |-> [decision |-> "deny", expires |-> 0, plain |-> TRUE]]
NoReturn == [decision |-> "error", hit |-> FALSE, age |-> 0, plain |-> TRUE]

\* The step ends no call.
Silent == ret' = NoReturn

\* When the server last would have answered v to inputs i.
LastTrue(i, v) == IF policy[i] = v THEN clock ELSE was[i][v]

Init ==
    /\ live = Empty /\ old = Empty /\ recent = <<>>
    /\ pc = [c \in Callers |-> "idle"]
    /\ q = [c \in Callers |-> AnyQuestion]
    /\ now = [c \in Callers |-> 0]
    /\ sent = [c \in Callers |-> 0]
    /\ d = [c \in Callers |-> "deny"]
    /\ ret = NoReturn
    /\ policy \in [Subjects -> Verdicts]
    /\ was = [i \in Subjects |-> [v \in Verdicts |-> -1]]
    /\ clock = 0 /\ changes = 0

----------------------------------------------------------------------------
(* authorize *)

\* The call ends and its locals with it.  Recorded is how long before the clock
\* reading of the call the answer had stopped being the server's, and whether
\* question and answer are those of plain questions.
Return(c, v, hit, plain) ==
    /\ pc' = [pc EXCEPT ![c] = "idle"]
    /\ ret' = [decision |-> v, hit |-> hit, plain |-> plain,
               age |-> IF hit THEN now[c] - LastTrue(Inputs(q[c]), v) ELSE 0]
    /\ q' = [q EXCEPT ![c] = AnyQuestion]
    /\ now' = [now EXCEPT ![c] = 0]
    /\ sent' = [sent EXCEPT ![c] = 0]
    /\ d' = [d EXCEPT ![c] = "deny"]

\* A malformed question is refused without a round trip.
Refuse(c, ask) ==
    /\ pc[c] = "idle" /\ ~WellFormed(ask)
    /\ ret' = NoReturn
    /\ UNCHANGED <<pc, locals, entries, world>>

\* A well-formed one reads the clock for get.
Ask(c, ask) ==
    /\ pc[c] = "idle" /\ WellFormed(ask)
    /\ pc' = [pc EXCEPT ![c] = "get"]
    /\ q' = [q EXCEPT ![c] = ask]
    /\ now' = [now EXCEPT ![c] = clock]
    /\ Silent /\ UNCHANGED <<sent, d, entries, world>>

Known(k) == k \in DOMAIN live \cup DOMAIN old

\* The live generation's entry shadows the old one's, expired or not.
Found(k) == IF k \in DOMAIN live THEN live[k] ELSE old[k]

\* Mutant: an entry is good for as long as it is held.
HitExpired(k, n) == Known(k)

\* get finds an entry that has not expired.
Hit(k, n) == Known(k) /\ n <= Found(k).expires

GetHit(c) ==
    LET k == cacheKey(q[c]) IN
    /\ pc[c] = "get" /\ Hit(k, now[c])
    /\ Return(c, Found(k).decision, TRUE, Plain(q[c]) /\ Found(k).plain)
    /\ UNCHANGED <<entries, world>>

\* A miss: the question goes to the server.
GetMiss(c) ==
    /\ pc[c] = "get" /\ ~Hit(cacheKey(q[c]), now[c])
    /\ pc' = [pc EXCEPT ![c] = "rpc"]
    /\ sent' = [sent EXCEPT ![c] = clock]
    /\ now' = [now EXCEPT ![c] = 0]
    /\ Silent /\ UNCHANGED <<q, d, entries, world>>

\* The server decides by its policy at that moment.
Decide(c) ==
    /\ pc[c] = "rpc"
    /\ d' = [d EXCEPT ![c] = policy[Inputs(q[c])]]
    /\ pc' = [pc EXCEPT ![c] = "answered"]
    /\ Silent /\ UNCHANGED <<q, now, sent, entries, world>>

\* The round trip fails, decided or not: nothing is cached.
RpcFail(c) ==
    /\ pc[c] \in {"rpc", "answered"}
    /\ Return(c, "error", FALSE, TRUE)
    /\ UNCHANGED <<entries, world>>

\* The answer arrives, and the clock is read for put.
Receive(c) ==
    /\ pc[c] = "answered"
    /\ now' = [now EXCEPT ![c] = clock]
    /\ sent' = [sent EXCEPT ![c] = 0]
    /\ pc' = [pc EXCEPT ![c] = "put"]
    /\ Silent /\ UNCHANGED <<q, d, entries, world>>

----------------------------------------------------------------------------
(* put *)

\* Mutant: everything is worth caching.
CacheableAll(v) == v \in Verdicts

\* A step-up refusal is not kept.
Cacheable(v) == v # "step_up_required"

PutSkipped(c) ==
    /\ pc[c] = "put" /\ ~Cacheable(d[c])
    /\ Return(c, d[c], FALSE, TRUE)
    /\ UNCHANGED <<entries, world>>

\* The entry put makes of the answer.
Filed(c) == [decision |-> d[c], expires |-> now[c] + TTL, plain |-> Plain(q[c])]

With(gen, k, e) == [x \in DOMAIN gen \cup {k} |-> IF x = k THEN e ELSE gen[x]]

Newest(seq) == IF Len(seq) > MaxSize THEN Tail(seq) ELSE seq

Full == Cardinality(DOMAIN live) >= MaxSize

\* Mutants: the live generation just grows; its entries are lost when it fills;
\* the answer is filed under less than the key it is looked up by.
StoreGrowing(k, e) ==
    live' = With(live, k, e) /\ old' = old
StoreForgetful(k, e) ==
    live' = With(IF Full THEN Empty ELSE live, k, e) /\ old' = old
PutMisfiled(c) ==
    LET k == cacheKeyTimeless(q[c]) IN
    /\ pc[c] = "put" /\ Cacheable(d[c])
    /\ live' = With(live, k, Filed(c))
    /\ Return(c, d[c], FALSE, TRUE)
    /\ UNCHANGED <<old, recent, world>>

\* A full live generation becomes the old one, whole.
Store(k, e) ==
    /\ old' = IF Full THEN live ELSE old
    /\ live' = With(IF Full THEN Empty ELSE live, k, e)

Put(c) ==
    LET k == cacheKey(q[c]) IN
    /\ pc[c] = "put" /\ Cacheable(d[c])
    /\ Store(k, Filed(c))
    /\ recent' = Newest(Append(recent, k))
    /\ Return(c, d[c], FALSE, TRUE)
    /\ UNCHANGED world

----------------------------------------------------------------------------
(* The server's policy and the clock. *)

\* A grant, a role or an identity changes, and with it the answer to i.
Change(i, v) ==
    /\ v # policy[i] /\ changes < MaxChanges
    /\ changes' = changes + 1
    /\ policy' = [policy EXCEPT ![i] = v]
    /\ was' = [was EXCEPT ![i][policy[i]] = clock]
    /\ Silent /\ UNCHANGED <<entries, pc, locals, clock>>

\* Time passes; a round trip is given up before it has taken longer than
\* Timeout.
Tick ==
    /\ clock < MaxClock
    /\ \A c \in Callers :
           pc[c] \in {"rpc", "answered"} => clock < sent[c] + Timeout
    /\ clock' = clock + 1
    /\ Silent /\ UNCHANGED <<entries, pc, locals, policy, was, changes>>

authorize(c) ==
    \/ GetHit(c) \/ GetMiss(c)
    \/ Decide(c) \/ Receive(c) \/ RpcFail(c)
    \/ Put(c) \/ PutSkipped(c)

Next ==
    \/ \E c \in Callers :
          authorize(c) \/ \E ask \in Questions : Ask(c, ask) \/ Refuse(c, ask)
    \/ \E i \in Subjects, v \in Verdicts : Change(i, v)
    \/ Tick

Spec == Init /\ [][Next]_vars

----------------------------------------------------------------------------
(* Properties *)

Generation(gen) == DOMAIN gen \subseteq Keys /\ gen \in [DOMAIN gen -> Entry]

CallsType ==
    /\ pc \in [Callers -> Steps]
    /\ q \in [Callers -> Asked]
    /\ now \in [Callers -> Nat] /\ sent \in [Callers -> Nat]
    /\ d \in [Callers -> Verdicts]

WorldType ==
    /\ policy \in [Subjects -> Verdicts]
    /\ was \in [Subjects -> [Verdicts -> Int]]
    /\ clock \in Nat /\ changes \in 0..MaxChanges

\* Every variable has its type, and only keys of questions are filed
\* (decisionCache, cache.go:20).
TypeOK ==
    /\ Generation(live) /\ Generation(old) /\ recent \in Seq(Keys)
    /\ CallsType /\ WorldType
    /\ ret.age \in Int

\* Neither generation outgrows MaxSize, whatever is asked (put, cache.go:66).
GenerationsBounded ==
    /\ Cardinality(DOMAIN live) <= MaxSize
    /\ Cardinality(DOMAIN old) <= MaxSize

\* Dropping a generation whole never loses a recent answer: the last MaxSize
\* answers put are all still held (put, cache.go:66-69).
RecentAnswersAreHeld == \A i \in DOMAIN recent : Known(recent[i])

\* An answer to a plain question, served from what a plain question filed, is
\* one the server gave to that same question, with the same scopes, methods and
\* authentication time, and that it stood by until at most a TTL and a round
\* trip before the call, whatever other questions share the cache (authorize,
\* authz.go:150-172).
CachedAnswerIsRecent == ret.hit /\ ret.plain => ret.age <= TTL + Timeout

\* A refusal that re-authenticating cures always comes from the server: the
\* retry of a user who has done so is never answered from the cache
\* (put, cache.go:58-63).
StepUpIsFresh == ret.decision = "step_up_required" => ~ret.hit

\* Documented at options.go:111, the TTL is "exactly, how long a disabled
\* identity keeps its access": no allow is reused later than that.
AllowOutlivesNoTTL ==
    ret.hit /\ ret.plain /\ ret.decision = "allow" => ret.age <= TTL

\* Documented at cache.go:72-76, cacheKey "covers every input the decision
\* depended on", so that no caller is answered "with another caller's answer":
\* what is served was the server's answer to this question.
AnsweredOwnQuestion == ret.hit => ret.age <= TTL + Timeout
=============================================================================
