----------------------------- MODULE ShareLinks -----------------------------
(***************************************************************************)
(* Record shares and access links: the calls of share.go and granted.go    *)
(* against the share endpoints of the fake server.  Calls run              *)
(* concurrently and each handler is the critical sections of its code:     *)
(* refuseLink is a section of its own ahead of the procedure's, and        *)
(* openAccessLink reads the share in one section, mints a token under no   *)
(* lock, and registers that token in another.                              *)
(***************************************************************************)
EXTENDS Naturals, FiniteSets

CONSTANTS
  Calls,        \* calls that may be under way at a time
  MaxSeq,       \* bound on s.seq, which numbers shares and links alike
  MaxBearers,   \* bound on link bearers
  None

ASSUME SeqAssumption == MaxSeq \in Nat /\ MaxBearers \in Nat
ASSUME NoneAssumption == None \notin Nat

VARIABLES
  seq,           \* s.seq
  shares,        \* ids of the shares there are
  links,         \* link token -> share id, or None
  linkBearers,   \* tokens refuseLink knows
  minted,        \* tokens minted so far, numbered
  held,          \* tokens some client was answered with
  call,          \* call -> procedure, credential, argument and progress
  linkServed     \* the procedure the call that ended last was served by, if that
                 \* call was made with a link token

vars == <<seq, shares, links, linkBearers, minted, held, call, linkServed>>

Ids == 1..MaxSeq
Bearers == 1..MaxBearers
NoCredential == [kind |-> "none", token |-> 0]
Link(b) == [kind |-> "link", token |-> b]
Credentials == {NoCredential, [kind |-> "user", token |-> 0]} \cup {Link(b) : b \in Bearers}
\* The procedures whose handlers begin with refuseLink: they act for a person.
Personal == {"Share", "Unshare", "ListSharesOnRecord", "ListSharedWithMe",
             "CreateAccessLink", "ListGrantedNodes"}
\* The other authenticated ones; Admin stands for what guarded wraps.
Unchecked == {"Authorize", "Explain", "Introspect", "StreamRevocations", "Admin"}
Procedures == Personal \cup Unchecked \cup {"OpenAccessLink"}
Idle == [proc |-> "Authorize", cred |-> NoCredential, id |-> 0, at |-> "idle"]

\* Every variable has its type; shares carry ids the counter has given out and
\* clients hold only tokens that were minted (share, server.go:451, and MintToken, :215).
TypeOK ==
  /\ seq \in 0..MaxSeq
  /\ shares \subseteq 1..seq
  /\ links \in [Ids -> Ids \cup {None}]
  /\ linkBearers \subseteq Bearers
  /\ minted \in 0..MaxBearers
  /\ held \subseteq 1..minted
  /\ call \in [Calls -> [proc: Procedures, cred: Credentials, id: 0..(MaxSeq + MaxBearers),
                         at: {"idle", "arrived", "checked", "found", "minted", "registered"}]]
  /\ linkServed \subseteq Procedures

Init ==
  /\ seq = 0
  /\ shares = {}
  /\ links = [i \in Ids |-> None]
  /\ linkBearers = {}
  /\ minted = 0
  /\ held = {}
  /\ call = [c \in Calls |-> Idle]
  /\ linkServed = {}

state == <<seq, shares, links>>
tokens == <<linkBearers, minted, held>>

Finish(c) == call' = [call EXCEPT ![c] = Idle]
Serve(c) ==
  /\ Finish(c)
  /\ linkServed' = IF call[c].cred.kind = "link" THEN {call[c].proc} ELSE {}
Refuse(c) == Finish(c) /\ linkServed' = {}
At(c, proc, place) == call[c].proc = proc /\ call[c].at = place

-----------------------------------------------------------------------------
(* What clients send. *)

Send(c, proc, cred, id) ==
  /\ call[c].at = "idle"
  /\ cred.kind = "link" => cred.token \in held
  /\ call' = [call EXCEPT ![c] = [proc |-> proc, cred |-> cred, id |-> id, at |-> "arrived"]]
  /\ UNCHANGED <<state, tokens, linkServed>>

\* A share request names a record (and somebody, a permission and an end:
\* anything less is refused before it is sent).
Share(c, cred) == Send(c, "Share", cred, 0)
Unshare(c, cred, id) == id <= seq /\ Send(c, "Unshare", cred, id)
SharesOnRecord(c, cred) == Send(c, "ListSharesOnRecord", cred, 0)
SharedWithMe(c, cred) == Send(c, "ListSharedWithMe", cred, 0)
CreateAccessLink(c, cred, id) == id <= seq /\ Send(c, "CreateAccessLink", cred, id)
GrantedNodes(c, cred) == Send(c, "ListGrantedNodes", cred, 0)
Authorize(c, cred) == Send(c, "Authorize", cred, 0)
Explain(c, cred) == Send(c, "Explain", cred, 0)
Introspect(c, cred) == Send(c, "Introspect", cred, 0)
StreamRevocations(c, cred) == Send(c, "StreamRevocations", cred, 0)
AdminCall(c, cred) == Send(c, "Admin", cred, 0)

\* The holder of a link has no credential: rpcNoAuth.
OpenAccessLink(c, link) == link <= seq /\ Send(c, "OpenAccessLink", NoCredential, link)

-----------------------------------------------------------------------------
(* The handlers. *)

\* A link token authenticates nobody on any of these procedures.
refuseLink(c) ==
  /\ call[c].at = "arrived" /\ call[c].proc \in Personal
  /\ IF call[c].cred.kind = "link" /\ call[c].cred.token \in linkBearers
     THEN Refuse(c)
     ELSE call' = [call EXCEPT ![c].at = "checked"] /\ UNCHANGED linkServed
  /\ UNCHANGED <<state, tokens>>

share(c) ==
  /\ At(c, "Share", "checked")
  /\ IF call[c].cred.kind = "none"
     THEN Refuse(c) /\ UNCHANGED state
     ELSE /\ seq < MaxSeq
          /\ seq' = seq + 1
          /\ shares' = shares \cup {seq + 1}
          /\ Serve(c) /\ UNCHANGED links
  /\ UNCHANGED tokens

\* Mutant: the links of the share survive it.
unshareOnly(c) ==
  /\ At(c, "Unshare", "checked")
  /\ shares' = shares \ {call[c].id}
  /\ Serve(c)
  /\ UNCHANGED <<seq, links, tokens>>

unshare(c) ==
  /\ At(c, "Unshare", "checked")
  /\ shares' = shares \ {call[c].id}
  /\ links' = [k \in Ids |-> IF links[k] = call[c].id THEN None ELSE links[k]]
  /\ Serve(c)
  /\ UNCHANGED <<seq, tokens>>

\* The listings and listGrantedNodes change nothing; the last refuses a call
\* without a credential, and a subject it was not told about.
listing(c) ==
  /\ call[c].at = "checked"
  /\ call[c].proc \in {"ListSharesOnRecord", "ListSharedWithMe"}
  /\ Serve(c)
  /\ UNCHANGED <<state, tokens>>

listGrantedNodes(c) ==
  /\ At(c, "ListGrantedNodes", "checked")
  /\ Refuse(c) \/ (call[c].cred.kind # "none" /\ Serve(c))
  /\ UNCHANGED <<state, tokens>>

\* Mutant: the link is named after its share.
createSameLink(c) ==
  LET id == call[c].id IN
  /\ At(c, "CreateAccessLink", "checked")
  /\ IF id \notin shares
     THEN Refuse(c) /\ UNCHANGED state
     ELSE /\ links' = [links EXCEPT ![id] = id]
          /\ Serve(c) /\ UNCHANGED <<seq, shares>>
  /\ UNCHANGED tokens

createAccessLink(c) ==
  LET id == call[c].id IN
  /\ At(c, "CreateAccessLink", "checked")
  /\ IF id \notin shares
     THEN Refuse(c) /\ UNCHANGED state
     ELSE /\ seq < MaxSeq
          /\ seq' = seq + 1
          /\ links' = [k \in Ids |-> IF k = seq + 1 THEN id
                                     ELSE IF links[k] = id THEN None ELSE links[k]]
          /\ Serve(c) /\ UNCHANGED shares
  /\ UNCHANGED tokens

\* The first section of openAccessLink.  Anubis's own applications are refused.
openAccessLink(c) ==
  LET id == links[call[c].id] IN
  /\ At(c, "OpenAccessLink", "arrived")
  /\ \/ Refuse(c)
     \/ /\ id \in shares
        /\ call' = [call EXCEPT ![c].at = "found"]
        /\ UNCHANGED linkServed
  /\ UNCHANGED <<state, tokens>>

MintToken(c) ==
  /\ At(c, "OpenAccessLink", "found") /\ minted < MaxBearers
  /\ minted' = minted + 1
  /\ call' = [call EXCEPT ![c].at = "minted", ![c].id = minted + 1]
  /\ UNCHANGED <<state, linkBearers, held, linkServed>>

\* Mutant: the token is answered before it is registered.
answerFirst(c) ==
  /\ At(c, "OpenAccessLink", "minted")
  /\ held' = held \cup {call[c].id}
  /\ call' = [call EXCEPT ![c].at = "registered"]
  /\ UNCHANGED <<state, linkBearers, minted, linkServed>>

registerBearer(c) ==
  /\ At(c, "OpenAccessLink", "minted")
  /\ linkBearers' = linkBearers \cup {call[c].id}
  /\ call' = [call EXCEPT ![c].at = "registered"]
  /\ UNCHANGED <<state, minted, held, linkServed>>

answerBearer(c) ==
  /\ At(c, "OpenAccessLink", "registered")
  /\ held' = held \cup {call[c].id}
  /\ Serve(c)
  /\ UNCHANGED <<state, linkBearers, minted>>

\* Authorize accepts any credential, a link token's included.
authorize(c) ==
  /\ At(c, "Authorize", "arrived")
  /\ IF call[c].cred.kind = "none" THEN Refuse(c) ELSE Serve(c)
  /\ UNCHANGED <<state, tokens>>

\* These two do not look at the credential.
explain(c) ==
  /\ At(c, "Explain", "arrived")
  /\ Serve(c)
  /\ UNCHANGED <<state, tokens>>

introspect(c) ==
  /\ At(c, "Introspect", "arrived")
  /\ Serve(c)
  /\ UNCHANGED <<state, tokens>>

\* Any credential opens the stream, unless streams are off or no tenant is named.
streamRevocations(c) ==
  /\ At(c, "StreamRevocations", "arrived")
  /\ Refuse(c) \/ (call[c].cred.kind # "none" /\ Serve(c))
  /\ UNCHANGED <<state, tokens>>

\* With a platform key set no other credential passes, without one every call.
guarded(c) ==
  /\ At(c, "Admin", "arrived")
  /\ Refuse(c) \/ Serve(c)
  /\ UNCHANGED <<state, tokens>>

-----------------------------------------------------------------------------
ClientStep(c, cred) ==
  \/ Share(c, cred) \/ SharesOnRecord(c, cred)
  \/ \E i \in Ids : Unshare(c, cred, i) \/ CreateAccessLink(c, cred, i) \/ OpenAccessLink(c, i)
  \/ SharedWithMe(c, cred) \/ GrantedNodes(c, cred) \/ Authorize(c, cred)
  \/ Explain(c, cred) \/ Introspect(c, cred) \/ StreamRevocations(c, cred)
  \/ AdminCall(c, cred)

HandlerStep(c) ==
  \/ refuseLink(c) \/ share(c) \/ unshare(c) \/ listing(c) \/ listGrantedNodes(c)
  \/ createAccessLink(c) \/ openAccessLink(c) \/ MintToken(c) \/ registerBearer(c)
  \/ answerBearer(c) \/ authorize(c)
  \/ explain(c) \/ introspect(c) \/ streamRevocations(c) \/ guarded(c)

Next == \E c \in Calls : HandlerStep(c) \/ \E cred \in Credentials : ClientStep(c, cred)

Spec == Init /\ [][Next]_vars

-----------------------------------------------------------------------------
\* share.go:119-122 "making another replaces it", server.go:499-503: however
\* calls overlap, a link leads to a share that exists and a share has at most
\* one link.
LinksMatchShares ==
  /\ \A k \in Ids : links[k] # None => links[k] \in shares
  /\ \A j, k \in Ids : links[j] # None /\ links[j] = links[k] => j = k

\* The tables are sound at every moment: ids come from the counter, tokens held
\* were minted, and links and shares match (server.go:451, :495-535).
LinkTablesAreSound == TypeOK /\ LinksMatchShares

\* share.go:120: a link that was replaced or whose share ended never opens
\* again, although ids of shares and links come from one counter.
DeadLinksStayDead ==
  [][\A k \in 1..seq : links[k] = None => links'[k] = None]_vars

\* share.go:136-140: a link token acts for nobody: none of the procedures that
\* act for a person ever serves one.  It is minted outside the lock, so it must
\* be registered before anybody can present it (server.go:435-445, :588-594).
LinkSignsNobodyIn == linkServed \cap Personal = {}

\* Stated at server.go:55-57, a link token is accepted "on Authorize and nowhere
\* else".
LinkOnAuthorizeOnly == linkServed \subseteq {"Authorize"}
=============================================================================
