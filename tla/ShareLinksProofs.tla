-------------------------- MODULE ShareLinksProofs --------------------------
(***************************************************************************)
(* Proofs about ShareLinks, for any number of calls under way together and *)
(* every bound on the counter and on the tokens.                           *)
(***************************************************************************)
EXTENDS ShareLinks, TLAPS

Places == {"idle", "arrived", "checked", "found", "minted", "registered"}
CallRecord == [proc: Procedures, cred: Credentials, id: 0..(MaxSeq + MaxBearers), at: Places]

TablesType ==
  /\ seq \in 0..MaxSeq
  /\ shares \subseteq 1..seq
  /\ links \in [Ids -> Ids \cup {None}]
TokensType ==
  /\ linkBearers \subseteq Bearers
  /\ minted \in 0..MaxBearers
  /\ held \subseteq 1..minted
CallsType == call \in [Calls -> CallRecord]
ServedType == linkServed \subseteq Procedures

LEMMA TypeParts ==
  /\ TypeOK <=> TablesType /\ TokensType /\ CallsType /\ ServedType
  /\ TypeOK' <=> TablesType' /\ TokensType' /\ CallsType' /\ ServedType'
  BY DEF TypeOK, TablesType, TokensType, CallsType, ServedType, CallRecord, Places

LEMMA IdleType == Idle \in CallRecord
  <1>1. "Authorize" \in Procedures BY DEF Procedures, Unchecked
  <1> QED BY <1>1, SeqAssumption DEF Idle, CallRecord, Credentials, Places

(* What a token is between its minting and its answer: numbered, and known   *)
(* to refuseLink before any client holds it.                                 *)
TokenInv ==
  /\ held \subseteq linkBearers
  /\ \A c \in Calls : call[c].at \in {"minted", "registered"} => call[c].id \in 1..minted
  /\ \A c \in Calls : call[c].at = "registered" => call[c].id \in linkBearers

(* A link token that was sent was registered; past refuseLink there is none, *)
(* and the holder of a link presents no credential.                          *)
LinkInv ==
  /\ \A c \in Calls : call[c].cred.kind = "link" => call[c].cred.token \in linkBearers
  /\ \A c \in Calls : call[c].at = "checked" => call[c].cred.kind # "link"
  /\ \A c \in Calls : call[c].proc = "OpenAccessLink" => call[c].cred.kind # "link"

Inv == TypeOK /\ LinksMatchShares /\ TokenInv /\ LinkInv /\ LinkSignsNobodyIn

-----------------------------------------------------------------------------
(* The shapes of the steps. *)

(* A call moves on within its handler or ends; the others stay. *)
LEMMA CallUpdateType ==
  ASSUME CallsType, NEW c \in Calls, NEW r \in CallRecord, call' = [call EXCEPT ![c] = r]
  PROVE  CallsType'
  BY DEF CallsType

LEMMA ServeType ==
  ASSUME CallsType, ServedType, NEW c \in Calls, Serve(c)
  PROVE  CallsType' /\ ServedType'
  BY IdleType DEF Serve, Finish, CallsType, ServedType, CallRecord

LEMMA RefuseType ==
  ASSUME CallsType, ServedType, NEW c \in Calls, Refuse(c)
  PROVE  CallsType' /\ ServedType'
  BY IdleType DEF Refuse, Finish, CallsType, ServedType

LEMMA SendType ==
  ASSUME CallsType, ServedType, TablesType, NEW c \in Calls, NEW proc \in Procedures,
         NEW cred \in Credentials, NEW id \in 0..MaxSeq, Send(c, proc, cred, id)
  PROVE  CallsType' /\ ServedType'
  <1>1. [proc |-> proc, cred |-> cred, id |-> id, at |-> "arrived"] \in CallRecord
    BY SeqAssumption DEF CallRecord, Places
  <1> QED BY <1>1 DEF Send, CallsType, ServedType

LEMMA ClientSends ==
  ASSUME NEW c \in Calls, NEW cred \in Credentials, ClientStep(c, cred)
  PROVE  \E proc \in Procedures, cr \in Credentials, id \in 0..MaxSeq :
           Send(c, proc, cr, id) /\ (proc = "OpenAccessLink" => cr.kind # "link")
  <1>1. Ids \subseteq 0..MaxSeq /\ 0 \in 0..MaxSeq BY SeqAssumption DEF Ids
  <1>2. NoCredential \in Credentials /\ NoCredential.kind # "link"
    BY DEF Credentials, NoCredential
  <1>3. {"Share", "Unshare", "ListSharesOnRecord", "ListSharedWithMe", "CreateAccessLink",
         "ListGrantedNodes", "Authorize", "Explain", "Introspect", "StreamRevocations",
         "Admin", "OpenAccessLink"} \subseteq Procedures
    BY DEF Procedures, Personal, Unchecked
  <1> QED
    BY <1>1, <1>2, <1>3 DEF ClientStep, Share, Unshare, SharesOnRecord, SharedWithMe,
       CreateAccessLink, GrantedNodes, Authorize, OpenAccessLink, Explain, Introspect,
       StreamRevocations, AdminCall

-----------------------------------------------------------------------------
(* The invariant. *)

LEMMA InvInit == Init => Inv
  <1> SUFFICES ASSUME Init PROVE Inv OBVIOUS
  <1>1. TypeOK
    BY SeqAssumption, IdleType, TypeParts
    DEF Init, TablesType, TokensType, CallsType, ServedType
  <1>2. LinksMatchShares BY DEF Init, LinksMatchShares
  <1>3. TokenInv BY DEF Init, TokenInv, Idle
  <1>4. LinkInv BY DEF Init, LinkInv, Idle, NoCredential
  <1>5. LinkSignsNobodyIn BY DEF Init, LinkSignsNobodyIn
  <1> QED BY <1>1, <1>2, <1>3, <1>4, <1>5 DEF Inv

(* A request that arrives carries a link token only if a client holds it. *)
LEMMA SendKeepsInv ==
  ASSUME Inv, NEW c \in Calls, NEW cred \in Credentials, ClientStep(c, cred)
  PROVE  Inv'
  <1>1. PICK proc \in Procedures, cr \in Credentials, id \in 0..MaxSeq :
          Send(c, proc, cr, id) /\ (proc = "OpenAccessLink" => cr.kind # "link")
    BY ClientSends
  <1>2. TablesType /\ TokensType /\ CallsType /\ ServedType BY TypeParts DEF Inv
  <1>3. UNCHANGED <<seq, shares, links, linkBearers, minted, held, linkServed>>
    BY <1>1 DEF Send, state, tokens
  <1>4. TypeOK'
    BY <1>1, <1>2, <1>3, SendType, TypeParts DEF TablesType, TokensType
  <1>5. /\ \A d \in Calls : d # c => call'[d] = call[d]
        /\ call'[c] = [proc |-> proc, cred |-> cr, id |-> id, at |-> "arrived"]
        /\ cr.kind = "link" => cr.token \in held
    BY <1>1, <1>2 DEF Send, CallsType
  <1>6. TokenInv' BY <1>3, <1>5 DEF Inv, TokenInv
  <1>7. LinkInv' BY <1>1, <1>3, <1>5 DEF Inv, LinkInv, TokenInv
  <1> QED BY <1>3, <1>4, <1>6, <1>7 DEF Inv, LinksMatchShares, LinkSignsNobodyIn

(* A call that ends, answered or refused, leaves the other calls alone; one  *)
(* that is served adds no procedure that acts for a person.                  *)
LEMMA EndKeepsCalls ==
  ASSUME Inv, NEW c \in Calls,
         \/ Refuse(c)
         \/ Serve(c) /\ (call[c].cred.kind # "link" \/ call[c].proc \notin Personal),
         linkBearers \subseteq linkBearers', held' \subseteq linkBearers', UNCHANGED minted
  PROVE  CallsType' /\ ServedType' /\ TokenInv' /\ LinkInv' /\ LinkSignsNobodyIn'
  <1>1. CallsType /\ ServedType BY TypeParts DEF Inv
  <1>2. CallsType' /\ ServedType' BY <1>1, ServeType, RefuseType
  <1>3. /\ \A d \in Calls : d # c => call'[d] = call[d]
        /\ call'[c] = Idle
    BY <1>1 DEF Refuse, Serve, Finish, CallsType
  <1>4. TokenInv' BY <1>3 DEF Inv, TokenInv, Idle
  <1>5. LinkInv' BY <1>3 DEF Inv, LinkInv, Idle, NoCredential
  <1>6. LinkSignsNobodyIn'
    BY DEF Inv, LinkSignsNobodyIn, Refuse, Serve
  <1> QED BY <1>2, <1>4, <1>5, <1>6

LEMMA HandlerKeepsInv ==
  ASSUME Inv, NEW c \in Calls, HandlerStep(c)
  PROVE  Inv'
  <1>0. /\ TablesType /\ TokensType /\ CallsType /\ ServedType
        /\ call[c] \in CallRecord
    BY TypeParts DEF Inv, CallsType
  <1>1. ASSUME TablesType', UNCHANGED <<linkBearers, minted, held>>, LinksMatchShares',
               CallsType', ServedType', TokenInv', LinkInv', LinkSignsNobodyIn'
        PROVE  Inv'
    BY <1>0, <1>1, TypeParts DEF Inv, TokensType
  <1>2. ASSUME UNCHANGED <<seq, shares, links>>
        PROVE  TablesType' /\ LinksMatchShares'
    BY <1>0, <1>2 DEF TablesType, LinksMatchShares, Inv
  <1>3. held \subseteq linkBearers BY DEF Inv, TokenInv
  <1>4. call[c].at = "checked" => call[c].cred.kind # "link" BY DEF Inv, LinkInv
  <1>5. CASE refuseLink(c)
    <2>1. CASE Refuse(c)
      BY <1>1, <1>2, <1>3, <1>5, <2>1, EndKeepsCalls DEF refuseLink, state, tokens
    <2>2. CASE call' = [call EXCEPT ![c].at = "checked"] /\ UNCHANGED linkServed
               /\ ~(call[c].cred.kind = "link" /\ call[c].cred.token \in linkBearers)
      <3>1. call[c].cred.kind # "link" BY <2>2 DEF Inv, LinkInv
      <3>2. CallsType' /\ ServedType'
        BY <1>0, <2>2 DEF CallsType, ServedType, CallRecord, Places
      <3>3. /\ \A d \in Calls : d # c => call'[d] = call[d]
            /\ call'[c].cred = call[c].cred /\ call'[c].at = "checked"
            /\ call'[c].proc = call[c].proc
        BY <1>0, <2>2 DEF CallsType, CallRecord
      <3>4. UNCHANGED <<seq, shares, links, linkBearers, minted, held>>
        BY <1>5 DEF refuseLink, state, tokens
      <3>5. TokenInv' BY <3>3, <3>4 DEF Inv, TokenInv
      <3>6. LinkInv' BY <3>1, <3>3, <3>4 DEF Inv, LinkInv
      <3>7. LinkSignsNobodyIn' BY <2>2 DEF Inv, LinkSignsNobodyIn
      <3> QED BY <1>1, <1>2, <3>2, <3>4, <3>5, <3>6, <3>7
    <2> QED BY <1>5, <2>1, <2>2 DEF refuseLink
  <1>6. CASE share(c)
    <2>1. CallsType' /\ ServedType' /\ TokenInv' /\ LinkInv' /\ LinkSignsNobodyIn'
      BY <1>3, <1>4, <1>6, EndKeepsCalls DEF share, At, tokens
    <2>2. CASE UNCHANGED <<seq, shares, links>>
      BY <1>1, <1>2, <1>6, <2>1, <2>2 DEF share, tokens
    <2>3. CASE seq < MaxSeq /\ seq' = seq + 1 /\ shares' = shares \cup {seq + 1} /\ links' = links
      <3>1. TablesType' BY <1>0, <2>3, SeqAssumption DEF TablesType
      <3>2. LinksMatchShares' BY <2>3 DEF LinksMatchShares, Inv
      <3> QED BY <1>1, <1>6, <2>1, <3>1, <3>2 DEF share, tokens
    <2> QED BY <1>6, <2>2, <2>3 DEF share, state
  <1>7. CASE unshare(c)
    <2>1. CallsType' /\ ServedType' /\ TokenInv' /\ LinkInv' /\ LinkSignsNobodyIn'
      BY <1>3, <1>4, <1>7, EndKeepsCalls DEF unshare, At, tokens
    <2>2. TablesType' /\ LinksMatchShares'
      BY <1>0, <1>7, NoneAssumption DEF unshare, TablesType, LinksMatchShares, Inv
    <2> QED BY <1>1, <1>7, <2>1, <2>2 DEF unshare, tokens
  <1>8. CASE listing(c) \/ listGrantedNodes(c)
    <2>1. CallsType' /\ ServedType' /\ TokenInv' /\ LinkInv' /\ LinkSignsNobodyIn'
      BY <1>3, <1>4, <1>8, EndKeepsCalls DEF listing, listGrantedNodes, At, tokens
    <2> QED BY <1>1, <1>2, <1>8, <2>1 DEF listing, listGrantedNodes, state, tokens
  <1>9. CASE createAccessLink(c)
    <2>1. CallsType' /\ ServedType' /\ TokenInv' /\ LinkInv' /\ LinkSignsNobodyIn'
      BY <1>3, <1>4, <1>9, EndKeepsCalls DEF createAccessLink, At, tokens
    <2>2. CASE call[c].id \notin shares
      BY <1>1, <1>2, <1>9, <2>1, <2>2 DEF createAccessLink, state, tokens
    <2>3. CASE call[c].id \in shares
      <3>1. /\ seq < MaxSeq /\ seq' = seq + 1 /\ shares' = shares
            /\ links' = [k \in Ids |-> IF k = seq + 1 THEN call[c].id
                                       ELSE IF links[k] = call[c].id THEN None ELSE links[k]]
            /\ UNCHANGED <<linkBearers, minted, held>>
        BY <1>9, <2>3 DEF createAccessLink, tokens
      <3>2. call[c].id \in Ids /\ call[c].id # None
        <4>1. seq \in Nat /\ seq <= MaxSeq /\ shares \subseteq 1..seq
          BY <1>0, SeqAssumption DEF TablesType
        <4>2. \A x \in shares : x \in Ids /\ x # None
          BY <4>1, SeqAssumption, NoneAssumption DEF Ids
        <4> QED BY <2>3, <4>2
      <3>3. TablesType' BY <1>0, <3>1, <3>2, SeqAssumption DEF TablesType
      <3>4. LinksMatchShares'
        BY <1>0, <2>3, <3>1, <3>2 DEF LinksMatchShares, Inv, TablesType
      <3> QED BY <1>1, <2>1, <3>1, <3>3, <3>4
    <2> QED BY <2>2, <2>3
  <1>10. CASE openAccessLink(c)
    <2>1. CASE Refuse(c)
      BY <1>1, <1>2, <1>3, <1>10, <2>1, EndKeepsCalls DEF openAccessLink, state, tokens
    <2>2. CASE call' = [call EXCEPT ![c].at = "found"] /\ UNCHANGED linkServed
      <3>1. CallsType' /\ ServedType'
        BY <1>0, <2>2 DEF CallsType, ServedType, CallRecord, Places
      <3>2. /\ \A d \in Calls : d # c => call'[d] = call[d]
            /\ call'[c].cred = call[c].cred /\ call'[c].at = "found"
            /\ call'[c].proc = call[c].proc
        BY <1>0, <2>2 DEF CallsType, CallRecord
      <3>3. UNCHANGED <<seq, shares, links, linkBearers, minted, held>>
        BY <1>10 DEF openAccessLink, state, tokens
      <3>4. TokenInv' BY <3>2, <3>3 DEF Inv, TokenInv
      <3>5. LinkInv' BY <3>2, <3>3 DEF Inv, LinkInv
      <3>6. LinkSignsNobodyIn' BY <2>2 DEF Inv, LinkSignsNobodyIn
      <3> QED BY <1>1, <1>2, <3>1, <3>3, <3>4, <3>5, <3>6
    <2> QED BY <1>10, <2>1, <2>2 DEF openAccessLink
  <1>11. CASE MintToken(c)
    <2>1. /\ minted < MaxBearers /\ minted' = minted + 1
          /\ UNCHANGED <<seq, shares, links, linkBearers, held, linkServed>>
          /\ call' = [call EXCEPT ![c].at = "minted", ![c].id = minted + 1]
      BY <1>11 DEF MintToken, state
    <2>b. minted' = minted + 1 /\ linkBearers' = linkBearers /\ held' = held
      BY <2>1
    <2>2. \A d \in Calls : d # c => call'[d] = call[d]
      BY <1>0, <2>1 DEF CallsType
    <2>a. call'[c] = [call[c] EXCEPT !.at = "minted", !.id = minted + 1]
      BY <1>0, <2>1 DEF CallsType, CallRecord
    <2>3. /\ call'[c].cred = call[c].cred /\ call'[c].at = "minted"
          /\ call'[c].proc = call[c].proc /\ call'[c].id = minted + 1
      BY <1>0, <2>a DEF CallRecord
    <2>4. minted + 1 \in 0..(MaxSeq + MaxBearers)
      BY <1>0, <2>1, SeqAssumption DEF TokensType
    <2>5. [call[c] EXCEPT !.at = "minted", !.id = minted + 1] \in CallRecord
      BY <1>0, <2>4 DEF CallRecord, Places
    <2>6. CallsType' BY <1>0, <2>1, <2>a, <2>5 DEF CallsType
    <2>7. TokensType' BY <1>0, <2>1, SeqAssumption DEF TokensType
    <2>8. TokenInv'
      <3>1. 1..minted \subseteq 1..(minted + 1) /\ minted + 1 \in 1..(minted + 1)
        BY <1>0, SeqAssumption DEF TokensType
      <3> QED BY <2>b, <2>2, <2>3, <3>1 DEF Inv, TokenInv
    <2>9. LinkInv' BY <2>b, <2>2, <2>3 DEF Inv, LinkInv
    <2> QED
      BY <1>0, <1>2, <2>1, <2>6, <2>7, <2>8, <2>9, TypeParts
      DEF Inv, ServedType, LinkSignsNobodyIn
  <1>12. CASE registerBearer(c)
    <2>1. /\ linkBearers' = linkBearers \cup {call[c].id} /\ call[c].at = "minted"
          /\ UNCHANGED <<seq, shares, links, minted, held, linkServed>>
          /\ call' = [call EXCEPT ![c].at = "registered"]
      BY <1>12 DEF registerBearer, state, At
    <2>2. call[c].id \in 1..minted BY <2>1 DEF Inv, TokenInv
    <2>3. /\ \A d \in Calls : d # c => call'[d] = call[d]
          /\ call'[c].cred = call[c].cred /\ call'[c].at = "registered"
          /\ call'[c].proc = call[c].proc /\ call'[c].id = call[c].id
      BY <1>0, <2>1 DEF CallsType, CallRecord
    <2>4. CallsType' BY <1>0, <2>1 DEF CallsType, CallRecord, Places
    <2>5. TokensType' BY <1>0, <2>1, <2>2, SeqAssumption DEF TokensType, Bearers
    <2>6. TokenInv' BY <1>3, <2>1, <2>2, <2>3 DEF Inv, TokenInv
    <2>7. LinkInv' BY <2>1, <2>3 DEF Inv, LinkInv
    <2> QED
      BY <1>0, <1>2, <2>1, <2>4, <2>5, <2>6, <2>7, TypeParts
      DEF Inv, ServedType, LinkSignsNobodyIn
  <1>13. CASE answerBearer(c)
    <2>1. /\ held' = held \cup {call[c].id} /\ Serve(c) /\ call[c].at = "registered"
          /\ call[c].proc = "OpenAccessLink"
          /\ UNCHANGED <<seq, shares, links, linkBearers, minted>>
      BY <1>13 DEF answerBearer, state, At
    <2>2. call[c].id \in 1..minted /\ call[c].id \in linkBearers
      BY <2>1 DEF Inv, TokenInv
    <2>3. call[c].cred.kind # "link" BY <2>1 DEF Inv, LinkInv
    <2>4. CallsType' /\ ServedType' /\ TokenInv' /\ LinkInv' /\ LinkSignsNobodyIn'
      BY <1>3, <2>1, <2>2, <2>3, EndKeepsCalls
    <2>5. TokensType' BY <1>0, <2>1, <2>2 DEF TokensType
    <2> QED BY <1>2, <2>1, <2>4, <2>5, TypeParts DEF Inv
  <1>14. CASE authorize(c) \/ explain(c) \/ introspect(c) \/ streamRevocations(c) \/ guarded(c)
    <2>1. /\ call[c].proc \in Unchecked /\ (Refuse(c) \/ Serve(c))
          /\ UNCHANGED <<seq, shares, links, linkBearers, minted, held>>
      BY <1>14 DEF authorize, explain, introspect, streamRevocations, guarded, At,
                   Unchecked, state, tokens
    <2>2. call[c].proc \notin Personal BY <2>1 DEF Unchecked, Personal
    <2>3. CallsType' /\ ServedType' /\ TokenInv' /\ LinkInv' /\ LinkSignsNobodyIn'
      BY <1>3, <2>1, <2>2, EndKeepsCalls
    <2> QED BY <1>1, <1>2, <2>1, <2>3
  <1> QED
    BY <1>5, <1>6, <1>7, <1>8, <1>9, <1>10, <1>11, <1>12, <1>13, <1>14 DEF HandlerStep

LEMMA InvStep ==
  ASSUME Inv, [Next]_vars PROVE Inv'
  <1>1. CASE UNCHANGED vars
    BY <1>1 DEF vars, Inv, TypeOK, LinksMatchShares, TokenInv, LinkInv, LinkSignsNobodyIn
  <1> QED BY <1>1, SendKeepsInv, HandlerKeepsInv DEF Next

(* The tables are sound however calls overlap: ids come from the counter,    *)
(* tokens held were minted, a link leads to a share that exists and a share  *)
(* has at most one link (anubistest/server.go:451, :495-535).                *)
THEOREM LinkTablesStaySound == Spec => []LinkTablesAreSound
  <1>1. Inv => LinkTablesAreSound BY DEF Inv, LinkTablesAreSound
  <1> QED BY <1>1, InvInit, InvStep, PTL DEF Spec

(* No procedure that acts for a person serves a link token, although the     *)
(* token is minted outside the lock: it is registered before any client      *)
(* holds it (anubistest/server.go:435-445, :588-594, share.go:136-140).      *)
THEOREM LinkNeverSignsIn == Spec => []LinkSignsNobodyIn
  <1>1. Inv => LinkSignsNobodyIn BY DEF Inv
  <1> QED BY <1>1, InvInit, InvStep, PTL DEF Spec

(* A link that was replaced, or whose share ended, never opens again         *)
(* (share.go:120).                                                           *)
THEOREM DeadLinksNeverReopen == Spec => DeadLinksStayDead
  <1>1. Inv /\ [Next]_vars => [\A k \in 1..seq : links[k] = None => links'[k] = None]_vars
    <2> SUFFICES ASSUME Inv, Next, NEW k \in 1..seq, links[k] = None
                 PROVE  links'[k] = None
      OBVIOUS
    <2>1. k \in Ids /\ k # seq + 1
      BY SeqAssumption DEF Inv, TypeOK, Ids
    <2>2. ASSUME NEW c \in Calls, createAccessLink(c) PROVE links'[k] = None
      BY <2>1, <2>2 DEF createAccessLink, state
    <2>3. ASSUME NEW c \in Calls, unshare(c) PROVE links'[k] = None
      BY <2>1, <2>3 DEF unshare
    <2>4. CASE UNCHANGED links BY <2>4
    <2>5. ASSUME NEW c \in Calls, NEW cred \in Credentials, ClientStep(c, cred)
          PROVE  links'[k] = None
      BY <2>5, ClientSends DEF Send, state
    <2> QED
      BY <2>2, <2>3, <2>4, <2>5
      DEF Next, HandlerStep, refuseLink, share, listing, listGrantedNodes, openAccessLink,
          MintToken, registerBearer, answerBearer, authorize, explain, introspect,
          streamRevocations, guarded, state
  <1>2. Spec => []Inv BY InvInit, InvStep, PTL DEF Spec
  <1> QED BY <1>1, <1>2, PTL DEF Spec, DeadLinksStayDead
=============================================================================
