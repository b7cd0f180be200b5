----------------------- MODULE RevocationStreamProofs -----------------------
(***************************************************************************)
(* Proofs about RevocationStream, for any number of streams and            *)
(* publishers, any channel buffer and any connection window.               *)
(***************************************************************************)
EXTENDS RevocationStream, TLAPS

-----------------------------------------------------------------------------
(* Frames and the sequences that carry them. *)

Messages == Events \cup {Synced}

LEMMA FrameFacts ==
  /\ \A f \in Frames :
       /\ f.kind = "event" <=> f \in Events
       /\ f.kind = "synced" <=> f = Synced
       /\ f.by \in Pushers <=> f \in Events
       /\ f.by \in Pushers \cup {None} /\ f.n \in Nat
  /\ \A f \in Events : f = Event(f.by, f.n) /\ f.by \in Pushers /\ f.n \in 1..MaxPushes
  /\ \A f \in Garbled \cup Refusals :
       /\ Closing(f) \in Frames /\ Closing(f).kind = f /\ Closing(f).by = None
       /\ f # "event" /\ f # "synced"
  /\ Events \subseteq Frames /\ Synced \in Frames /\ Synced.by = None /\ Synced \notin Events
  <1>1. \A f \in Events : /\ f = Event(f.by, f.n) /\ f.by \in Pushers /\ f.n \in 1..MaxPushes
                          /\ f.kind = "event"
    BY DEF Events, Event
  <1>2. \A f \in Garbled \cup Refusals :
          /\ Closing(f) \in Frames /\ Closing(f).kind = f /\ Closing(f).by = None
          /\ Closing(f).n = 0 /\ f # "event" /\ f # "synced"
    BY DEF Frames, Closing, Garbled, Refusals
  <1>3. /\ Synced.by = None /\ Synced.kind = "synced" /\ Synced.n = 0
        /\ Synced \in Frames /\ Events \subseteq Frames
    BY DEF Frames, Synced
  <1>4. \A f \in Frames : \/ f \in Events \/ f = Synced
                          \/ \E g \in Garbled \cup Refusals : f = Closing(g)
    BY DEF Frames
  <1>5. \A f \in Frames : /\ f.kind = "event" <=> f \in Events
                          /\ f.kind = "synced" <=> f = Synced
    BY <1>1, <1>2, <1>3, <1>4
  <1>6. \A f \in Frames : /\ f.by \in Pushers <=> f \in Events
                          /\ f.by \in Pushers \cup {None}
    BY <1>1, <1>2, <1>3, <1>4, NoneAssumption
  <1>7. \A f \in Events : f.n \in Nat BY <1>1, BufferAssumption
  <1>8. \A f \in Frames : f.n \in Nat BY <1>2, <1>3, <1>4, <1>7
  <1> QED BY <1>1, <1>2, <1>3, <1>5, <1>6, <1>8

LEMMA AppendFacts ==
  ASSUME NEW S, NEW s \in Seq(S), NEW e \in S
  PROVE  /\ Append(s, e) \in Seq(S) /\ Append(s, e) # <<>>
         /\ Len(s) \in Nat /\ Len(Append(s, e)) = Len(s) + 1
         /\ \A i \in 1..Len(s) : Append(s, e)[i] = s[i]
         /\ Append(s, e)[Len(s) + 1] = e
  OBVIOUS

LEMMA TailFacts ==
  ASSUME NEW S, NEW s \in Seq(S), s # <<>>
  PROVE  /\ Len(s) \in Nat /\ Len(s) >= 1
         /\ Head(s) = s[1] /\ Head(s) \in S
         /\ Tail(s) \in Seq(S) /\ Len(Tail(s)) = Len(s) - 1
         /\ \A i \in 1..(Len(s) - 1) : Tail(s)[i] = s[i + 1]
  OBVIOUS

LEMMA CutFacts ==
  ASSUME NEW S, NEW s \in Seq(S), NEW k \in 0..Len(s)
  PROVE  /\ SubSeq(s, 1, k) \in Seq(S) /\ Len(SubSeq(s, 1, k)) = k
         /\ \A i \in 1..k : SubSeq(s, 1, k)[i] = s[i]
  OBVIOUS

LEMMA RewriteFacts ==
  ASSUME NEW S, NEW s \in Seq(S), s # <<>>, NEW e \in S
  PROVE  /\ [s EXCEPT ![1] = e] \in Seq(S) /\ [s EXCEPT ![1] = e] # <<>>
         /\ Len([s EXCEPT ![1] = e]) = Len(s) /\ Len(s) \in Nat /\ Len(s) >= 1
         /\ [s EXCEPT ![1] = e][1] = e
         /\ \A i \in 2..Len(s) : [s EXCEPT ![1] = e][i] = s[i]
  OBVIOUS

-----------------------------------------------------------------------------
(* The line an event travels: channel, connection, callback. *)

(* Two frames of one publisher, the earlier one first. *)
Precedes(e, f) == e.by \in Pushers /\ e.by = f.by => e.n < f.n

AllBefore(s, t) == \A i \in 1..Len(s), j \in 1..Len(t) : Precedes(s[i], t[j])
Rising(s) == \A i, j \in 1..Len(s) : i < j => Precedes(s[i], s[j])

(* What was heard, what is on the wire and what is buffered, in this order,  *)
(* holds each publisher's revocations in the order of their publication.     *)
Line(g, w, b) ==
  /\ AllBefore(g, w) /\ AllBefore(g, b) /\ AllBefore(w, b)
  /\ Rising(w) /\ Rising(b)

LEMMA RisingAppend ==
  ASSUME NEW s \in Seq(Frames), NEW e \in Frames, Rising(s),
         \A i \in 1..Len(s) : Precedes(s[i], e)
  PROVE  Rising(Append(s, e))
  BY AppendFacts DEF Rising

LEMMA LinePush ==
  ASSUME NEW g \in Seq(Frames), NEW w \in Seq(Frames), NEW b \in Seq(Events), NEW e \in Events,
         Line(g, w, b),
         \A i \in 1..Len(g) : Precedes(g[i], e),
         \A i \in 1..Len(w) : Precedes(w[i], e),
         \A i \in 1..Len(b) : Precedes(b[i], e)
  PROVE  Line(g, w, Append(b, e))
  <1>1. AllBefore(g, Append(b, e)) BY AppendFacts DEF Line, AllBefore
  <1>2. AllBefore(w, Append(b, e)) BY AppendFacts DEF Line, AllBefore
  <1>3. Rising(Append(b, e)) BY AppendFacts DEF Line, Rising
  <1> QED BY <1>1, <1>2, <1>3 DEF Line

LEMMA LineForward ==
  ASSUME NEW g \in Seq(Frames), NEW w \in Seq(Frames), NEW b \in Seq(Events), b # <<>>,
         Line(g, w, b)
  PROVE  Line(g, Append(w, Head(b)), Tail(b))
  <1>0. Head(b) \in Frames BY TailFacts, FrameFacts
  <1>1. AllBefore(g, Append(w, Head(b))) BY <1>0, AppendFacts, TailFacts DEF Line, AllBefore
  <1>2. AllBefore(g, Tail(b)) BY TailFacts DEF Line, AllBefore
  <1>3. AllBefore(Append(w, Head(b)), Tail(b))
    BY <1>0, AppendFacts, TailFacts DEF Line, AllBefore, Rising
  <1>4. Rising(Append(w, Head(b)))
    <2>1. \A i \in 1..Len(w) : Precedes(w[i], Head(b)) BY TailFacts DEF Line, AllBefore
    <2> QED BY <1>0, <2>1, RisingAppend DEF Line
  <1>5. Rising(Tail(b)) BY TailFacts DEF Line, Rising
  <1> QED BY <1>1, <1>2, <1>3, <1>4, <1>5 DEF Line

LEMMA LineRead ==
  ASSUME NEW g \in Seq(Frames), NEW w \in Seq(Frames), NEW b \in Seq(Events), w # <<>>,
         Line(g, w, b)
  PROVE  Line(g, Tail(w), b) /\ Line(Append(g, Head(w)), Tail(w), b)
  <1>0. Head(w) \in Frames BY TailFacts
  <1>1. AllBefore(g, Tail(w)) /\ AllBefore(Append(g, Head(w)), Tail(w))
    BY <1>0, AppendFacts, TailFacts DEF Line, AllBefore, Rising
  <1>2. AllBefore(Append(g, Head(w)), b)
    BY <1>0, AppendFacts, TailFacts DEF Line, AllBefore
  <1>3. AllBefore(Tail(w), b) BY TailFacts DEF Line, AllBefore
  <1>4. Rising(Tail(w)) BY TailFacts DEF Line, Rising
  <1> QED BY <1>1, <1>2, <1>3, <1>4 DEF Line

LEMMA LineCut ==
  ASSUME NEW g \in Seq(Frames), NEW w \in Seq(Frames), NEW b \in Seq(Events),
         NEW k \in 0..Len(w), Line(g, w, b)
  PROVE  Line(g, SubSeq(w, 1, k), b)
  <1>1. AllBefore(g, SubSeq(w, 1, k)) BY CutFacts DEF Line, AllBefore
  <1>2. AllBefore(SubSeq(w, 1, k), b) BY CutFacts DEF Line, AllBefore
  <1>3. Rising(SubSeq(w, 1, k)) BY CutFacts DEF Line, Rising
  <1> QED BY <1>1, <1>2, <1>3 DEF Line

LEMMA LineNotice ==
  ASSUME NEW g \in Seq(Frames), NEW w \in Seq(Frames), NEW b \in Seq(Events),
         NEW e \in Frames, e.by = None, Line(g, w, b)
  PROVE  /\ Line(g, Append(w, e), b)
         /\ w # <<>> => Line(g, [w EXCEPT ![1] = e], b)
  <1>1. \A f \in Frames : Precedes(f, e) /\ Precedes(e, f)
    BY NoneAssumption DEF Precedes
  <1>2. Line(g, Append(w, e), b)
    <2>1. AllBefore(g, Append(w, e)) BY <1>1, AppendFacts DEF Line, AllBefore
    <2>2. AllBefore(Append(w, e), b)
      BY <1>1, AppendFacts, FrameFacts DEF Line, AllBefore
    <2>3. Rising(Append(w, e)) BY <1>1, RisingAppend DEF Line
    <2> QED BY <2>1, <2>2, <2>3 DEF Line
  <1>3. ASSUME w # <<>> PROVE Line(g, [w EXCEPT ![1] = e], b)
    BY <1>1, <1>3, RewriteFacts, FrameFacts DEF Line, AllBefore, Rising
  <1> QED BY <1>2, <1>3

-----------------------------------------------------------------------------
(* The type, with the domains of the sequences. *)

Places == {"none", "accepted", "subscribed", "streaming", "returned"}
Lines ==
  /\ buffer \in [Streams -> Seq(Events)]
  /\ wire \in [Streams -> Seq(Frames)]
  /\ got \in [Streams -> Seq(Frames)]
Bounded == \A c \in Streams : Len(buffer[c]) <= Buffer
Scalars ==
  /\ refuseStreams \in BOOLEAN
  /\ pushing \in [Pushers -> [n: 0..MaxPushes, todo: SUBSET Streams]]
  /\ revSubs \subseteq Streams
  /\ server \in [Streams -> Places]
  /\ up \subseteq Streams
  /\ client \in [Streams -> {"idle", "reading"} \cup Returns]
  /\ dropped \in [Streams -> SUBSET Events]
  /\ before \in [Streams -> [Pushers -> 0..MaxPushes]]
TypeInv == Lines /\ Bounded /\ Scalars

LEMMA TypeInvImplies == TypeInv => TypeOK
  BY DEF TypeInv, Lines, Bounded, Scalars, TypeOK, Places

LEMMA TypeInvInit == Init => TypeInv
  <1> SUFFICES ASSUME Init PROVE TypeInv OBVIOUS
  <1>1. Lines BY DEF Init, Lines
  <1>2. Bounded BY BufferAssumption DEF Init, Bounded
  <1>3. Scalars BY BufferAssumption DEF Init, Scalars, Places
  <1> QED BY <1>1, <1>2, <1>3 DEF TypeInv

LEMMA PushedEvent ==
  ASSUME Scalars, NEW p \in Pushers, pushing[p].n # 0
  PROVE  Event(p, pushing[p].n) \in Events
  <1>1. pushing[p].n \in 1..MaxPushes BY BufferAssumption DEF Scalars
  <1> QED BY <1>1 DEF Events

(* A publisher that still has channels to send to has begun. *)
BegunInv == \A p \in Pushers : pushing[p].todo # {} => pushing[p].n # 0

LEMMA LinesStep ==
  ASSUME TypeInv, BegunInv, [Next]_vars
  PROVE  Lines' /\ Bounded'
  <1>0. Lines /\ Bounded /\ Scalars BY DEF TypeInv
  <1>1. CASE UNCHANGED <<buffer, wire, got>>
    BY <1>0, <1>1 DEF Lines, Bounded
  <1>2. ASSUME NEW p \in Pushers, NEW c \in Streams, PushSend(p, c) PROVE Lines' /\ Bounded'
    <2> DEFINE e == Event(p, pushing[p].n)
    <2>1. e \in Events BY <1>0, <1>2, PushedEvent DEF PushSend, BegunInv
    <2>2. \/ UNCHANGED buffer
          \/ Len(buffer[c]) < Buffer /\ buffer' = [buffer EXCEPT ![c] = Append(@, e)]
      BY <1>2 DEF PushSend
    <2>3. UNCHANGED <<wire, got>> BY <1>2 DEF PushSend, clientVars
    <2> HIDE DEF e
    <2>4. buffer[c] \in Seq(Events) BY <1>0 DEF Lines
    <2>5. Append(buffer[c], e) \in Seq(Events) /\ Len(buffer[c]) \in Nat
          /\ Len(Append(buffer[c], e)) = Len(buffer[c]) + 1
      BY <2>1, <2>4, AppendFacts
    <2>6. Lines' BY <1>0, <2>2, <2>3, <2>5 DEF Lines
    <2>7. Bounded'
      <3> SUFFICES ASSUME NEW d \in Streams PROVE Len(buffer'[d]) <= Buffer BY DEF Bounded
      <3>1. CASE buffer'[d] = buffer[d] BY <1>0, <3>1 DEF Bounded
      <3>2. CASE d = c /\ Len(buffer[c]) < Buffer /\ buffer'[d] = Append(buffer[c], e)
        BY <2>5, <3>2, BufferAssumption
      <3> QED BY <1>0, <2>2, <3>1, <3>2 DEF Lines
    <2> QED BY <2>6, <2>7
  <1>3. ASSUME NEW c \in Streams, NEW f \in Frames, Write(c, f), UNCHANGED <<buffer, got>>
        PROVE  Lines' /\ Bounded'
    <2>1. Append(wire[c], f) \in Seq(Frames) BY <1>0 DEF Lines
    <2> QED BY <1>0, <1>3, <2>1 DEF Write, Lines, Bounded
  <1>4. ASSUME NEW c \in Streams, NEW ask \in Asks, streamRevocations(c, ask)
        PROVE  Lines' /\ Bounded'
    <2>1. CASE UNCHANGED wire BY <1>1, <1>4, <2>1 DEF streamRevocations, clientVars
    <2>2. CASE \E g \in Refusals : Write(c, Closing(g))
      BY <1>3, <1>4, <2>2, FrameFacts DEF streamRevocations, clientVars
    <2> QED BY <1>4, <2>1, <2>2 DEF streamRevocations, Refusals
  <1>5. ASSUME NEW c \in Streams, writeSynced(c) PROVE Lines' /\ Bounded'
    BY <1>3, <1>5, FrameFacts DEF writeSynced, clientVars
  <1>6. ASSUME NEW c \in Streams, forward(c) PROVE Lines' /\ Bounded'
    <2>1. buffer[c] \in Seq(Events) /\ wire[c] \in Seq(Frames) /\ buffer[c] # <<>>
      BY <1>0, <1>6 DEF Lines, forward
    <2>2. /\ Tail(buffer[c]) \in Seq(Events) /\ Head(buffer[c]) \in Frames
          /\ Len(buffer[c]) \in Nat /\ Len(Tail(buffer[c])) = Len(buffer[c]) - 1
      BY <2>1, TailFacts, FrameFacts
    <2>3. Append(wire[c], Head(buffer[c])) \in Seq(Frames) BY <2>1, <2>2
    <2>4. Lines' BY <1>0, <1>6, <2>2, <2>3 DEF Lines, forward, Write, clientVars
    <2>5. Bounded' BY <1>0, <1>6, <2>2, BufferAssumption DEF Lines, Bounded, forward
    <2> QED BY <2>4, <2>5
  <1>7. ASSUME NEW c \in Streams, Break(c) PROVE Lines' /\ Bounded'
    <2>1. PICK k \in 0..Len(wire[c]) : wire' = [wire EXCEPT ![c] = SubSeq(@, 1, k)]
      BY <1>7 DEF Break
    <2>2. SubSeq(wire[c], 1, k) \in Seq(Frames) BY <1>0, CutFacts DEF Lines
    <2> QED BY <1>0, <1>7, <2>1, <2>2 DEF Lines, Bounded, Break, serverVars, clientVars
  <1>8. ASSUME NEW c \in Streams, NEW f \in Garbled, Garble(c, f) PROVE Lines' /\ Bounded'
    <2>1. [wire[c] EXCEPT ![1] = Closing(f)] \in Seq(Frames)
      BY <1>0, <1>8, RewriteFacts, FrameFacts DEF Lines, Garble
    <2>2. wire' = [wire EXCEPT ![c] = [wire[c] EXCEPT ![1] = Closing(f)]]
      BY <1>0, <1>8 DEF Garble, Lines
    <2> QED BY <1>0, <1>8, <2>1, <2>2 DEF Lines, Bounded, Garble, serverVars, clientVars
  <1>9. ASSUME NEW c \in Streams, readRevocations(c) PROVE Lines' /\ Bounded'
    <2>1. wire[c] \in Seq(Frames) /\ got[c] \in Seq(Frames) /\ wire[c] # <<>>
      BY <1>0, <1>9 DEF Lines, readRevocations
    <2>2. Tail(wire[c]) \in Seq(Frames) /\ Append(got[c], Head(wire[c])) \in Seq(Frames)
      BY <2>1, TailFacts, AppendFacts
    <2>3. /\ wire' = [wire EXCEPT ![c] = Tail(@)] /\ UNCHANGED buffer
          /\ \/ got' = [got EXCEPT ![c] = Append(@, Head(wire[c]))]
             \/ UNCHANGED got
      BY <1>9 DEF readRevocations, serverVars
    <2> QED BY <1>0, <2>2, <2>3 DEF Lines, Bounded
  <1> QED BY <1>1, <1>2, <1>4, <1>5, <1>6, <1>7, <1>8, <1>9
          DEF Next, HandlerStep, RefuseStreams, PushRevocation, subscribeRevocations, leave,
              StreamRevocations, readEOF, Cancel, vars, serverVars, clientVars

LEMMA ReadReturns ==
  ASSUME NEW f \in Frames, f.kind \notin {"synced", "event"}
  PROVE  endOfStream(f.kind) \in Returns
  <1>1. f.kind \in Refusals \cup Garbled BY FrameFacts DEF Frames
  <1> QED BY <1>1 DEF endOfStream, Returns, Refusals, Garbled

LEMMA ScalarsStep ==
  ASSUME TypeInv, BegunInv, [Next]_vars
  PROVE  Scalars' /\ BegunInv'
  <1>0. Lines /\ Scalars /\ BegunInv BY DEF TypeInv
  <1>1. ASSUME NEW refuse \in BOOLEAN, RefuseStreams(refuse) PROVE Scalars' /\ BegunInv'
    BY <1>0, <1>1 DEF RefuseStreams, Scalars, BegunInv, clientVars
  <1>2. ASSUME NEW p \in Pushers, PushRevocation(p) PROVE Scalars' /\ BegunInv'
    <2>1. pushing[p].n + 1 \in 0..MaxPushes /\ pushing[p].n + 1 # 0
      BY <1>0, <1>2, BufferAssumption DEF PushRevocation, Scalars
    <2>2. pushing' = [pushing EXCEPT ![p] = [n |-> pushing[p].n + 1, todo |-> revSubs]]
      BY <1>2 DEF PushRevocation
    <2> QED BY <1>0, <1>2, <2>1, <2>2 DEF PushRevocation, Scalars, BegunInv, clientVars
  <1>3. ASSUME NEW p \in Pushers, NEW c \in Streams, PushSend(p, c) PROVE Scalars' /\ BegunInv'
    <2> DEFINE e == Event(p, pushing[p].n)
    <2>1. e \in Events BY <1>0, <1>3, PushedEvent DEF PushSend, BegunInv
    <2>2. \/ UNCHANGED dropped \/ dropped' = [dropped EXCEPT ![c] = @ \cup {e}]
      BY <1>3 DEF PushSend
    <2> HIDE DEF e
    <2>3. dropped' \in [Streams -> SUBSET Events] BY <1>0, <2>1, <2>2 DEF Scalars
    <2>4. BegunInv' BY <1>0, <1>3 DEF PushSend, Scalars, BegunInv
    <2> QED BY <1>0, <1>3, <2>3, <2>4 DEF PushSend, Scalars, clientVars
  <1>4. ASSUME NEW c \in Streams, HandlerStep(c) PROVE Scalars' /\ BegunInv'
    <2>1. /\ \E s \in Places : server' = [server EXCEPT ![c] = s]
          /\ revSubs' \subseteq revSubs \cup {c}
          /\ UNCHANGED <<refuseStreams, pushing, up, client, before, dropped>>
      <3>1. CASE \E ask \in Asks : streamRevocations(c, ask)
        BY <3>1 DEF streamRevocations, ServerAt, Places, clientVars
      <3>2. CASE subscribeRevocations(c)
        BY <3>2 DEF subscribeRevocations, ServerAt, Places, clientVars
      <3>3. CASE writeSynced(c) BY <3>3 DEF writeSynced, ServerAt, Places, clientVars
      <3>4. CASE forward(c)
        <4>1. server' = [server EXCEPT ![c] = "streaming"]
          BY <1>0, <3>4 DEF forward, Scalars
        <4> QED BY <3>4, <4>1 DEF forward, Places, clientVars
      <3>5. CASE leave(c) BY <3>5 DEF leave, ServerAt, Places, clientVars
      <3> QED BY <1>4, <3>1, <3>2, <3>3, <3>4, <3>5 DEF HandlerStep
    <2> QED BY <1>0, <2>1 DEF Scalars, BegunInv
  <1>5. ASSUME NEW c \in Streams,
               StreamRevocations(c) \/ Break(c) \/ readEOF(c) \/ Cancel(c)
               \/ \E f \in Garbled : Garble(c, f)
        PROVE  Scalars' /\ BegunInv'
    <2>1. /\ \/ UNCHANGED client
             \/ \E a \in {"reading"} \cup Returns : client' = [client EXCEPT ![c] = a]
          /\ up' \subseteq up \cup {c}
          /\ UNCHANGED <<refuseStreams, pushing, revSubs, server, before, dropped>>
      BY <1>5 DEF StreamRevocations, Break, readEOF, Cancel, Garble, Returned, Returns,
         clientVars, serverVars
    <2> QED BY <1>0, <2>1 DEF Scalars, BegunInv
  <1>6. ASSUME NEW c \in Streams, readRevocations(c) PROVE Scalars' /\ BegunInv'
    <2>1. Head(wire[c]) \in Frames BY <1>0, <1>6 DEF readRevocations, Lines
    <2>2. /\ \/ UNCHANGED client
             \/ \E a \in {"reading"} \cup Returns : client' = [client EXCEPT ![c] = a]
          /\ up' \subseteq up
          /\ UNCHANGED <<refuseStreams, pushing, revSubs, server, dropped>>
      BY <1>6, <2>1, ReadReturns DEF readRevocations, Returned, Returns, serverVars
    <2>3. \/ UNCHANGED before
          \/ before' = [before EXCEPT ![c] = [p \in Pushers |-> pushing[p].n]]
      BY <1>6 DEF readRevocations
    <2>4. [p \in Pushers |-> pushing[p].n] \in [Pushers -> 0..MaxPushes] BY <1>0 DEF Scalars
    <2>5. before' \in [Streams -> [Pushers -> 0..MaxPushes]] BY <1>0, <2>3, <2>4 DEF Scalars
    <2> QED BY <1>0, <2>2, <2>5 DEF Scalars, BegunInv
  <1>7. CASE UNCHANGED vars BY <1>0, <1>7 DEF vars, Scalars, BegunInv
  <1> QED BY <1>1, <1>2, <1>3, <1>4, <1>5, <1>6, <1>7 DEF Next

LEMMA TypeInvNext == TypeInv /\ BegunInv /\ [Next]_vars => TypeInv' /\ BegunInv'
  BY LinesStep, ScalarsStep DEF TypeInv

-----------------------------------------------------------------------------
(* What one stream keeps true. *)

(* The handler's place, the connection and the call.  A stream is told       *)
(* something only once it is subscribed, and one that was refused hears      *)
(* nothing but the refusal.                                                  *)
PhaseInv(c) ==
  /\ c \in up => client[c] = "reading"
  /\ client[c] = "idle" => server[c] = "none"
  /\ server[c] \in {"none", "accepted", "subscribed"} => wire[c] = <<>> /\ got[c] = <<>>
  /\ server[c] \in {"subscribed", "streaming"} => c \in revSubs
  /\ server[c] = "streaming" /\ c \in up /\ got[c] = <<>> => wire[c] # <<>>
  /\ server[c] = "returned" /\ c \in up =>
       got[c] = <<>> /\ \A i \in 1..Len(wire[c]) : wire[c][i] \notin Messages

(* Synced is the first frame and the only one of its kind. *)
SyncInv(c) ==
  /\ \A i \in 1..Len(wire[c]) : wire[c][i] = Synced => i = 1 /\ got[c] = <<>>
  /\ client[c] = "reading" /\ got[c] = <<>> /\ wire[c] # <<>> => wire[c][1] \notin Events

LineInv(c) == Line(got[c], wire[c], buffer[c])

(* Nothing was sent that has not been published, nor before its own send. *)
Limit(s, c) ==
  \A i \in 1..Len(s), p \in Pushers : s[i].by = p =>
    s[i].n <= pushing[p].n /\ (c \in pushing[p].todo => s[i].n < pushing[p].n)
LimitInv(c) == Limit(got[c], c) /\ Limit(wire[c], c) /\ Limit(buffer[c], c)

(* Where a revocation that stream c has a right to is. *)
Found(c, p, k) ==
  \/ Event(p, k) \in dropped[c]
  \/ k = pushing[p].n /\ c \in pushing[p].todo
  \/ \E i \in 1..Len(buffer[c]) : buffer[c][i] = Event(p, k)
  \/ \E i \in 1..Len(wire[c]) : wire[c][i] = Event(p, k) \/ wire[c][i].kind \in Garbled
  \/ \E i \in 1..Len(got[c]) : got[c][i] = Event(p, k)
NoGap(c) ==
  c \in up /\ client[c] = "reading" /\ got[c] # <<>> =>
    \A p \in Pushers : \A k \in (before[c][p] + 1)..pushing[p].n : Found(c, p, k)

StreamInv(c) == PhaseInv(c) /\ SyncInv(c) /\ LineInv(c) /\ LimitInv(c) /\ NoGap(c)
Inv == TypeInv /\ BegunInv /\ \A c \in Streams : StreamInv(c)

LEMMA NoGapIsNoGap == TypeInv /\ (\A c \in Streams : NoGap(c)) => NoGapAfterSynced
  BY DEF NoGap, NoGapAfterSynced, Found, TypeInv, Scalars

LEMMA InvInit == Init => Inv
  <1> SUFFICES ASSUME Init, NEW c \in Streams PROVE StreamInv(c)
    BY TypeInvInit DEF Inv, Init, BegunInv
  <1>1. /\ buffer[c] = <<>> /\ wire[c] = <<>> /\ got[c] = <<>> /\ client[c] = "idle"
        /\ server[c] = "none" /\ c \notin up
    BY DEF Init
  <1>2. PhaseInv(c) /\ SyncInv(c) BY <1>1 DEF PhaseInv, SyncInv
  <1>3. LineInv(c) BY <1>1 DEF LineInv, Line, AllBefore, Rising
  <1>4. LimitInv(c) BY <1>1 DEF LimitInv, Limit
  <1>5. NoGap(c) BY <1>1 DEF NoGap
  <1> QED BY <1>2, <1>3, <1>4, <1>5 DEF StreamInv

(* A step of another stream, or of nobody in particular. *)
SamePushes(c) ==
  \A p \in Pushers : /\ pushing'[p].n = pushing[p].n
                     /\ c \in pushing'[p].todo <=> c \in pushing[p].todo
SameLine(c) == wire'[c] = wire[c] /\ got'[c] = got[c] /\ buffer'[c] = buffer[c]
SamePlace(c) ==
  /\ server'[c] = server[c] /\ client'[c] = client[c]
  /\ c \in up' <=> c \in up
  /\ c \in revSubs' <=> c \in revSubs
SameBooks(c) == dropped'[c] = dropped[c] /\ before'[c] = before[c]
Same(c) == SamePushes(c) /\ SameLine(c) /\ SamePlace(c) /\ SameBooks(c)

LEMMA LimitStays ==
  ASSUME NEW c \in Streams, SamePushes(c), SameLine(c), LimitInv(c)
  PROVE  LimitInv(c)'
  BY DEF SamePushes, SameLine, LimitInv, Limit

LEMMA LineStays ==
  ASSUME NEW c \in Streams, SameLine(c), LineInv(c)
  PROVE  LineInv(c)'
  BY DEF SameLine, LineInv

(* A stream whose frames stay where they are and that hears no more than     *)
(* before has no new gap.                                                    *)
LEMMA NoGapStays ==
  ASSUME NEW c \in Streams, SamePushes(c), SameLine(c), SameBooks(c), NoGap(c),
         c \in up' => c \in up, client'[c] = "reading" => client[c] = "reading"
  PROVE  NoGap(c)'
  BY DEF SamePushes, SameLine, SameBooks, NoGap, Found

LEMMA SameKeeps ==
  ASSUME NEW c \in Streams, Same(c), StreamInv(c)
  PROVE  StreamInv(c)'
  <1>1. PhaseInv(c)' BY DEF Same, SamePlace, SameLine, StreamInv, PhaseInv
  <1>2. SyncInv(c)' BY DEF Same, SamePlace, SameLine, StreamInv, SyncInv
  <1>3. LineInv(c)' /\ LimitInv(c)' /\ NoGap(c)'
    BY LineStays, LimitStays, NoGapStays DEF Same, SamePlace, StreamInv
  <1> QED BY <1>1, <1>2, <1>3 DEF StreamInv

-----------------------------------------------------------------------------
(* Steps of one stream leave the others alone. *)

ClientStep(c) ==
  \/ StreamRevocations(c) \/ Break(c) \/ readRevocations(c) \/ readEOF(c) \/ Cancel(c)
  \/ \E f \in Garbled : Garble(c, f)

LEMMA OthersSame ==
  ASSUME TypeInv, NEW c \in Streams, NEW d \in Streams, d # c,
         HandlerStep(c) \/ ClientStep(c)
  PROVE  Same(d)
  <1>1. SamePushes(d)
    BY DEF HandlerStep, ClientStep, streamRevocations, subscribeRevocations, writeSynced, forward,
       leave, StreamRevocations, Break, readRevocations, readEOF, Cancel, Garble, SamePushes,
       serverVars
  <1>2. server'[d] = server[d] /\ dropped'[d] = dropped[d] /\ buffer'[d] = buffer[d]
    <2>1. CASE HandlerStep(c)
      BY <2>1 DEF HandlerStep, streamRevocations, subscribeRevocations, writeSynced, forward,
         leave, ServerAt, TypeInv, Lines, Scalars
    <2>2. CASE ClientStep(c)
      BY <2>2 DEF ClientStep, StreamRevocations, Break, readRevocations, readEOF, Cancel, Garble,
         serverVars
    <2> QED BY <2>1, <2>2
  <1>3. wire'[d] = wire[d]
    <2>1. CASE HandlerStep(c)
      BY <2>1 DEF HandlerStep, streamRevocations, subscribeRevocations, writeSynced, forward,
         leave, Write, TypeInv, Lines
    <2>2. CASE ClientStep(c)
      BY <2>2 DEF ClientStep, StreamRevocations, Break, readRevocations, readEOF, Cancel, Garble,
         TypeInv, Lines
    <2> QED BY <2>1, <2>2
  <1>4. client'[d] = client[d] /\ got'[d] = got[d] /\ before'[d] = before[d]
    <2>1. CASE HandlerStep(c)
      BY <2>1 DEF HandlerStep, streamRevocations, subscribeRevocations, writeSynced, forward,
         leave, clientVars
    <2>2. CASE ClientStep(c)
      BY <2>2 DEF ClientStep, StreamRevocations, Break, readRevocations, readEOF, Cancel, Garble,
         Returned, clientVars, TypeInv, Lines, Scalars
    <2> QED BY <2>1, <2>2
  <1>5. (d \in up' <=> d \in up) /\ (d \in revSubs' <=> d \in revSubs)
    <2>1. CASE HandlerStep(c)
      BY <2>1 DEF HandlerStep, streamRevocations, subscribeRevocations, writeSynced, forward, leave
    <2>2. CASE ClientStep(c)
      BY <2>2 DEF ClientStep, StreamRevocations, Break, readRevocations, readEOF, Cancel, Garble,
         serverVars
    <2> QED BY <2>1, <2>2
  <1> QED BY <1>1, <1>2, <1>3, <1>4, <1>5 DEF Same, SameLine, SamePlace, SameBooks

-----------------------------------------------------------------------------
(* The publishers. *)

LEMMA PushRevocationKeeps ==
  ASSUME Inv, NEW p \in Pushers, PushRevocation(p), NEW c \in Streams
  PROVE  StreamInv(c)'
  <1>0. StreamInv(c) /\ TypeInv BY DEF Inv
  <1>1. /\ SameLine(c) /\ SamePlace(c) /\ SameBooks(c)
    BY DEF PushRevocation, SameLine, SamePlace, SameBooks, clientVars
  <1>2. /\ pushing[p].todo = {} /\ pushing'[p].n = pushing[p].n + 1 /\ pushing'[p].todo = revSubs
        /\ \A q \in Pushers : q # p => pushing'[q] = pushing[q]
        /\ \A q \in Pushers : pushing[q].n \in Nat
    BY <1>0, BufferAssumption DEF PushRevocation, TypeInv, Scalars
  <1>3. PhaseInv(c)' BY <1>0, <1>1 DEF SamePlace, SameLine, StreamInv, PhaseInv
  <1>4. SyncInv(c)' BY <1>0, <1>1 DEF SamePlace, SameLine, StreamInv, SyncInv
  <1>5. LineInv(c)' BY <1>0, <1>1, LineStays DEF StreamInv
  <1>6. \A s \in {got[c], wire[c], buffer[c]} :
          \A i \in 1..Len(s) : s[i].by \in Pushers => s[i].n \in Nat
    BY <1>0, FrameFacts DEF TypeInv, Lines
  <1>7. LimitInv(c)'
    <2> SUFFICES ASSUME NEW s \in {got[c], wire[c], buffer[c]}, NEW i \in 1..Len(s),
                        NEW q \in Pushers, s[i].by = q
                 PROVE  /\ s[i].n <= pushing'[q].n
                        /\ c \in pushing'[q].todo => s[i].n < pushing'[q].n
      BY <1>1 DEF SameLine, LimitInv, Limit
    <2>1. /\ s[i].n \in Nat /\ s[i].n <= pushing[q].n
          /\ c \in pushing[q].todo => s[i].n < pushing[q].n
      BY <1>0, <1>6 DEF StreamInv, LimitInv, Limit
    <2> QED BY <1>2, <2>1
  <1>8. NoGap(c)'
    <2> SUFFICES ASSUME c \in up, client[c] = "reading", got[c] # <<>>, NEW q \in Pushers,
                        NEW k \in (before[c][q] + 1)..pushing'[q].n
                 PROVE  Found(c, q, k)'
      BY <1>1 DEF SamePlace, SameLine, SameBooks, NoGap
    <2>1. before[c][q] \in Nat /\ k \in Nat BY <1>0, BufferAssumption DEF TypeInv, Scalars
    <2>2. CASE k = pushing'[q].n /\ q = p
      <3>1. c \in revSubs BY <1>0 DEF StreamInv, PhaseInv, TypeInv, Scalars, Places
      <3> QED BY <1>2, <2>2, <3>1 DEF Found
    <2>3. CASE k <= pushing[q].n
      <3>1. Found(c, q, k) BY <1>0, <2>1, <2>3, <1>2 DEF StreamInv, NoGap
      <3>2. CASE q = p BY <1>1, <1>2, <3>1, <3>2 DEF Found, SameLine, SameBooks
      <3>3. CASE q # p BY <1>1, <1>2, <3>1, <3>3 DEF Found, SameLine, SameBooks
      <3> QED BY <3>2, <3>3
    <2> QED BY <1>2, <2>1, <2>2, <2>3
  <1> QED BY <1>3, <1>4, <1>5, <1>7, <1>8 DEF StreamInv

LEMMA PushSendKeeps ==
  ASSUME Inv, NEW p \in Pushers, NEW c \in Streams, PushSend(p, c), NEW d \in Streams
  PROVE  StreamInv(d)'
  <1> DEFINE e == Event(p, pushing[p].n)
  <1>0. StreamInv(d) /\ TypeInv /\ Lines /\ Scalars BY DEF Inv, TypeInv
  <1>1. /\ wire'[d] = wire[d] /\ got'[d] = got[d] /\ SamePlace(d) /\ before'[d] = before[d]
    BY DEF PushSend, SamePlace, clientVars
  <1>2. /\ c \in pushing[p].todo
        /\ \A q \in Pushers : /\ pushing'[q].n = pushing[q].n
                              /\ pushing'[q].todo =
                                   IF q = p THEN pushing[q].todo \ {c} ELSE pushing[q].todo
    <2>1. c \in pushing[p].todo /\ pushing' = [pushing EXCEPT ![p].todo = @ \ {c}] BY DEF PushSend
    <2>2. pushing \in [Pushers -> [n: 0..MaxPushes, todo: SUBSET Streams]] BY <1>0 DEF Scalars
    <2> QED BY <2>1, <2>2
  <1>3. e \in Events /\ e.by = p /\ e.n = pushing[p].n /\ pushing[p].n \in Nat
    <2>1. e \in Events BY <1>0, <1>2, PushedEvent DEF BegunInv, Inv
    <2> QED BY <1>0, <2>1, BufferAssumption DEF Event, Scalars
  <1>4. \/ Len(buffer[c]) < Buffer /\ buffer' = [buffer EXCEPT ![c] = Append(@, e)] /\ UNCHANGED dropped
        \/ dropped' = [dropped EXCEPT ![c] = @ \cup {e}] /\ UNCHANGED buffer
    BY DEF PushSend
  <1>5. CASE d # c
    <2>1. Same(d)
      BY <1>0, <1>1, <1>2, <1>4, <1>5
      DEF Same, SamePushes, SameLine, SameBooks, Lines, Scalars
    <2> QED BY <1>0, <2>1, SameKeeps
  <1>6. CASE d = c
    <2>1. PhaseInv(c)' BY <1>0, <1>1, <1>6 DEF SamePlace, StreamInv, PhaseInv
    <2>2. SyncInv(c)' BY <1>0, <1>1, <1>6 DEF SamePlace, StreamInv, SyncInv
    <2>3. got[c] \in Seq(Frames) /\ wire[c] \in Seq(Frames) /\ buffer[c] \in Seq(Events)
      BY <1>0 DEF Lines
    <2>4. /\ Limit(got[c], c) /\ Limit(wire[c], c) /\ Limit(buffer[c], c)
          /\ Line(got[c], wire[c], buffer[c])
      BY <1>0, <1>6 DEF StreamInv, LimitInv, LineInv
    <2>5. CASE buffer'[c] = Append(buffer[c], e) /\ UNCHANGED dropped
      <3> HIDE DEF e
      <3>1. \A s \in {got[c], wire[c], buffer[c]} : \A i \in 1..Len(s) : Precedes(s[i], e)
        BY <1>2, <1>3, <2>4 DEF Limit, Precedes
      <3>2. LineInv(c)'
        BY <1>1, <1>3, <1>6, <2>3, <2>4, <2>5, <3>1, LinePush DEF LineInv
      <3>3. Limit(got[c], c)' /\ Limit(wire[c], c)'
        BY <1>1, <1>2, <1>6, <2>4 DEF Limit
      <3>4. Limit(buffer[c], c)'
        <4> SUFFICES ASSUME NEW i \in 1..Len(buffer'[c]), NEW q \in Pushers, buffer'[c][i].by = q
                     PROVE  /\ buffer'[c][i].n <= pushing'[q].n
                            /\ c \in pushing'[q].todo => buffer'[c][i].n < pushing'[q].n
          BY DEF Limit
        <4>1. /\ Len(buffer[c]) \in Nat /\ Len(buffer'[c]) = Len(buffer[c]) + 1
              /\ buffer'[c][Len(buffer[c]) + 1] = e
              /\ \A j \in 1..Len(buffer[c]) : buffer'[c][j] = buffer[c][j]
          BY <1>3, <2>3, <2>5, AppendFacts
        <4>2. CASE i = Len(buffer[c]) + 1
          <5>1. buffer'[c][i] = e /\ q = p BY <1>3, <4>1, <4>2
          <5>2. pushing'[q].n = e.n /\ c \notin pushing'[q].todo BY <1>2, <1>3, <5>1
          <5> QED BY <1>3, <5>1, <5>2
        <4>3. CASE i \in 1..Len(buffer[c]) BY <1>2, <2>4, <4>1, <4>3 DEF Limit
        <4> QED BY <4>1, <4>2, <4>3
      <3>5. NoGap(c)'
        <4> SUFFICES ASSUME c \in up, client[c] = "reading", got[c] # <<>>, NEW q \in Pushers,
                            NEW k \in (before[c][q] + 1)..pushing[q].n
                     PROVE  Found(c, q, k)'
          BY <1>1, <1>2, <1>6 DEF SamePlace, NoGap
        <4>1. Found(c, q, k) BY <1>0, <1>6 DEF StreamInv, NoGap
        <4>2. /\ Len(buffer[c]) \in Nat /\ Len(buffer'[c]) = Len(buffer[c]) + 1
              /\ buffer'[c][Len(buffer[c]) + 1] = e
              /\ \A j \in 1..Len(buffer[c]) : buffer'[c][j] = buffer[c][j]
          BY <1>3, <2>3, <2>5, AppendFacts
        <4>3. CASE k = pushing[q].n /\ c \in pushing[q].todo
          <5>1. CASE q = p
            <6>1. Event(q, k) = e BY <4>3, <5>1 DEF e
            <6> QED BY <4>2, <6>1 DEF Found
          <5>2. CASE q # p BY <1>2, <4>3, <5>2 DEF Found
          <5> QED BY <5>1, <5>2
        <4>4. CASE \E i \in 1..Len(buffer[c]) : buffer[c][i] = Event(q, k)
          <5>1. PICK i \in 1..Len(buffer[c]) : buffer[c][i] = Event(q, k) BY <4>4
          <5>2. i \in 1..Len(buffer'[c]) /\ buffer'[c][i] = Event(q, k) BY <4>2, <5>1
          <5> QED BY <5>2 DEF Found
        <4> QED BY <1>1, <1>6, <2>5, <4>1, <4>3, <4>4 DEF Found
      <3> QED BY <1>6, <2>1, <2>2, <3>2, <3>3, <3>4, <3>5 DEF StreamInv, LimitInv
    <2>6. CASE dropped'[c] = dropped[c] \cup {e} /\ UNCHANGED buffer
      <3>1. SameLine(c) BY <1>1, <1>6, <2>6 DEF SameLine
      <3>2. LineInv(c)' BY <1>0, <1>6, <3>1, LineStays DEF StreamInv
      <3>3. LimitInv(c)' BY <1>2, <2>4, <3>1 DEF LimitInv, Limit, SameLine
      <3>5. NoGap(c)'
        <4> SUFFICES ASSUME c \in up, client[c] = "reading", got[c] # <<>>, NEW q \in Pushers,
                            NEW k \in (before[c][q] + 1)..pushing[q].n
                     PROVE  Found(c, q, k)'
          BY <1>1, <1>2, <1>6 DEF SamePlace, NoGap
        <4>1. Found(c, q, k) BY <1>0, <1>6 DEF StreamInv, NoGap
        <4>2. CASE q = p /\ k = pushing[p].n BY <2>6, <4>2 DEF Found
        <4>3. CASE ~(q = p /\ k = pushing[p].n)
          BY <1>2, <2>6, <3>1, <4>1, <4>3 DEF Found, SameLine
        <4> QED BY <4>2, <4>3
      <3> QED BY <1>6, <2>1, <2>2, <3>2, <3>3, <3>5 DEF StreamInv
    <2> QED BY <1>0, <1>4, <2>5, <2>6 DEF Lines, Scalars
  <1> QED BY <1>5, <1>6

-----------------------------------------------------------------------------
(* The server's handler, on its own stream. *)

LEMMA NothingHeardNoGap ==
  ASSUME NEW c \in Streams, got'[c] = <<>> \/ c \notin up'
  PROVE  NoGap(c)'
  BY DEF NoGap

(* Steps that move the handler, the call or the connection and no frame. *)
LEMMA PlaceStep ==
  ASSUME Inv, NEW c \in Streams,
         \/ subscribeRevocations(c) \/ leave(c)
         \/ StreamRevocations(c) \/ readEOF(c) \/ Cancel(c)
  PROVE  StreamInv(c)'
  <1>0. StreamInv(c) /\ PhaseInv(c) /\ Lines /\ Scalars BY DEF Inv, TypeInv, StreamInv
  <1>1. SameLine(c) /\ SamePushes(c) /\ SameBooks(c)
    BY DEF subscribeRevocations, leave, StreamRevocations, readEOF, Cancel, SameLine, SamePushes,
       SameBooks, serverVars, clientVars
  <1>2. LineInv(c)' /\ LimitInv(c)' BY <1>0, <1>1, LineStays, LimitStays DEF StreamInv
  <1>3. CASE subscribeRevocations(c)
    <2>1. /\ server[c] = "accepted" /\ server'[c] = "subscribed" /\ c \in revSubs'
          /\ client'[c] = client[c] /\ up' = up
      BY <1>0, <1>3 DEF subscribeRevocations, ServerAt, Scalars, clientVars
    <2>2. PhaseInv(c)' BY <1>0, <1>1, <2>1 DEF PhaseInv, SameLine
    <2>3. SyncInv(c)' BY <1>0, <1>1, <2>1 DEF SyncInv, SameLine, StreamInv
    <2>4. NoGap(c)' BY <1>0, <1>1, <2>1, NoGapStays DEF StreamInv
    <2> QED BY <1>2, <2>2, <2>3, <2>4 DEF StreamInv
  <1>4. CASE leave(c)
    <2>1. /\ server[c] \in {"accepted", "subscribed", "streaming"} /\ server'[c] = "returned"
          /\ c \notin up /\ client'[c] = client[c] /\ up' = up
      BY <1>0, <1>4 DEF leave, ServerAt, Scalars, clientVars
    <2>2. PhaseInv(c)' BY <1>0, <1>1, <2>1 DEF PhaseInv, SameLine
    <2>3. SyncInv(c)' BY <1>0, <1>1, <2>1 DEF SyncInv, SameLine, StreamInv
    <2>4. NoGap(c)' BY <2>1, NothingHeardNoGap
    <2> QED BY <1>2, <2>2, <2>3, <2>4 DEF StreamInv
  <1>5. CASE StreamRevocations(c)
    <2>1. /\ client[c] = "idle" /\ client'[c] \in {"reading", "unavailable", "auth", "invalid"}
          /\ c \in up' => client'[c] = "reading"
          /\ server'[c] = server[c] /\ revSubs' = revSubs
      BY <1>0, <1>5 DEF StreamRevocations, Returned, Scalars, serverVars, PhaseInv
    <2>2. server[c] = "none" /\ wire[c] = <<>> /\ got[c] = <<>> BY <1>0, <2>1 DEF PhaseInv
    <2>3. PhaseInv(c)' BY <1>1, <2>1, <2>2 DEF PhaseInv, SameLine
    <2>4. SyncInv(c)' BY <1>1, <2>2 DEF SyncInv, SameLine
    <2>5. NoGap(c)' BY <1>1, <2>2, NothingHeardNoGap DEF SameLine
    <2> QED BY <1>2, <2>3, <2>4, <2>5 DEF StreamInv
  <1>6. CASE readEOF(c) \/ Cancel(c)
    <2>1. /\ client'[c] \in {"unavailable", "cancelled"} /\ c \notin up'
          /\ server'[c] = server[c] /\ revSubs' = revSubs
      BY <1>0, <1>6 DEF readEOF, Cancel, Returned, Scalars, serverVars
    <2>2. PhaseInv(c)' BY <1>0, <1>1, <2>1 DEF PhaseInv, SameLine
    <2>3. SyncInv(c)' BY <1>0, <1>1, <2>1 DEF SyncInv, SameLine, StreamInv
    <2>4. NoGap(c)' BY <2>1, NothingHeardNoGap
    <2> QED BY <1>2, <2>2, <2>3, <2>4 DEF StreamInv
  <1> QED BY <1>3, <1>4, <1>5, <1>6

(* A frame that is no event is written. *)
LEMMA NoticeKeepsLine ==
  ASSUME Inv, NEW c \in Streams, NEW f \in Frames, f.by = None,
         \/ wire'[c] = Append(wire[c], f)
         \/ wire[c] # <<>> /\ wire'[c] = [wire[c] EXCEPT ![1] = f],
         got'[c] = got[c], buffer'[c] = buffer[c], SamePushes(c)
  PROVE  LineInv(c)' /\ LimitInv(c)'
  <1>0. /\ got[c] \in Seq(Frames) /\ wire[c] \in Seq(Frames) /\ buffer[c] \in Seq(Events)
        /\ Line(got[c], wire[c], buffer[c]) /\ LimitInv(c)
    BY DEF Inv, TypeInv, Lines, StreamInv, LineInv
  <1>1. LineInv(c)'
    <2>1. /\ Line(got[c], Append(wire[c], f), buffer[c])
          /\ wire[c] # <<>> => Line(got[c], [wire[c] EXCEPT ![1] = f], buffer[c])
      BY <1>0, LineNotice
    <2>2. Line(got[c], wire'[c], buffer[c]) BY <2>1
    <2> QED BY <2>2 DEF LineInv
  <1>2. \A i \in 1..Len(wire'[c]) : \/ wire'[c][i] = f
                                    \/ i \in 1..Len(wire[c]) /\ wire'[c][i] = wire[c][i]
    <2>1. CASE wire'[c] = Append(wire[c], f) BY <1>0, <2>1, AppendFacts
    <2>2. CASE wire[c] # <<>> /\ wire'[c] = [wire[c] EXCEPT ![1] = f]
      BY <1>0, <2>2, RewriteFacts
    <2> QED BY <2>1, <2>2
  <1>3. Limit(wire[c], c)'
    <2> SUFFICES ASSUME NEW i \in 1..Len(wire'[c]), NEW q \in Pushers, wire'[c][i].by = q
                 PROVE  /\ wire'[c][i].n <= pushing'[q].n
                        /\ c \in pushing'[q].todo => wire'[c][i].n < pushing'[q].n
      BY DEF Limit
    <2>1. i \in 1..Len(wire[c]) /\ wire'[c][i] = wire[c][i] BY <1>2, NoneAssumption
    <2> QED BY <1>0, <2>1 DEF LimitInv, Limit, SamePushes
  <1>4. Limit(got[c], c)' /\ Limit(buffer[c], c)' BY <1>0 DEF LimitInv, Limit, SamePushes
  <1> QED BY <1>1, <1>3, <1>4 DEF LimitInv

LEMMA streamRevocationsKeeps ==
  ASSUME Inv, NEW c \in Streams, NEW ask \in Asks, streamRevocations(c, ask)
  PROVE  StreamInv(c)'
  <1>0. StreamInv(c) /\ PhaseInv(c) /\ Lines /\ Scalars BY DEF Inv, TypeInv, StreamInv
  <1>1. /\ server[c] = "none" /\ c \in up /\ client[c] = "reading"
        /\ wire[c] = <<>> /\ got[c] = <<>>
    BY <1>0 DEF streamRevocations, PhaseInv
  <1>2. /\ client'[c] = client[c] /\ up' = up /\ got'[c] = got[c] /\ buffer'[c] = buffer[c]
        /\ SamePushes(c) /\ SameBooks(c) /\ revSubs' = revSubs
    BY DEF streamRevocations, SamePushes, SameBooks, clientVars
  <1>3. NoGap(c)' BY <1>1, <1>2, NothingHeardNoGap
  <1>4. CASE server'[c] = "accepted" /\ UNCHANGED wire
    <2>1. SameLine(c) BY <1>2, <1>4 DEF SameLine
    <2>2. LineInv(c)' /\ LimitInv(c)' BY <1>0, <1>2, <2>1, LineStays, LimitStays DEF StreamInv
    <2>3. PhaseInv(c)' BY <1>1, <1>2, <1>4 DEF PhaseInv
    <2>4. SyncInv(c)' BY <1>1, <1>2, <1>4 DEF SyncInv
    <2> QED BY <1>3, <2>2, <2>3, <2>4 DEF StreamInv
  <1>5. CASE server'[c] = "returned" /\ \E g \in Refusals : wire'[c] = Append(wire[c], Closing(g))
    <2>1. PICK g \in Refusals : wire'[c] = Append(wire[c], Closing(g)) BY <1>5
    <2>2. /\ Closing(g) \in Frames /\ Closing(g).by = None
          /\ Closing(g) \notin Events /\ Closing(g) # Synced
      BY FrameFacts
    <2>3. wire'[c] # <<>> /\ Len(wire'[c]) = 1 /\ wire'[c][1] = Closing(g)
      BY <1>1, <2>1, <2>2
    <2>4. LineInv(c)' /\ LimitInv(c)' BY <1>2, <2>1, <2>2, NoticeKeepsLine
    <2>5. PhaseInv(c)' BY <1>1, <1>2, <1>5, <2>2, <2>3 DEF PhaseInv, Messages
    <2>6. SyncInv(c)' BY <1>1, <1>2, <2>2, <2>3 DEF SyncInv
    <2> QED BY <1>3, <2>4, <2>5, <2>6 DEF StreamInv
  <1> QED BY <1>0, <1>4, <1>5 DEF streamRevocations, ServerAt, Write, Refusals, Lines, Scalars

LEMMA writeSyncedKeeps ==
  ASSUME Inv, NEW c \in Streams, writeSynced(c)
  PROVE  StreamInv(c)'
  <1>0. StreamInv(c) /\ PhaseInv(c) /\ Lines /\ Scalars BY DEF Inv, TypeInv, StreamInv
  <1>1. /\ server[c] = "subscribed" /\ server'[c] = "streaming" /\ c \in revSubs
        /\ c \in up /\ client[c] = "reading" /\ wire[c] = <<>> /\ got[c] = <<>>
        /\ wire'[c] = Append(wire[c], Synced)
    BY <1>0 DEF writeSynced, PhaseInv, Write, ServerAt, Lines, Scalars
  <1>2. /\ client'[c] = client[c] /\ up' = up /\ got'[c] = got[c] /\ buffer'[c] = buffer[c]
        /\ SamePushes(c) /\ SameBooks(c) /\ revSubs' = revSubs
    BY DEF writeSynced, SamePushes, SameBooks, clientVars
  <1>3. NoGap(c)' BY <1>1, <1>2, NothingHeardNoGap
  <1>4. Synced \in Frames /\ Synced.by = None /\ Synced \notin Events BY FrameFacts
  <1>5. wire'[c] # <<>> /\ Len(wire'[c]) = 1 /\ wire'[c][1] = Synced BY <1>1, <1>4
  <1>6. LineInv(c)' /\ LimitInv(c)' BY <1>1, <1>2, <1>4, NoticeKeepsLine
  <1>7. PhaseInv(c)' BY <1>1, <1>2, <1>5 DEF PhaseInv
  <1>8. SyncInv(c)' BY <1>1, <1>2, <1>4, <1>5 DEF SyncInv
  <1> QED BY <1>3, <1>6, <1>7, <1>8 DEF StreamInv

LEMMA forwardKeeps ==
  ASSUME Inv, NEW c \in Streams, forward(c)
  PROVE  StreamInv(c)'
  <1> DEFINE e == Head(buffer[c])
  <1>0. StreamInv(c) /\ PhaseInv(c) /\ Lines /\ Scalars BY DEF Inv, TypeInv, StreamInv
  <1>1. /\ server[c] = "streaming" /\ c \in up /\ client[c] = "reading" /\ buffer[c] # <<>>
        /\ wire'[c] = Append(wire[c], e) /\ buffer'[c] = Tail(buffer[c])
    BY <1>0 DEF forward, PhaseInv, Write, Lines
  <1>2. /\ client'[c] = client[c] /\ up' = up /\ got'[c] = got[c] /\ server'[c] = server[c]
        /\ SamePushes(c) /\ SameBooks(c) /\ revSubs' = revSubs
    BY DEF forward, SamePushes, SameBooks, clientVars
  <1>3. got[c] \in Seq(Frames) /\ wire[c] \in Seq(Frames) /\ buffer[c] \in Seq(Events)
    BY <1>0 DEF Lines
  <1>4. /\ e = buffer[c][1] /\ e \in Events /\ Len(buffer[c]) \in Nat /\ Len(buffer[c]) >= 1
        /\ Len(buffer'[c]) = Len(buffer[c]) - 1
        /\ \A i \in 1..(Len(buffer[c]) - 1) : buffer'[c][i] = buffer[c][i + 1]
    BY <1>1, <1>3, TailFacts
  <1>5. e \in Frames /\ e # Synced BY <1>4, FrameFacts
  <1> HIDE DEF e
  <1>6. /\ Len(wire[c]) \in Nat /\ Len(wire'[c]) = Len(wire[c]) + 1 /\ wire'[c] # <<>>
        /\ \A i \in 1..Len(wire[c]) : wire'[c][i] = wire[c][i]
        /\ wire'[c][Len(wire[c]) + 1] = e
    BY <1>1, <1>3, <1>5, AppendFacts
  <1>7. LineInv(c)' BY <1>0, <1>1, <1>2, <1>3, LineForward DEF StreamInv, LineInv, e
  <1>8. LimitInv(c)'
    <2>0. Limit(got[c], c) /\ Limit(wire[c], c) /\ Limit(buffer[c], c)
      BY <1>0 DEF StreamInv, LimitInv
    <2>1. Limit(got[c], c)' BY <1>2, <2>0 DEF Limit, SamePushes
    <2>2. \A i \in 1..Len(wire'[c]) : \/ i \in 1..Len(wire[c]) /\ wire'[c][i] = wire[c][i]
                                      \/ 1 \in 1..Len(buffer[c]) /\ wire'[c][i] = buffer[c][1]
      BY <1>4, <1>6
    <2>3. Limit(wire[c], c)' BY <1>2, <2>0, <2>2 DEF Limit, SamePushes
    <2>4. \A i \in 1..Len(buffer'[c]) : i + 1 \in 1..Len(buffer[c]) /\ buffer'[c][i] = buffer[c][i + 1]
      BY <1>4
    <2>5. Limit(buffer[c], c)' BY <1>2, <2>0, <2>4 DEF Limit, SamePushes
    <2> QED BY <2>1, <2>3, <2>5 DEF LimitInv
  <1>9. PhaseInv(c)' BY <1>0, <1>1, <1>2, <1>6 DEF PhaseInv
  <1>10. SyncInv(c)'
    <2>1. \A i \in 1..Len(wire'[c]) : wire'[c][i] = Synced => i = 1 /\ got'[c] = <<>>
      BY <1>0, <1>2, <1>5, <1>6 DEF StreamInv, SyncInv
    <2>2. ASSUME got[c] = <<>> PROVE wire'[c][1] \notin Events
      <3>1. wire[c] # <<>> BY <1>0, <1>1, <2>2 DEF PhaseInv
      <3>2. 1 \in 1..Len(wire[c]) BY <1>3, <3>1
      <3> QED BY <1>0, <1>1, <1>6, <2>2, <3>1, <3>2 DEF StreamInv, SyncInv
    <2> QED BY <1>2, <2>1, <2>2 DEF SyncInv
  <1>11. NoGap(c)'
    <2> SUFFICES ASSUME got[c] # <<>>, NEW q \in Pushers,
                        NEW k \in (before[c][q] + 1)..pushing[q].n
                 PROVE  Found(c, q, k)'
      BY <1>2 DEF NoGap, SamePushes, SameBooks
    <2>1. Found(c, q, k) BY <1>0, <1>1 DEF StreamInv, NoGap
    <2>2. CASE \E i \in 1..Len(buffer[c]) : buffer[c][i] = Event(q, k)
      <3>1. PICK i \in 1..Len(buffer[c]) : buffer[c][i] = Event(q, k) BY <2>2
      <3>2. CASE i = 1
        <4>1. Len(wire[c]) + 1 \in 1..Len(wire'[c]) /\ wire'[c][Len(wire[c]) + 1] = Event(q, k)
          BY <1>4, <1>6, <3>1, <3>2
        <4> QED BY <4>1 DEF Found
      <3>3. CASE i # 1
        <4>1. i - 1 \in 1..Len(buffer'[c]) /\ buffer'[c][i - 1] = Event(q, k)
          BY <1>4, <3>1, <3>3
        <4> QED BY <4>1 DEF Found
      <3> QED BY <3>2, <3>3
    <2>3. CASE \E i \in 1..Len(wire[c]) : wire[c][i] = Event(q, k) \/ wire[c][i].kind \in Garbled
      <3>1. PICK i \in 1..Len(wire[c]) : wire[c][i] = Event(q, k) \/ wire[c][i].kind \in Garbled
        BY <2>3
      <3>2. i \in 1..Len(wire'[c]) /\ wire'[c][i] = wire[c][i] BY <1>6
      <3> QED BY <3>1, <3>2 DEF Found
    <2>4. CASE k = pushing[q].n /\ c \in pushing[q].todo
      BY <1>2, <2>4 DEF Found, SamePushes
    <2> QED BY <1>2, <2>1, <2>2, <2>3, <2>4 DEF Found, SameBooks
  <1> QED BY <1>7, <1>8, <1>9, <1>10, <1>11 DEF StreamInv

-----------------------------------------------------------------------------
(* The call and its connection, on its own stream. *)

LEMMA BreakKeeps ==
  ASSUME Inv, NEW c \in Streams, Break(c)
  PROVE  StreamInv(c)'
  <1>0. StreamInv(c) /\ PhaseInv(c) /\ Lines /\ Scalars BY DEF Inv, TypeInv, StreamInv
  <1>1. PICK k \in 0..Len(wire[c]) : wire' = [wire EXCEPT ![c] = SubSeq(@, 1, k)]
    BY DEF Break
  <1>2. got[c] \in Seq(Frames) /\ wire[c] \in Seq(Frames) /\ buffer[c] \in Seq(Events)
    BY <1>0 DEF Lines
  <1>3. wire'[c] = SubSeq(wire[c], 1, k) BY <1>0, <1>1 DEF Lines
  <1>4. /\ wire'[c] \in Seq(Frames) /\ Len(wire'[c]) = k /\ Len(wire[c]) \in Nat
        /\ \A i \in 1..Len(wire'[c]) : i \in 1..Len(wire[c]) /\ wire'[c][i] = wire[c][i]
    BY <1>2, <1>3, CutFacts
  <1>5. /\ c \in up /\ c \notin up' /\ client[c] = "reading" /\ client'[c] = client[c]
        /\ server'[c] = server[c] /\ revSubs' = revSubs /\ got'[c] = got[c]
        /\ buffer'[c] = buffer[c] /\ SamePushes(c)
    BY <1>0 DEF Break, PhaseInv, SamePushes, serverVars, clientVars
  <1>6. wire[c] = <<>> => wire'[c] = <<>> BY <1>2, <1>4
  <1>7. PhaseInv(c)' BY <1>0, <1>5, <1>6 DEF PhaseInv
  <1>8. wire'[c] # <<>> => wire[c] # <<>> /\ wire'[c][1] = wire[c][1] BY <1>2, <1>4
  <1>9. SyncInv(c)' BY <1>0, <1>4, <1>5, <1>8 DEF StreamInv, SyncInv
  <1>10. LineInv(c)'
    <2>1. Line(got[c], SubSeq(wire[c], 1, k), buffer[c])
      BY <1>0, <1>2, LineCut DEF StreamInv, LineInv
    <2> QED BY <1>3, <1>5, <2>1 DEF LineInv
  <1>11. LimitInv(c)'
    <2>1. Limit(got[c], c)' /\ Limit(buffer[c], c)'
      BY <1>0, <1>5 DEF StreamInv, LimitInv, Limit, SamePushes
    <2>2. Limit(wire[c], c)' BY <1>0, <1>4, <1>5 DEF StreamInv, LimitInv, Limit, SamePushes
    <2> QED BY <2>1, <2>2 DEF LimitInv
  <1>12. NoGap(c)' BY <1>5, NothingHeardNoGap
  <1> QED BY <1>7, <1>9, <1>10, <1>11, <1>12 DEF StreamInv

LEMMA GarbleKeeps ==
  ASSUME Inv, NEW c \in Streams, NEW f \in Garbled, Garble(c, f)
  PROVE  StreamInv(c)'
  <1> DEFINE g == Closing(f)
  <1>0. StreamInv(c) /\ PhaseInv(c) /\ Lines /\ Scalars BY DEF Inv, TypeInv, StreamInv
  <1>1. /\ wire[c] \in Seq(Frames) /\ wire[c] # <<>> /\ c \in up
        /\ wire'[c] = [wire[c] EXCEPT ![1] = g]
    BY <1>0 DEF Lines, Garble
  <1>2. g \in Frames /\ g.by = None /\ g.kind \in Garbled /\ g \notin Events /\ g # Synced
    BY FrameFacts
  <1> HIDE DEF g
  <1>3. /\ wire'[c] # <<>> /\ Len(wire'[c]) = Len(wire[c]) /\ Len(wire[c]) \in Nat
        /\ Len(wire[c]) >= 1 /\ wire'[c][1] = g
        /\ \A i \in 2..Len(wire[c]) : wire'[c][i] = wire[c][i]
    BY <1>1, <1>2, RewriteFacts
  <1>4. /\ client'[c] = client[c] /\ up' = up /\ got'[c] = got[c] /\ server'[c] = server[c]
        /\ buffer'[c] = buffer[c] /\ SamePushes(c) /\ SameBooks(c) /\ revSubs' = revSubs
    BY DEF Garble, SamePushes, SameBooks, serverVars, clientVars
  <1>5. \A i \in 1..Len(wire'[c]) : i \in 1..Len(wire[c]) /\ (wire'[c][i] = g \/ wire'[c][i] = wire[c][i])
    BY <1>3
  <1>6. PhaseInv(c)' BY <1>0, <1>1, <1>2, <1>3, <1>4, <1>5 DEF PhaseInv, Messages
  <1>7. SyncInv(c)' BY <1>0, <1>2, <1>3, <1>4, <1>5 DEF StreamInv, SyncInv
  <1>8. LineInv(c)' /\ LimitInv(c)' BY <1>1, <1>2, <1>4, NoticeKeepsLine
  <1>9. NoGap(c)'
    <2>1. 1 \in 1..Len(wire'[c]) BY <1>3
    <2>2. \A p \in Pushers, k \in Nat : Found(c, p, k)' BY <1>2, <1>3, <2>1 DEF Found
    <2>3. \A p \in Pushers : before[c][p] \in Nat /\ pushing[p].n \in Nat
      BY <1>0, BufferAssumption DEF Scalars
    <2> SUFFICES ASSUME NEW p \in Pushers, NEW k \in (before[c][p] + 1)..pushing[p].n
                 PROVE  Found(c, p, k)'
      BY <1>4 DEF NoGap, SamePushes, SameBooks
    <2>4. k \in Nat BY <2>3
    <2> QED BY <2>2, <2>4
  <1> QED BY <1>6, <1>7, <1>8, <1>9 DEF StreamInv

(* The frame at the head of the connection, and what the call does with it. *)
Hears(c) ==
  /\ client[c] = "reading" /\ wire[c] # <<>> /\ Head(wire[c]) \in Messages
  /\ wire'[c] = Tail(wire[c]) /\ got'[c] = Append(got[c], Head(wire[c]))
  /\ \/ (c \in up' <=> c \in up) /\ client'[c] = "reading"
     \/ c \notin up' /\ client'[c] = "callback"
  /\ before'[c] = IF Head(wire[c]) = Synced THEN [p \in Pushers |-> pushing[p].n] ELSE before[c]
Stops(c) ==
  /\ client[c] = "reading" /\ wire[c] # <<>> /\ Head(wire[c]) \notin Messages
  /\ wire'[c] = Tail(wire[c]) /\ got'[c] = got[c]
  /\ c \notin up' /\ client'[c] \in Returns
Keeps(c) ==
  /\ server'[c] = server[c] /\ revSubs' = revSubs /\ buffer'[c] = buffer[c]
  /\ dropped'[c] = dropped[c] /\ SamePushes(c)

LEMMA ReadCases ==
  ASSUME Lines, Scalars, NEW c \in Streams, readRevocations(c)
  PROVE  (Hears(c) \/ Stops(c)) /\ Keeps(c)
  <1>1. Keeps(c) BY DEF readRevocations, Keeps, SamePushes, serverVars
  <1>2. /\ client[c] = "reading" /\ wire[c] # <<>> /\ wire'[c] = Tail(wire[c])
    BY DEF readRevocations, Lines
  <1>3. /\ Head(wire[c]) \in Frames
        /\ Head(wire[c]).kind \in {"synced", "event"} <=> Head(wire[c]) \in Messages
    <2>1. Head(wire[c]) \in Frames BY <1>2, TailFacts DEF Lines
    <2> QED BY <2>1, FrameFacts DEF Messages
  <1>4. CASE Head(wire[c]) \in Messages
    <2>1. got'[c] = Append(got[c], Head(wire[c]))
      BY <1>3, <1>4 DEF readRevocations, Lines
    <2>2. \/ (c \in up' <=> c \in up) /\ client'[c] = "reading"
          \/ c \notin up' /\ client'[c] = "callback"
      BY <1>2, <1>3, <1>4 DEF readRevocations, Returned, Scalars
    <2>3. before'[c] = IF Head(wire[c]) = Synced THEN [p \in Pushers |-> pushing[p].n] ELSE before[c]
      BY <1>3, <1>4 DEF readRevocations, Scalars
    <2> QED BY <1>1, <1>2, <1>4, <2>1, <2>2, <2>3 DEF Hears
  <1>5. CASE Head(wire[c]) \notin Messages
    <2>1. got' = got /\ up' = up \ {c}
          /\ client' = [client EXCEPT ![c] = endOfStream(Head(wire[c]).kind)]
      BY <1>3, <1>5 DEF readRevocations, Returned
    <2>2. endOfStream(Head(wire[c]).kind) \in Returns BY <1>3, <1>5, ReadReturns
    <2> QED BY <1>1, <1>2, <1>5, <2>1, <2>2 DEF Stops, Scalars
  <1> QED BY <1>4, <1>5

LEMMA readRevocationsKeeps ==
  ASSUME Inv, NEW c \in Streams, readRevocations(c)
  PROVE  StreamInv(c)'
  <1> DEFINE f == Head(wire[c])
  <1>0. StreamInv(c) /\ PhaseInv(c) /\ Lines /\ Scalars BY DEF Inv, TypeInv, StreamInv
  <1>1. (Hears(c) \/ Stops(c)) /\ Keeps(c) BY <1>0, ReadCases
  <1>2. /\ got[c] \in Seq(Frames) /\ wire[c] \in Seq(Frames) /\ buffer[c] \in Seq(Events)
        /\ wire[c] # <<>> /\ client[c] = "reading" /\ wire'[c] = Tail(wire[c])
    BY <1>0, <1>1 DEF Lines, Hears, Stops
  <1>3. /\ f \in Frames /\ f = wire[c][1] /\ Len(wire[c]) \in Nat /\ Len(wire[c]) >= 1
        /\ Len(wire'[c]) = Len(wire[c]) - 1
        /\ \A i \in 1..Len(wire'[c]) : i + 1 \in 1..Len(wire[c]) /\ wire'[c][i] = wire[c][i + 1]
    BY <1>2, TailFacts
  <1>4. 1 \in 1..Len(wire[c]) /\ server[c] \in {"streaming", "returned"}
    BY <1>0, <1>2, <1>3 DEF PhaseInv, Scalars, Places
  <1>5. Limit(got[c], c) /\ Limit(wire[c], c) /\ Limit(buffer[c], c) /\ SamePushes(c)
    BY <1>0, <1>1 DEF StreamInv, LimitInv, Keeps
  <1>6. Limit(wire[c], c)'
    <2> SUFFICES ASSUME NEW i \in 1..Len(wire'[c]), NEW q \in Pushers, wire'[c][i].by = q
                 PROVE  /\ wire'[c][i].n <= pushing'[q].n
                        /\ c \in pushing'[q].todo => wire'[c][i].n < pushing'[q].n
      BY DEF Limit
    <2>1. i + 1 \in 1..Len(wire[c]) /\ wire'[c][i] = wire[c][i + 1] BY <1>3
    <2> QED BY <1>5, <2>1 DEF Limit, SamePushes
  <1>7. Limit(buffer[c], c)' BY <1>1, <1>5 DEF Limit, SamePushes, Keeps
  <1>8. Line(got[c], Tail(wire[c]), buffer[c]) /\ Line(Append(got[c], f), Tail(wire[c]), buffer[c])
    BY <1>0, <1>2, LineRead DEF StreamInv, LineInv
  <1>9. LineInv(c)' BY <1>1, <1>2, <1>8 DEF LineInv, Keeps, Hears, Stops
  <1>10. \A i \in 1..Len(wire'[c]) : wire'[c][i] # Synced
    <2> SUFFICES ASSUME NEW i \in 1..Len(wire'[c]) PROVE wire'[c][i] # Synced OBVIOUS
    <2>1. i + 1 # 1 BY <1>3
    <2> QED BY <1>0, <1>3, <2>1 DEF StreamInv, SyncInv
  <1> HIDE DEF f
  <1>11. CASE Stops(c)
    <2>1. PhaseInv(c)'
      BY <1>0, <1>1, <1>4, <1>11 DEF PhaseInv, Stops, Keeps, Returns
    <2>2. SyncInv(c)' BY <1>10, <1>11 DEF SyncInv, Stops, Returns
    <2>3. Limit(got[c], c)' BY <1>5, <1>11 DEF Limit, SamePushes, Stops
    <2>4. NoGap(c)' BY <1>11, NothingHeardNoGap DEF Stops
    <2> QED BY <1>6, <1>7, <1>9, <2>1, <2>2, <2>3, <2>4 DEF StreamInv, LimitInv
  <1>12. CASE Hears(c)
    <2>0. f \in Messages /\ got'[c] = Append(got[c], f) BY <1>12 DEF Hears, f
    <2>1. /\ got'[c] # <<>> /\ Len(got[c]) \in Nat /\ Len(got'[c]) = Len(got[c]) + 1
          /\ \A i \in 1..Len(got[c]) : got'[c][i] = got[c][i]
          /\ got'[c][Len(got[c]) + 1] = f
      <3>1. f \in Frames /\ got[c] \in Seq(Frames) BY <1>2, <1>3
      <3> QED BY <2>0, <3>1, AppendFacts
    <2>2. server[c] = "streaming" \/ c \notin up
      BY <1>0, <1>3, <1>4, <2>0 DEF PhaseInv
    <2>3. PhaseInv(c)'
      BY <1>0, <1>1, <1>4, <1>12, <2>1, <2>2 DEF PhaseInv, Hears, Keeps
    <2>4. SyncInv(c)' BY <1>10, <2>1 DEF SyncInv
    <2>5. Limit(got[c], c)'
      <3>1. \A i \in 1..Len(got'[c]) : \/ i \in 1..Len(got[c]) /\ got'[c][i] = got[c][i]
                                       \/ got'[c][i] = wire[c][1]
        BY <1>3, <2>1
      <3> QED BY <1>4, <1>5, <3>1 DEF Limit, SamePushes
    <2>6. NoGap(c)'
      <3> SUFFICES ASSUME c \in up, NEW q \in Pushers,
                          NEW k \in (before'[c][q] + 1)..pushing[q].n
                   PROVE  Found(c, q, k)'
        BY <1>5, <1>12 DEF NoGap, SamePushes, Hears
      <3>1. CASE f = Synced
        <4>1. before'[c][q] = pushing[q].n /\ pushing[q].n \in Nat
          BY <1>0, <1>12, <3>1, BufferAssumption DEF Hears, Scalars, f
        <4> QED BY <4>1
      <3>2. CASE f # Synced
        <4>1. f \in Events BY <2>0, <3>2 DEF Messages
        <4>2. got[c] # <<>> BY <1>0, <1>2, <1>3, <4>1 DEF StreamInv, SyncInv
        <4>3. before'[c] = before[c] BY <1>12, <3>2 DEF Hears, f
        <4>4. Found(c, q, k) BY <1>0, <1>2, <4>2, <4>3 DEF StreamInv, NoGap
        <4>5. CASE \E i \in 1..Len(wire[c]) : wire[c][i] = Event(q, k) \/ wire[c][i].kind \in Garbled
          <5>1. PICK i \in 1..Len(wire[c]) : wire[c][i] = Event(q, k) \/ wire[c][i].kind \in Garbled
            BY <4>5
          <5>2. CASE i = 1
            <6>1. f.kind = "event" BY <1>3, <4>1, FrameFacts
            <6>2. f = Event(q, k) BY <1>3, <5>1, <5>2, <6>1 DEF Garbled
            <6>3. Len(got[c]) + 1 \in 1..Len(got'[c]) BY <2>1
            <6> QED BY <2>1, <6>2, <6>3 DEF Found
          <5>3. CASE i # 1
            <6>1. i - 1 \in 1..Len(wire'[c]) /\ (i - 1) + 1 = i BY <1>3, <5>3
            <6>2. wire'[c][i - 1] = wire[c][i] BY <1>3, <6>1
            <6> QED BY <5>1, <6>1, <6>2 DEF Found
          <5> QED BY <5>2, <5>3
        <4>6. CASE \E i \in 1..Len(got[c]) : got[c][i] = Event(q, k)
          <5>1. PICK i \in 1..Len(got[c]) : got[c][i] = Event(q, k) BY <4>6
          <5>2. i \in 1..Len(got'[c]) /\ got'[c][i] = Event(q, k) BY <2>1, <5>1
          <5> QED BY <5>2 DEF Found
        <4>7. CASE k = pushing[q].n /\ c \in pushing[q].todo
          BY <1>5, <4>7 DEF Found, SamePushes
        <4> QED BY <1>1, <4>4, <4>5, <4>6, <4>7 DEF Found, Keeps
      <3> QED BY <3>1, <3>2
    <2> QED BY <1>6, <1>7, <1>9, <2>3, <2>4, <2>5, <2>6 DEF StreamInv, LimitInv
  <1> QED BY <1>1, <1>11, <1>12

LEMMA InvNext == Inv /\ [Next]_vars => Inv'
  <1> SUFFICES ASSUME Inv, [Next]_vars PROVE \A c \in Streams : StreamInv(c)'
    BY TypeInvNext DEF Inv
  <1>0. \A c \in Streams : Same(c) => StreamInv(c)' BY SameKeeps DEF Inv
  <1>1. ASSUME NEW c \in Streams, HandlerStep(c) \/ ClientStep(c)
        PROVE  \A d \in Streams : StreamInv(d)'
    <2>1. StreamInv(c)'
      BY <1>1, PlaceStep, streamRevocationsKeeps, writeSyncedKeeps, forwardKeeps, BreakKeeps,
         GarbleKeeps, readRevocationsKeeps DEF HandlerStep, ClientStep
    <2>2. \A d \in Streams : d # c => StreamInv(d)' BY <1>0, <1>1, OthersSame DEF Inv
    <2> QED BY <2>1, <2>2
  <1>2. CASE \E p \in Pushers : PushRevocation(p) BY <1>2, PushRevocationKeeps
  <1>3. CASE \E p \in Pushers, c \in Streams : PushSend(p, c) BY <1>3, PushSendKeeps
  <1>4. CASE (\E refuse \in BOOLEAN : RefuseStreams(refuse)) \/ UNCHANGED vars
    <2>1. \A c \in Streams : Same(c)
      BY <1>4 DEF RefuseStreams, Same, SamePushes, SameLine, SamePlace, SameBooks, vars, clientVars
    <2> QED BY <1>0, <2>1
  <1> QED BY <1>1, <1>2, <1>3, <1>4 DEF Next, ClientStep

LEMMA InvHolds == Spec => []Inv
  BY InvInit, InvNext, PTL DEF Spec

(* Whatever publishers, handlers, breaks and garbled frames interleave, no   *)
(* channel outgrows revSubBuffer and a consumer that was told it is current  *)
(* has no silent gap: every later revocation was heard, is under way, was    *)
(* dropped at a full channel, or the call is over                            *)
(* (anubistest/revocations.go:35-60, :136-138).                              *)
THEOREM DeliveryStaysSound == Spec => []DeliveryIsSound
  <1>1. Inv => DeliveryIsSound
    BY TypeInvImplies, NoGapIsNoGap DEF Inv, StreamInv, DeliveryIsSound
  <1> QED BY <1>1, InvHolds, PTL

-----------------------------------------------------------------------------
(* The refinement: every step is one of RevocationFeed or a stutter of it. *)

Published == [p \in Pushers |-> pushing[p].n]
Over == {c \in Streams : client[c] \in Returns}

LEMMA FeedStarts == Init => Feed!FeedInit
  BY DEF Init, Feed!FeedInit, Returns

LEMMA QuietStep ==
  ASSUME UNCHANGED <<Published, got, Over>>
  PROVE  UNCHANGED Feed!feedVars
  BY DEF Feed!feedVars, Published, Over

LEMMA EndStep ==
  ASSUME NEW c \in Streams, client[c] \notin Returns, client'[c] \in Returns,
         \A d \in Streams : d # c => client'[d] = client[d],
         UNCHANGED <<Published, got>>
  PROVE  Feed!End(c)
  <1>1. Over' = Over \cup {c} /\ c \notin Over BY DEF Over
  <1> QED BY <1>1 DEF Feed!End, Over, Published

LEMMA PublishStep ==
  ASSUME Scalars, NEW p \in Pushers, PushRevocation(p)
  PROVE  Feed!Publish(p)
  <1>1. Published' = [Published EXCEPT ![p] = @ + 1]
    BY DEF PushRevocation, Published, Scalars
  <1>2. UNCHANGED <<got, Over>> BY DEF PushRevocation, Over, clientVars
  <1> QED BY <1>1, <1>2 DEF Feed!Publish, Published, Over

LEMMA HearStep ==
  ASSUME Inv, NEW c \in Streams, readRevocations(c), Hears(c)
  PROVE  Feed!FeedNext
  <1> DEFINE f == Head(wire[c])
  <1>0. StreamInv(c) /\ TypeInv /\ Lines /\ Scalars BY DEF Inv, TypeInv
  <1>1. /\ f \in Messages /\ f \in Frames /\ f = wire[c][1] /\ 1 \in 1..Len(wire[c])
        /\ wire[c] # <<>> /\ client[c] = "reading"
    BY <1>0, TailFacts DEF Hears, Lines
  <1>2. got' = [got EXCEPT ![c] = Append(got[c], f)]
    <2>1. f.kind \in {"synced", "event"} BY <1>1, FrameFacts DEF Messages
    <2> QED BY <2>1 DEF readRevocations
  <1>3. \A d \in Streams : d # c => client'[d] = client[d]
    BY <1>0, OthersSame DEF ClientStep, Same, SamePlace
  <1>4. c \notin Over /\ Over' \in {Over, Over \cup {c}}
    <2>1. c \notin Over BY <1>1 DEF Over, Returns
    <2>2. CASE client'[c] = "reading"
      <3>1. Over' = Over BY <1>1, <1>3, <2>2 DEF Over
      <3> QED BY <2>1, <3>1
    <2>3. CASE client'[c] = "callback"
      <3>1. Over' = Over \cup {c} BY <1>3, <2>3 DEF Over, Returns
      <3> QED BY <2>1, <3>1
    <2> QED BY <2>1, <2>2, <2>3 DEF Hears
  <1>5. UNCHANGED Published BY DEF readRevocations, Published, serverVars
  <1> HIDE DEF f
  <1>6. Feed!Hear(c, f) BY <1>2, <1>4, <1>5 DEF Feed!Hear, Over, Published
  <1>7. CASE f = Synced
    <2>1. got[c] = <<>> BY <1>0, <1>1, <1>7 DEF StreamInv, SyncInv
    <2>2. f = Feed!Synced BY <1>7 DEF Synced, Feed!Synced
    <2>3. Feed!HearSynced(c) BY <1>6, <2>1, <2>2 DEF Feed!HearSynced, Feed!Hear
    <2> QED BY <2>3 DEF Feed!FeedNext
  <1>8. CASE f \in Events
    <2> DEFINE p == f.by
               k == f.n
    <2>1. f = Event(p, k) /\ p \in Pushers /\ k \in 1..MaxPushes BY <1>8, FrameFacts
    <2>2. f = Feed!Event(p, k) BY <2>1 DEF Event, Feed!Event
    <2>3. k <= pushing[p].n
      BY <1>0, <1>1, <2>1 DEF StreamInv, LimitInv, Limit
    <2>4. k \in 1..pushing[p].n
      BY <1>0, <2>1, <2>3, BufferAssumption DEF Scalars
    <2>5. got[c] # <<>> BY <1>0, <1>1, <1>8 DEF StreamInv, SyncInv
    <2>6. \A i \in 1..Len(got[c]) : got[c][i].by = p => got[c][i].n < k
      BY <1>0, <1>1, <2>1 DEF StreamInv, LineInv, Line, AllBefore, Precedes
    <2> HIDE DEF p, k
    <2>7. Feed!HearEvent(c, p, k) BY <1>6, <2>2, <2>5, <2>6 DEF Feed!HearEvent, Feed!Hear
    <2>8. Published[p] = pushing[p].n BY <2>1 DEF Published
    <2> QED BY <2>1, <2>4, <2>7, <2>8 DEF Feed!FeedNext, Published
  <1> QED BY <1>1, <1>7, <1>8 DEF Messages

LEMMA FeedSteps == Inv /\ [Next]_vars => [Feed!FeedNext]_(Feed!feedVars)
  <1> SUFFICES ASSUME Inv, [Next]_vars PROVE Feed!FeedNext \/ UNCHANGED Feed!feedVars
    OBVIOUS
  <1>0. TypeInv /\ Lines /\ Scalars BY DEF Inv, TypeInv
  <1>1. ASSUME NEW p \in Pushers, PushRevocation(p) PROVE Feed!FeedNext
    BY <1>0, <1>1, PublishStep DEF Feed!FeedNext
  <1>2. ASSUME NEW p \in Pushers, NEW c \in Streams, PushSend(p, c)
        PROVE  UNCHANGED <<Published, got, Over>>
    BY <1>0, <1>2 DEF PushSend, Published, Over, Scalars, clientVars
  <1>3. ASSUME NEW c \in Streams, HandlerStep(c) PROVE UNCHANGED <<Published, got, Over>>
    BY <1>3 DEF HandlerStep, streamRevocations, subscribeRevocations, writeSynced, forward, leave,
       Published, Over, clientVars
  <1>4. ASSUME NEW c \in Streams, Break(c) \/ \E f \in Garbled : Garble(c, f)
        PROVE  UNCHANGED <<Published, got, Over>>
    BY <1>4 DEF Break, Garble, Published, Over, clientVars, serverVars
  <1>5. ASSUME NEW c \in Streams, StreamRevocations(c) \/ readEOF(c) \/ Cancel(c)
        PROVE  Feed!FeedNext \/ UNCHANGED <<Published, got, Over>>
    <2>1. UNCHANGED <<Published, got>>
      BY <1>5 DEF StreamRevocations, readEOF, Cancel, Published, serverVars
    <2>2. /\ client[c] \in {"idle", "reading"}
          /\ client'[c] \in {"reading", "unavailable", "auth", "invalid", "cancelled"}
          /\ \A d \in Streams : d # c => client'[d] = client[d]
      BY <1>0, <1>5 DEF StreamRevocations, readEOF, Cancel, Returned, Scalars
    <2>3. CASE client'[c] = "reading" BY <2>1, <2>2, <2>3 DEF Over, Returns
    <2>4. CASE client'[c] \in {"unavailable", "auth", "invalid", "cancelled"}
      <3>1. Feed!End(c) BY <2>1, <2>2, <2>4, EndStep DEF Returns
      <3> QED BY <3>1 DEF Feed!FeedNext
    <2> QED BY <2>2, <2>3, <2>4
  <1>6. ASSUME NEW c \in Streams, readRevocations(c) PROVE Feed!FeedNext
    <2>1. CASE Hears(c) BY <1>6, <2>1, HearStep
    <2>2. CASE Stops(c)
      <3>1. \A d \in Streams : d # c => client'[d] = client[d] /\ got'[d] = got[d]
        BY <1>0, <1>6, OthersSame DEF ClientStep, Same, SamePlace, SameLine
      <3>2. UNCHANGED Published BY <1>6 DEF readRevocations, Published, serverVars
      <3>3. got' \in [Streams -> Seq(Frames)] BY LinesStep DEF Inv, Lines
      <3>4. UNCHANGED got BY <1>0, <2>2, <3>1, <3>3 DEF Lines, Stops
      <3>5. client[c] \notin Returns /\ client'[c] \in Returns BY <2>2 DEF Stops, Returns
      <3>6. Feed!End(c) BY <3>1, <3>2, <3>4, <3>5, EndStep
      <3> QED BY <3>6 DEF Feed!FeedNext
    <2> QED BY <1>0, <1>6, <2>1, <2>2, ReadCases
  <1>7. CASE (\E refuse \in BOOLEAN : RefuseStreams(refuse)) \/ UNCHANGED vars
    BY <1>7, QuietStep DEF RefuseStreams, vars, clientVars, Published, Over
  <1> QED BY <1>1, <1>2, <1>3, <1>4, <1>5, <1>6, <1>7, QuietStep DEF Next

(* The broker, its handlers and the call together keep the promise of        *)
(* StreamRevocations: Synced first and once, then revocations that were      *)
(* published, each at most once and in the order of their publisher, and     *)
(* nothing after the call has returned (revocations.go:84-109).              *)
THEOREM StreamKeepsFeedPromise == Spec => KeepsFeedPromise
  BY FeedStarts, FeedSteps, InvHolds, PTL DEF Spec, KeepsFeedPromise, Feed!FeedSpec
=============================================================================
