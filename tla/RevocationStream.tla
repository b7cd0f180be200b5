-------------------------- MODULE RevocationStream --------------------------
(***************************************************************************)
(* The revocation stream: StreamRevocations of revocations.go against the  *)
(* fake broker of anubistest/revocations.go.  Each stream is one call: a   *)
(* client that reads frames, a connection that may break, and a server     *)
(* handler with its own buffered channel.  Publishers run concurrently:    *)
(* PushRevocation copies the subscribers under the lock and sends to each  *)
(* of them after releasing it.                                             *)
(***************************************************************************)
EXTENDS Naturals, Sequences, FiniteSets

CONSTANTS
  Streams,     \* calls of StreamRevocations
  Pushers,     \* goroutines that call PushRevocation
  MaxPushes,   \* bound on the calls of each
  Buffer,      \* revSubBuffer
  Window,      \* frames the connection holds before a write blocks
  None

ASSUME BufferAssumption == Buffer \in Nat \ {0} /\ Window \in Nat \ {0} /\ MaxPushes \in Nat
ASSUME NoneAssumption == None \notin Pushers

VARIABLES
  refuseStreams,   \* the instance does not stream
  pushing,         \* pusher -> events so far, and channels the current one still goes to
  revSubs,         \* streams whose channel is registered
  buffer,          \* stream -> its channel
  server,          \* stream -> where the server's handler is
  wire,            \* stream -> frames written and not yet read
  up,              \* streams whose connection is intact
  client,          \* stream -> where the call is, or what it returned
  got,             \* stream -> what its callback has been called with
  dropped,         \* stream -> events its full channel refused
  before           \* stream -> pushes of each pusher that began before it heard Synced

vars == <<refuseStreams, pushing, revSubs, buffer, server, wire, up, client, got, dropped, before>>
serverVars == <<refuseStreams, pushing, revSubs, buffer, server>>
clientVars == <<client, got, before>>

Synced == [kind |-> "synced", by |-> None, n |-> 0]
Event(p, k) == [kind |-> "event", by |-> p, n |-> k]
Closing(class) == [kind |-> class, by |-> None, n |-> 0]
Events == {Event(p, k) : p \in Pushers, k \in 1..MaxPushes}

Refusals == {"unauthenticated", "unavailable", "invalid_argument"}
Garbled == {"compressed", "undecodable", "ended"}
Frames == Events \cup {Synced} \cup {Closing(f) : f \in Refusals \cup Garbled}
Returns == {"auth", "unavailable", "invalid", "decoding", "cancelled", "callback", "nil"}

\* Every variable has its type, and no subscriber's channel outgrows its
\* buffer (revSubBuffer, anubistest/revocations.go:39).
TypeOK ==
  /\ refuseStreams \in BOOLEAN
  /\ pushing \in [Pushers -> [n: 0..MaxPushes, todo: SUBSET Streams]]
  /\ revSubs \subseteq Streams
  /\ \A c \in Streams : buffer[c] \in Seq(Events) /\ Len(buffer[c]) <= Buffer
  /\ server \in [Streams -> {"none", "accepted", "subscribed", "streaming", "returned"}]
  /\ \A c \in Streams : wire[c] \in Seq(Frames) /\ got[c] \in Seq(Frames)
  /\ up \subseteq Streams
  /\ client \in [Streams -> {"idle", "reading"} \cup Returns]
  /\ dropped \in [Streams -> SUBSET Events]
  /\ before \in [Streams -> [Pushers -> 0..MaxPushes]]

Init ==
  /\ refuseStreams \in BOOLEAN
  /\ pushing = [p \in Pushers |-> [n |-> 0, todo |-> {}]]
  /\ revSubs = {}
  /\ buffer = [c \in Streams |-> <<>>]
  /\ server = [c \in Streams |-> "none"]
  /\ wire = [c \in Streams |-> <<>>]
  /\ up = {}
  /\ client = [c \in Streams |-> "idle"]
  /\ got = [c \in Streams |-> <<>>]
  /\ dropped = [c \in Streams |-> {}]
  /\ before = [c \in Streams |-> [p \in Pushers |-> 0]]

Write(c, frame) == wire' = [wire EXCEPT ![c] = Append(@, frame)]
ServerAt(c, place) == server' = [server EXCEPT ![c] = place]
Returned(c, what) == client' = [client EXCEPT ![c] = what]

-----------------------------------------------------------------------------
(* The broker. *)

RefuseStreams(refuse) ==
  /\ refuseStreams' = refuse
  /\ UNCHANGED <<pushing, revSubs, buffer, server, wire, up, clientVars, dropped>>

\* The subscribers are copied under the lock.
PushRevocation(p) ==
  /\ pushing[p].todo = {} /\ pushing[p].n < MaxPushes
  /\ pushing' = [pushing EXCEPT ![p] = [n |-> @.n + 1, todo |-> revSubs]]
  /\ UNCHANGED <<refuseStreams, revSubs, buffer, server, wire, up, clientVars, dropped>>

\* Mutant: the broker waits for a slow reader.
PushWaits(p, c) ==
  /\ c \in pushing[p].todo
  /\ Len(buffer[c]) < Buffer
  /\ pushing' = [pushing EXCEPT ![p].todo = @ \ {c}]
  /\ buffer' = [buffer EXCEPT ![c] = Append(@, Event(p, pushing[p].n))]
  /\ UNCHANGED <<refuseStreams, revSubs, server, wire, up, clientVars, dropped>>

\* The sends happen outside it, in map order, and never block.
PushSend(p, c) ==
  LET e == Event(p, pushing[p].n) IN
  /\ c \in pushing[p].todo
  /\ pushing' = [pushing EXCEPT ![p].todo = @ \ {c}]
  /\ IF Len(buffer[c]) < Buffer
     THEN buffer' = [buffer EXCEPT ![c] = Append(@, e)] /\ UNCHANGED dropped
     ELSE dropped' = [dropped EXCEPT ![c] = @ \cup {e}] /\ UNCHANGED buffer
  /\ UNCHANGED <<refuseStreams, revSubs, server, wire, up, clientVars>>

-----------------------------------------------------------------------------
(* The server's handler. *)

\* The refusals a stream raises before its first message go out in the closing
\* frame, in this order; ask says what the request carries.
streamRevocations(c, ask) ==
  /\ server[c] = "none" /\ c \in up
  /\ IF ask.credential /\ ~refuseStreams /\ ask.tenant
     THEN ServerAt(c, "accepted") /\ UNCHANGED wire
     ELSE /\ ServerAt(c, "returned")
          /\ Write(c, Closing(CASE ~ask.credential -> "unauthenticated"
                                [] ask.credential /\ refuseStreams -> "unavailable"
                                [] OTHER -> "invalid_argument"))
  /\ UNCHANGED <<refuseStreams, pushing, revSubs, buffer, up, clientVars, dropped>>

\* Mutant: Synced goes out before the subscription exists.
subscribeLate(c) ==
  /\ \/ /\ server[c] = "accepted" /\ c \in up
        /\ Write(c, Synced) /\ ServerAt(c, "subscribed") /\ UNCHANGED revSubs
     \/ /\ server[c] = "subscribed" /\ c \notin revSubs
        /\ revSubs' = revSubs \cup {c} /\ ServerAt(c, "streaming") /\ UNCHANGED wire
  /\ UNCHANGED <<refuseStreams, pushing, buffer, up, clientVars, dropped>>

subscribeRevocations(c) ==
  /\ server[c] = "accepted"
  /\ revSubs' = revSubs \cup {c}
  /\ ServerAt(c, "subscribed")
  /\ UNCHANGED <<refuseStreams, pushing, buffer, wire, up, clientVars, dropped>>

writeSynced(c) ==
  /\ server[c] = "subscribed" /\ c \in up /\ c \in revSubs
  /\ Write(c, Synced)
  /\ ServerAt(c, "streaming")
  /\ UNCHANGED <<refuseStreams, pushing, revSubs, buffer, up, clientVars, dropped>>

\* Mutant: the newest buffered event goes out first.
forwardNewest(c) ==
  /\ server[c] = "streaming" /\ c \in up /\ buffer[c] # <<>> /\ Len(wire[c]) < Window
  /\ Write(c, buffer[c][Len(buffer[c])])
  /\ buffer' = [buffer EXCEPT ![c] = SubSeq(@, 1, Len(@) - 1)]
  /\ UNCHANGED <<refuseStreams, pushing, revSubs, server, up, clientVars, dropped>>

\* A write blocks while the consumer does not read and the connection is full.
forward(c) ==
  /\ server[c] = "streaming" /\ c \in up /\ buffer[c] # <<>> /\ Len(wire[c]) < Window
  /\ Write(c, Head(buffer[c]))
  /\ buffer' = [buffer EXCEPT ![c] = Tail(@)]
  /\ UNCHANGED <<refuseStreams, pushing, revSubs, server, up, clientVars, dropped>>

\* Mutant: the handler returns without unsubscribing.
leaveSubscribed(c) ==
  /\ server[c] \in {"accepted", "subscribed", "streaming"} /\ c \notin up
  /\ ServerAt(c, "returned")
  /\ UNCHANGED <<refuseStreams, pushing, revSubs, buffer, wire, up, clientVars, dropped>>

\* The consumer is gone: a write fails or the request's context is done, and
\* the deferred unsubscribe runs.  A push that copied the channel before may
\* still put an event into it.
leave(c) ==
  /\ server[c] \in {"accepted", "subscribed", "streaming"} /\ c \notin up
  /\ ServerAt(c, "returned")
  /\ revSubs' = revSubs \ {c}
  /\ UNCHANGED <<refuseStreams, pushing, buffer, wire, up, clientVars, dropped>>

-----------------------------------------------------------------------------
(* The client and its connection. *)

\* The request goes out, never reaches the server, or is refused before it
\* becomes a stream, by a proxy's status or the server's own.
StreamRevocations(c) ==
  /\ client[c] = "idle"
  /\ \/ Returned(c, "reading") /\ up' = up \cup {c}
     \/ UNCHANGED up /\ \E what \in {"unavailable", "auth", "invalid"} : Returned(c, what)
  /\ UNCHANGED <<serverVars, wire, got, dropped, before>>

\* The connection breaks and frames under way are lost.
Break(c) ==
  /\ c \in up
  /\ up' = up \ {c}
  /\ \E k \in 0..Len(wire[c]) : wire' = [wire EXCEPT ![c] = SubSeq(@, 1, k)]
  /\ UNCHANGED <<serverVars, clientVars, dropped>>

\* Something between the two rewrites the next frame, or closes the stream in
\* good order instead, which the fake never does itself.
Garble(c, f) ==
  /\ c \in up /\ wire[c] # <<>>
  /\ wire' = [wire EXCEPT ![c][1] = Closing(f)]
  /\ UNCHANGED <<serverVars, up, clientVars, dropped>>

\* What the call returns for a frame that is not a message: a compressed one is
\* refused, the closing one is classified (endOfStream).
endOfStream(kind) ==
  CASE kind = "unauthenticated" -> "auth"
    [] kind = "invalid_argument" -> "invalid"
    [] kind = "undecodable" -> "decoding"
    [] kind = "ended" -> "nil"
    [] kind \in {"unavailable", "compressed"} -> "unavailable"

\* One frame.  The callback may fail, which ends the call.
readRevocations(c) ==
  LET f == Head(wire[c]) IN
  /\ client[c] = "reading" /\ wire[c] # <<>>
  /\ wire' = [wire EXCEPT ![c] = Tail(@)]
  /\ IF f.kind \in {"synced", "event"}
     THEN /\ got' = [got EXCEPT ![c] = Append(@, f)]
          /\ before' = IF f = Synced THEN [before EXCEPT ![c] = [p \in Pushers |-> pushing[p].n]]
                       ELSE before
          /\ \/ up' = up /\ UNCHANGED client
             \/ up' = up \ {c} /\ Returned(c, "callback")
     ELSE up' = up \ {c} /\ Returned(c, endOfStream(f.kind)) /\ UNCHANGED <<got, before>>
  /\ UNCHANGED <<serverVars, dropped>>

\* The body ends without a closing frame.
readEOF(c) ==
  /\ client[c] = "reading" /\ wire[c] = <<>>
  /\ c \notin up \/ server[c] = "returned"
  /\ Returned(c, "unavailable")
  /\ up' = up \ {c}
  /\ UNCHANGED <<serverVars, wire, got, dropped, before>>

\* The consumer cancels the context.
Cancel(c) ==
  /\ client[c] = "reading"
  /\ Returned(c, "cancelled")
  /\ up' = up \ {c}
  /\ UNCHANGED <<serverVars, wire, got, dropped, before>>

-----------------------------------------------------------------------------
Asks == [credential: BOOLEAN, tenant: BOOLEAN]

HandlerStep(c) ==
  \/ \E ask \in Asks : streamRevocations(c, ask)
  \/ subscribeRevocations(c) \/ writeSynced(c) \/ forward(c) \/ leave(c)

Next ==
  \/ \E refuse \in BOOLEAN : RefuseStreams(refuse)
  \/ \E p \in Pushers : PushRevocation(p)
  \/ \E p \in Pushers, c \in Streams : PushSend(p, c)
  \/ \E c \in Streams : HandlerStep(c)
  \/ \E c \in Streams : StreamRevocations(c) \/ Break(c) \/ readRevocations(c) \/ readEOF(c) \/ Cancel(c)
  \/ \E c \in Streams, f \in Garbled : Garble(c, f)

Spec == Init /\ [][Next]_vars

\* Publishers and handlers run in goroutines of their own.  Nothing is assumed
\* of the consumers: a callback may never return.
FairSpec ==
  /\ Spec
  /\ \A p \in Pushers, c \in Streams : WF_vars(PushSend(p, c))
  /\ \A c \in Streams : WF_vars(HandlerStep(c))

-----------------------------------------------------------------------------
\* anubistest/revocations.go:136-138: once a consumer has been told it is
\* current, no revocation published after that is lost in silence: it has been
\* heard, is under way, was refused by a full channel, or the connection broke.
NoGapAfterSynced ==
  \A c \in up, p \in Pushers : client[c] = "reading" /\ got[c] # <<>> =>
    \A k \in (before[c][p] + 1)..pushing[p].n :
      LET e == Event(p, k) IN
      \/ e \in dropped[c]
      \/ k = pushing[p].n /\ c \in pushing[p].todo
      \/ \E i \in 1..Len(buffer[c]) : buffer[c][i] = e
      \/ \E i \in 1..Len(wire[c]) : wire[c][i] = e \/ wire[c][i].kind \in Garbled
      \/ \E i \in 1..Len(got[c]) : got[c][i] = e

\* Bounded channels and no silent gap, together: the broker drops, never queues
\* without limit, and what it drops is accounted for (anubistest/revocations.go:35-60).
DeliveryIsSound == TypeOK /\ NoGapAfterSynced

\* anubistest/revocations.go:35-38: "a slow reader must never hold up the
\* gate": every PushRevocation returns, whatever its subscribers do.
PushReturns == \A p \in Pushers : pushing[p].todo # {} ~> pushing[p].todo = {}

\* anubistest/revocations.go:84-90, :134: the channel of a consumer that went away
\* is removed, so that subscribers do not pile up over reconnects.
GoneSubscribersLeave == \A c \in Streams :
  (c \in revSubs /\ c \notin up) ~> c \notin revSubs

\* revocations.go:84-109: the call keeps the promise RevocationFeed states.
Feed == INSTANCE RevocationFeed WITH
  published <- [p \in Pushers |-> pushing[p].n],
  heard <- got,
  over <- {c \in Streams : client[c] \in Returns}
KeepsFeedPromise == Feed!FeedSpec
=============================================================================
