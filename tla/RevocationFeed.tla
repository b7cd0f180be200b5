--------------------------- MODULE RevocationFeed ---------------------------
(***************************************************************************)
(* What StreamRevocations promises its consumer (revocations.go:84-109):   *)
(* each call hears RevocationSynced first and once, then revocations that  *)
(* really happened, each at most once and those of one publisher in their  *)
(* order, and nothing after it has returned.  Any event may be missed: the *)
(* stream is a cache invalidation, never the decision itself.              *)
(***************************************************************************)
EXTENDS Naturals, Sequences

CONSTANTS Streams, Pushers, None

VARIABLES
  published,   \* publisher -> how many revocations it has published
  heard,       \* stream -> what its callback was called with, in order
  over         \* streams whose call has returned

feedVars == <<published, heard, over>>

Synced == [kind |-> "synced", by |-> None, n |-> 0]
Event(p, k) == [kind |-> "event", by |-> p, n |-> k]

FeedInit ==
  /\ published = [p \in Pushers |-> 0]
  /\ heard = [c \in Streams |-> <<>>]
  /\ over = {}

Publish(p) ==
  /\ published' = [published EXCEPT ![p] = @ + 1]
  /\ UNCHANGED <<heard, over>>

\* The callback is called, and may end the stream by returning an error.
Hear(c, e) ==
  /\ c \notin over
  /\ heard' = [heard EXCEPT ![c] = Append(@, e)]
  /\ over' \in {over, over \cup {c}}
  /\ UNCHANGED published

HearSynced(c) == heard[c] = <<>> /\ Hear(c, Synced)

HearEvent(c, p, k) ==
  /\ heard[c] # <<>>
  /\ \A i \in 1..Len(heard[c]) : heard[c][i].by = p => heard[c][i].n < k
  /\ Hear(c, Event(p, k))

End(c) ==
  /\ c \notin over
  /\ over' = over \cup {c}
  /\ UNCHANGED <<published, heard>>

FeedNext ==
  \/ \E p \in Pushers : Publish(p)
  \/ \E c \in Streams : HearSynced(c) \/ End(c)
  \/ \E c \in Streams, p \in Pushers : \E k \in 1..published[p] : HearEvent(c, p, k)

FeedSpec == FeedInit /\ [][FeedNext]_feedVars
=============================================================================
