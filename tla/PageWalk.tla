------------------------------ MODULE PageWalk ------------------------------
(***************************************************************************)
(* Walking a paged listing: AllApplications and AllScopeNodes of the admin *)
(* client against the two ways the fake server pages, while other          *)
(* operators add and edit rows.  Applications are paged by key, the token  *)
(* being the slug of the last row seen; scope nodes by offset.  A server   *)
(* that is not the fake may hand out any token again and again; its tokens *)
(* here are finitely many.                                                 *)
(***************************************************************************)
EXTENDS Provisioning, SequencesExt

CONSTANTS
  MaxRows,     \* maxApplications, maxScopeNodes
  MaxNodes,    \* bound on scope nodes
  MaxTokens,   \* bound on the tokens of a server that is not the fake
  PageSizes,   \* page sizes, the smaller of the server's and the request's
  Wanted       \* the name a query looks for

ASSUME WalkAssumption ==
  /\ MaxRows \in Nat /\ MaxNodes \in Nat /\ MaxTokens \in Nat
  /\ PageSizes \subseteq Nat \ {0} /\ Wanted \in Names

VARIABLES
  scopeNodes,   \* whether each node matches the query, in the order of adding
  walk,         \* the walk and what it has so far
  throughout    \* the rows that have matched since the walk began

walkVars == <<scopeNodes, walk, throughout>>

Listings == {"applications", "nodes"}
Tokens == 0..(MaxNodes + MaxTokens + Max(Slugs))   \* 0 is the empty token

\* The walk of a behaviour: its listing, whether it has a query, its page
\* size, and whether the fake answers it or a server that repeats tokens.
NoWalk == [at |-> "idle", listing |-> "nodes", query |-> FALSE, size |-> 1, honest |-> TRUE,
           page |-> 0, all |-> <<>>, seen |-> {}]

WalkTypeOK ==
  /\ scopeNodes \in UNION {[1..n -> BOOLEAN] : n \in 0..MaxNodes}
  /\ walk.at \in {"idle", "walking", "done", "too many", "repeated", "failed"}
  /\ walk.listing \in Listings /\ walk.query \in BOOLEAN /\ walk.honest \in BOOLEAN
  /\ walk.size \in PageSizes \cup {1}
  /\ walk.page \in Tokens /\ walk.seen \subseteq Tokens
  /\ walk.all \in Seq(Nat)
  /\ throughout \subseteq Nat

WalkInit(listing, query, size, honest) ==
  /\ scopeNodes = <<>>
  /\ walk = [NoWalk EXCEPT !.listing = listing, !.query = query, !.size = size, !.honest = honest]
  /\ throughout = {}

-----------------------------------------------------------------------------
(* The rows a listing matches, in its order. *)

Sorted(S) ==
  [i \in 1..Cardinality(S) |-> CHOOSE x \in S : Cardinality({y \in S : y < x}) = i - 1]
MatchedApplications(apps, query) ==
  Sorted({s \in DOMAIN apps : query => apps[s].name = Wanted})
MatchedNodes(nodes) == Sorted({n \in DOMAIN nodes : nodes[n]})
Matched(w, apps, nodes) ==
  IF w.listing = "applications" THEN MatchedApplications(apps, w.query) ELSE MatchedNodes(nodes)

\* A page: its rows and the token of the next, which the row it ends with
\* determines, 0 when there is none.
PageFrom(rows, start, size, tokens) ==
  LET end == Min({start + size, Len(rows)})
  IN [rows |-> SubSeq(rows, start + 1, end),
      next |-> IF end < Len(rows) THEN tokens[end] ELSE 0]

\* Mutant: the token is the first row of the next page.
listTokenAhead(page, query, size) ==
  LET slugs == MatchedApplications(applications, query)
  IN PageFrom(slugs, Cardinality({i \in DOMAIN slugs : slugs[i] <= page}), size,
              [end \in DOMAIN slugs |-> slugs[end + 1]])

\* Resume after the slug the token names, or where it would be.
listApplications(page, query, size) ==
  LET slugs == MatchedApplications(applications, query)
  IN PageFrom(slugs, Cardinality({i \in DOMAIN slugs : slugs[i] <= page}), size, slugs)

listScopeNodes(page, size) ==
  LET nodes == MatchedNodes(scopeNodes)
  IN PageFrom(nodes, Min({page, Len(nodes)}), size,
              [end \in DOMAIN nodes |-> end])

-----------------------------------------------------------------------------

\* Rows leave `throughout' as soon as they stop matching.
StillMatched == throughout' = throughout \cap ToSet(Matched(walk, applications', scopeNodes'))

\* The call of AllApplications or AllScopeNodes.
BeginWalk ==
  /\ walk.at = "idle"
  /\ walk' = [walk EXCEPT !.at = "walking"]
  /\ throughout' = ToSet(Matched(walk', applications, scopeNodes))
  /\ UNCHANGED <<provisionVars, scopeNodes>>

\* Mutant: a token that has been seen is followed again.
TurnUnseen(page) ==
  [walk EXCEPT !.all = @ \o page.rows, !.at = IF page.next = 0 THEN "done" ELSE "walking",
               !.page = page.next]

\* What the loop does with a page it has got.
Turn(page) ==
  LET all == walk.all \o page.rows
      verdict == CASE page.next = 0 -> "done"
                   [] page.next # 0 /\ Len(all) > MaxRows -> "too many"
                   [] page.next # 0 /\ Len(all) <= MaxRows /\ page.next \in walk.seen -> "repeated"
                   [] OTHER -> "walking"
  IN [walk EXCEPT !.all = all, !.at = verdict,
                  !.seen = IF verdict = "walking" THEN @ \cup {page.next} ELSE @,
                  !.page = IF verdict = "walking" THEN page.next ELSE @]

NextPage ==
  /\ walk.at = "walking"
  /\ IF walk.honest
     THEN walk' = Turn(IF walk.listing = "applications"
                       THEN listApplications(walk.page, walk.query, walk.size)
                       ELSE listScopeNodes(walk.page, walk.size))
     ELSE \E next \in 0..MaxTokens : walk' = Turn([rows |-> <<>>, next |-> next])
  /\ UNCHANGED <<provisionVars, scopeNodes, throughout>>

\* The call of a page fails, and the walk returns that error and no rows.
PageFails ==
  /\ walk.at = "walking"
  /\ walk' = [walk EXCEPT !.at = "failed"]
  /\ UNCHANGED <<provisionVars, scopeNodes, throughout>>

AddScopeNode(matches) ==
  /\ Len(scopeNodes) < MaxNodes
  /\ scopeNodes' = Append(scopeNodes, matches)
  /\ UNCHANGED <<provisionVars, walk>>
  /\ StillMatched

WalkNext ==
  \/ BeginWalk
  \/ NextPage
  \/ PageFails
  \/ walk.listing = "nodes" /\ \E matches \in BOOLEAN : AddScopeNode(matches)
  \/ /\ walk.listing = "applications"
     /\ \/ \E slug \in Slugs, name \in Names : createApplication(slug, "spa", name)
        \/ \E id \in AppIds, name \in Names : updateApplication(id, name, "keep")
     /\ UNCHANGED <<scopeNodes, walk>>
     /\ StillMatched

-----------------------------------------------------------------------------

\* A walk of the fake is exact, whatever was added or renamed meanwhile: one
\* that succeeds returns every row that matched from its first page to its
\* last, none returns a row twice, and none fails but for size: the
\* repeated-token stop is for servers that do repeat one
\* (admin/admin.go:634-661).
WalkIsExact ==
  walk.honest =>
    /\ walk.at = "done" => throughout \subseteq ToSet(walk.all)
    /\ IsInjective(walk.all)
    /\ walk.at # "repeated"
    /\ walk.at = "too many" => Len(walk.all) > MaxRows

\* Every walk ends, against a server that repeats its tokens too
\* (admin/admin.go:657-661).  A server whose tokens are ever new ends it by the
\* rows of its pages only: the loop has no bound on empty pages
\* (admin/admin.go:643-664), and the finitely many tokens here hide it.
WalkEnds == walk.at = "walking" ~> walk.at \in {"done", "too many", "repeated", "failed"}
=============================================================================
