---------------------------- MODULE Provisioning ----------------------------
(***************************************************************************)
(* The tables of the admin plane: tenants, realms, applications, api keys, *)
(* auth pages, catalog sources and sync schedules, as operators change     *)
(* them through admin/provision.go and admin/admin.go and the fake server  *)
(* keeps them (anubistest/provision.go, anubistest/adminconfig.go).  Every *)
(* handler is one critical section.  A call that the client or the server  *)
(* refuses changes nothing and is no step.                                 *)
(*                                                                         *)
(* An id is its number: the tables number their rows from one counter,     *)
(* each under a prefix of its own.  Of a row's fields the model keeps the  *)
(* permanent ones and one of each kind of the others: `name' for what an   *)
(* update rewrites, `signIn' for what an empty field of an update leaves.  *)
(***************************************************************************)
EXTENDS Naturals, Sequences, FiniteSetsExt

CONSTANTS
  Slugs,      \* slugs of tenants and applications, in their order
  Codes,      \* realm codes
  Names,      \* display names
  MaxSeq,     \* bound on s.seq
  MaxTime,    \* bound on the clock
  MaxRuns     \* bound on the runs of a catalog source

ASSUME BoundsAssumption == MaxSeq \in Nat /\ MaxTime \in Nat \ {0} /\ MaxRuns \in Nat
ASSUME SlugsAssumption == Slugs \subseteq Nat \ {0} /\ IsFiniteSet(Slugs)

VARIABLES
  seq,              \* s.seq
  tenants,          \* id -> slug, name, status
  realms,           \* code -> id, enrolment deadline set
  applications,     \* slug -> id, kind, name, signIn
  apiKeys,          \* id -> expiresAt, revokedAt
  authPages,        \* id -> kind, binding, isDefault
  catalogSources,   \* id -> application slug, interval, lastStatus
  catalogRuns,      \* id -> statuses of its runs, most recent first
  syncSources,      \* id -> interval, configuration
  shown,            \* the secrets and keys handed out so far, in order
  copy,             \* the page an operator read and has not written back, or none
  now

tables == <<tenants, realms, applications, apiKeys, authPages, catalogSources,
            catalogRuns, syncSources>>
provisionVars == <<seq, tables, shown, copy, now>>

Ids == 1..MaxSeq
IsTable(f, D, R) == DOMAIN f \subseteq D /\ \A i \in DOMAIN f : f[i] \in R
NoRows == <<>>

\* Assigning to a map: the row replaces what the table had under the id, if anything.
WithRow(f, id, row) == [x \in DOMAIN f \cup {id} |-> IF x = id THEN row ELSE f[x]]

Tenant == [slug: Slugs, name: Names, status: {"active", "suspended", "archived"}]
Realm == [id: Ids, deadline: BOOLEAN]
Application == [id: Ids, kind: {"spa", "server"}, name: Names,
                signIn: {"anyone", "role_holders"}]
APIKey == [expiresAt: 0..MaxTime, revokedAt: 0..MaxTime]
AuthPage == [kind: {"signin", "signout"}, binding: {"none", "application", "realm"},
             isDefault: BOOLEAN]
Statuses == {"ok", "failed", "skipped", "dry_run", "running"}
NeverRun == ""
CatalogSource == [app: Slugs, interval: {0, 300}, lastStatus: Statuses \cup {NeverRun}]
SyncSource == [interval: {0, 300}, config: {"dsn"}]
NoCopy == [id |-> 0, page |-> [kind |-> "signin", binding |-> "none", isDefault |-> FALSE]]

ProvisionTypeOK ==
  /\ seq \in 0..MaxSeq
  /\ IsTable(tenants, Ids, Tenant)
  /\ IsTable(realms, Codes, Realm)
  /\ IsTable(applications, Slugs, Application)
  /\ IsTable(apiKeys, Ids, APIKey)
  /\ IsTable(authPages, Ids, AuthPage)
  /\ IsTable(catalogSources, Ids, CatalogSource)
  /\ IsTable(catalogRuns, Ids, UNION {[1..n -> Statuses] : n \in 1..MaxRuns})
  /\ IsTable(syncSources, Ids, SyncSource)
  /\ copy \in [id: 0..MaxSeq, page: AuthPage]
  /\ now \in 1..MaxTime

-----------------------------------------------------------------------------
(* Rows a test registers before its calls, under ids of its own choosing.  *)
(* The counter has still to pass them.                                     *)

AddTenant(id, slug, name) ==
  WithRow(NoRows, id, [slug |-> slug, name |-> name, status |-> "active"])
AddApplication(id, slug, name) ==
  WithRow(NoRows, slug, [id |-> id, kind |-> "server", name |-> name, signIn |-> "anyone"])
AddCatalogSource(id, slug) ==
  WithRow(NoRows, id, [app |-> slug, interval |-> 300, lastStatus |-> NeverRun])
AddAuthPage(id, default) ==
  WithRow(NoRows, id, [kind |-> "signin", binding |-> "none", isDefault |-> default])
AddSyncSource(id) == WithRow(NoRows, id, [interval |-> 0, config |-> "dsn"])

ProvisionInit(ten, app, src, pag, syn) ==
  /\ seq = 0
  /\ tenants = ten
  /\ applications = app
  /\ catalogSources = src
  /\ authPages = pag
  /\ syncSources = syn
  /\ realms = NoRows /\ apiKeys = NoRows /\ catalogRuns = NoRows
  /\ shown = <<>>
  /\ copy = NoCopy
  /\ now = 1

\* Mutant: the counter alone, whatever the table already holds.
plainCounter(ids) == seq + 1

\* The next number of the counter under which the table has no row.
freshID(ids) == Min({n \in (seq + 1)..(seq + 1 + Cardinality(ids)) : n \notin ids})

AppIds == {applications[s].id : s \in DOMAIN applications}

-----------------------------------------------------------------------------
(* Tenants and realms. *)

createTenant(slug, name) ==
  LET id == freshID(DOMAIN tenants)
  IN /\ \A t \in DOMAIN tenants : tenants[t].slug # slug
     /\ id <= MaxSeq
     /\ seq' = id
     /\ tenants' = WithRow(tenants, id, [slug |-> slug, name |-> name, status |-> "active"])
     /\ UNCHANGED <<realms, applications, apiKeys, authPages, catalogSources, catalogRuns,
                    syncSources, shown, copy, now>>

OnlyTenants == UNCHANGED <<seq, realms, applications, apiKeys, authPages, catalogSources,
                           catalogRuns, syncSources, shown, copy, now>>

\* RenameTenant: a slug sent along is ignored.
updateTenant(id, name) ==
  /\ tenants' = [tenants EXCEPT ![id].name = name]
  /\ OnlyTenants

setTenantStatus(id, status) ==
  /\ tenants' = [tenants EXCEPT ![id].status = status]
  /\ OnlyTenants

OnlyRealms == UNCHANGED <<tenants, applications, apiKeys, authPages, catalogSources,
                          catalogRuns, syncSources, shown, copy, now>>

createRealm(code) ==
  /\ code \notin DOMAIN realms
  /\ seq < MaxSeq
  /\ seq' = seq + 1
  /\ realms' = WithRow(realms, code, [id |-> seq + 1, deadline |-> FALSE])
  /\ OnlyRealms

\* UpdateRealm: the client asks for an id and the server looks at the code
\* alone, so that the caller's row is written whole, whether the code is known,
\* and whichever realm has the id.
updateRealm(code, id, deadline) ==
  /\ realms' = WithRow(realms, code, [id |-> id, deadline |-> deadline])
  /\ UNCHANGED seq
  /\ OnlyRealms

-----------------------------------------------------------------------------
(* Applications and api keys: the secrets that are shown once. *)

OnlyApplications == UNCHANGED <<tenants, realms, apiKeys, authPages, catalogSources,
                                catalogRuns, syncSources, copy, now>>

\* The secret takes the counter's next number after the id's.
createApplication(slug, kind, name) ==
  LET id == freshID(AppIds)
      secret == id + 1
  IN /\ slug \notin DOMAIN applications
     /\ applications' = WithRow(applications, slug,
          [id |-> id, kind |-> kind, name |-> name, signIn |-> "anyone"])
     /\ IF kind = "server"
        THEN seq' = secret /\ shown' = Append(shown, <<"secret", secret>>)
        ELSE seq' = id /\ UNCHANGED shown
     /\ seq' <= MaxSeq
     /\ OnlyApplications

\* A rewrite; an empty signIn ("keep") keeps what the application has.
updateApplication(id, name, signIn) ==
  \E slug \in DOMAIN applications :
    /\ applications[slug].id = id
    /\ applications' = [applications EXCEPT
         ![slug].name = name, ![slug].signIn = IF signIn = "keep" THEN @ ELSE signIn]
    /\ UNCHANGED <<seq, shown>>
    /\ OnlyApplications

rotateClientSecret(id) ==
  /\ \E slug \in DOMAIN applications :
       applications[slug].id = id /\ applications[slug].kind = "server"
  /\ seq < MaxSeq
  /\ seq' = seq + 1
  /\ shown' = Append(shown, <<"secret", seq + 1>>)
  /\ UNCHANGED applications
  /\ OnlyApplications

OnlyKeys == UNCHANGED <<tenants, realms, applications, authPages, catalogSources, catalogRuns,
                        syncSources, copy, now>>

\* The client refuses an expiry that is past; 0 is none.
createAPIKey(expiresAt) ==
  LET id == freshID(DOMAIN apiKeys)
  IN /\ expiresAt = 0 \/ expiresAt >= now
     /\ id <= MaxSeq
     /\ seq' = id
     /\ apiKeys' = WithRow(apiKeys, id, [expiresAt |-> expiresAt, revokedAt |-> 0])
     /\ shown' = Append(shown, <<"key", id>>)
     /\ OnlyKeys

revokeAPIKey(id) ==
  /\ apiKeys' = [apiKeys EXCEPT ![id].revokedAt = now]
  /\ UNCHANGED <<seq, shown>>
  /\ OnlyKeys

\* APIKey.IsLive
IsLive(key, at) ==
  /\ key.revokedAt = 0 \/ at < key.revokedAt
  /\ key.expiresAt = 0 \/ at < key.expiresAt

-----------------------------------------------------------------------------
(* Auth pages. *)

OnlyPages == UNCHANGED <<tenants, realms, applications, apiKeys, catalogSources, catalogRuns,
                         syncSources, shown, now>>

\* A new page is nobody's default, and is bound to an application, to a
\* realm or to neither.
createAuthPage(kind, binding) ==
  LET id == freshID(DOMAIN authPages)
  IN /\ id <= MaxSeq
     /\ seq' = id
     /\ authPages' =
          WithRow(authPages, id, [kind |-> kind, binding |-> binding, isDefault |-> FALSE])
     /\ UNCHANGED copy
     /\ OnlyPages

deleteAuthPage(id) ==
  /\ authPages' = [p \in DOMAIN authPages \ {id} |-> authPages[p]]
  /\ UNCHANGED <<seq, copy>>
  /\ OnlyPages

\* The one selected becomes the default of its kind, the others lose it.
setDefaultAuthPage(id) ==
  /\ authPages' = [p \in DOMAIN authPages |->
       IF authPages[p].kind = authPages[id].kind
       THEN [authPages[p] EXCEPT !.isDefault = (p = id)]
       ELSE authPages[p]]
  /\ UNCHANGED <<seq, copy>>
  /\ OnlyPages

\* An operator reads a page to edit it.
getAuthPage(id) ==
  /\ copy = NoCopy
  /\ copy' = [id |-> id, page |-> authPages[id]]
  /\ UNCHANGED <<seq, authPages>>
  /\ OnlyPages

\* Mutant: a page that is gone is written all the same.
updateOrCreatePage(kind, binding) ==
  /\ copy # NoCopy
  /\ copy' = NoCopy
  /\ authPages' =
       WithRow(authPages, copy.id, [copy.page EXCEPT !.kind = kind, !.binding = binding])
  /\ UNCHANGED seq
  /\ OnlyPages

\* UpdateAuthPage writes the whole page back, isDefault as it was read.
updateAuthPage(kind, binding) ==
  /\ copy # NoCopy
  /\ copy' = NoCopy
  /\ authPages' = [p \in DOMAIN authPages |->
       IF p = copy.id THEN [copy.page EXCEPT !.kind = kind, !.binding = binding]
       ELSE authPages[p]]
  /\ UNCHANGED seq
  /\ OnlyPages

-----------------------------------------------------------------------------
(* Catalog sources and schedules. *)

OnlySources == UNCHANGED <<tenants, realms, applications, apiKeys, authPages, syncSources,
                           shown, copy, now>>

createCatalogSource(slug, interval) ==
  LET id == freshID(DOMAIN catalogSources)
  IN /\ id <= MaxSeq
     /\ seq' = id
     /\ catalogSources' =
          WithRow(catalogSources, id, [app |-> slug, interval |-> interval, lastStatus |-> NeverRun])
     /\ UNCHANGED catalogRuns
     /\ OnlySources

\* Everything but the application, which is pinned.
updateCatalogSource(id, interval) ==
  /\ catalogSources' = [catalogSources EXCEPT ![id].interval = interval]
  /\ UNCHANGED <<seq, catalogRuns>>
  /\ OnlySources

deleteCatalogSource(id) ==
  /\ catalogSources' = [c \in DOMAIN catalogSources \ {id} |-> catalogSources[c]]
  /\ catalogRuns' = [c \in DOMAIN catalogRuns \ {id} |-> catalogRuns[c]]
  /\ UNCHANGED seq
  /\ OnlySources

RunsOf(id) == IF id \in DOMAIN catalogRuns THEN catalogRuns[id] ELSE <<>>

\* A dry run is recorded but is not the source's last status.  A run takes a
\* number of the counter.
runCatalogSource(id, dry) ==
  LET status == IF dry THEN "dry_run" ELSE "ok"
  IN /\ seq < MaxSeq /\ Len(RunsOf(id)) < MaxRuns
     /\ seq' = seq + 1
     /\ catalogRuns' = WithRow(catalogRuns, id, <<status>> \o RunsOf(id))
     /\ catalogSources' = IF dry THEN catalogSources
                          ELSE [catalogSources EXCEPT ![id].lastStatus = status]
     /\ OnlySources

\* SetSyncSchedule: when the source runs, and nothing else of it.
setSyncSchedule(id, interval) ==
  /\ syncSources' = [syncSources EXCEPT ![id].interval = interval]
  /\ UNCHANGED <<seq, tenants, realms, applications, apiKeys, authPages, catalogSources,
                 catalogRuns, shown, copy, now>>

Tick ==
  /\ now < MaxTime
  /\ now' = now + 1
  /\ UNCHANGED <<seq, tables, shown, copy>>

TenantsNext ==
  \/ \E slug \in Slugs, name \in Names : createTenant(slug, name)
  \/ \E id \in DOMAIN tenants, name \in Names : updateTenant(id, name)
  \/ \E id \in DOMAIN tenants, status \in {"active", "suspended", "archived"} :
       setTenantStatus(id, status)
  \/ \E code \in Codes : createRealm(code)
  \/ \E code \in Codes, id \in Ids, deadline \in BOOLEAN : updateRealm(code, id, deadline)

ApplicationsNext ==
  \/ \E slug \in Slugs, kind \in {"spa", "server"}, name \in Names :
       createApplication(slug, kind, name)
  \/ \E id \in AppIds, name \in Names, signIn \in {"keep", "anyone", "role_holders"} :
       updateApplication(id, name, signIn)

CredentialsNext ==
  \/ \E id \in AppIds : rotateClientSecret(id)
  \/ \E expiresAt \in 0..MaxTime : createAPIKey(expiresAt)
  \/ \E id \in DOMAIN apiKeys : revokeAPIKey(id)
  \/ Tick

PagesNext ==
  \/ \E kind \in {"signin", "signout"}, binding \in {"none", "application", "realm"} :
       createAuthPage(kind, binding) \/ updateAuthPage(kind, binding)
  \/ \E id \in DOMAIN authPages :
       deleteAuthPage(id) \/ setDefaultAuthPage(id) \/ getAuthPage(id)

SourcesNext ==
  \/ \E slug \in Slugs, interval \in {0, 300} : createCatalogSource(slug, interval)
  \/ \E id \in DOMAIN catalogSources, interval \in {0, 300} : updateCatalogSource(id, interval)
  \/ \E id \in DOMAIN catalogSources : deleteCatalogSource(id)
  \/ \E id \in DOMAIN catalogSources, dry \in BOOLEAN : runCatalogSource(id, dry)
  \/ \E id \in DOMAIN syncSources, interval \in {0, 300} : setSyncSchedule(id, interval)

-----------------------------------------------------------------------------

\* Every secret and every api key is shown in one answer only, whichever of
\* create and rotate hands it out (admin/provision.go:26-28).
SecretsShownOnce == \A i, j \in DOMAIN shown : shown[i] = shown[j] => i = j

\* A slug names one tenant and an id one application, so that an update
\* keyed on either finds one row, whatever ids tests registered ahead of the
\* counter (anubistest/provision.go:612-616).
RowsAreIdentified ==
  /\ \A t, u \in DOMAIN tenants : tenants[t].slug = tenants[u].slug => t = u
  /\ \A s, t \in DOMAIN applications : applications[s].id = applications[t].id => s = t

\* What a row is known by never changes, and no create replaces a row: a
\* tenant's slug, an application's id and kind, the application a catalog
\* source is pinned to (admin/provision.go:114-116, admin/admin.go:673-675).
\* A realm changes by an update of its code only, which takes no number of the
\* counter and may change all of it, the id included
\* (anubistest/provision.go:280-293).  Tenants, realms and applications are
\* never removed.
IdentityKept ==
  /\ \A t \in DOMAIN tenants : t \in DOMAIN tenants' /\ tenants'[t].slug = tenants[t].slug
  /\ \A c \in DOMAIN realms : c \in DOMAIN realms' /\ (seq' # seq => realms'[c] = realms[c])
  /\ \A s \in DOMAIN applications :
       s \in DOMAIN applications'
         /\ applications'[s].id = applications[s].id
         /\ applications'[s].kind = applications[s].kind
  /\ \A c \in DOMAIN catalogSources \cap DOMAIN catalogSources' :
       catalogSources'[c].app = catalogSources[c].app

\* What is over stays over.  A key that authenticates nothing any more stays
\* listed and stays dead, revoked once or twice, expired or not
\* (admin/provision.go:539).  A page or source that was deleted under a number
\* the counter has passed does not come back, not by the write-back of an
\* operator who read it before and not by a create
\* (anubistest/adminconfig.go:455-473, anubistest/provision.go:618-626).  The
\* numbers ahead of the counter are DeletedStaysDeleted's, which fails.
DeadKept ==
  /\ \A k \in DOMAIN apiKeys :
       ~IsLive(apiKeys[k], now) => k \in DOMAIN apiKeys' /\ ~IsLive(apiKeys'[k], now')
  /\ \A id \in 1..seq :
       /\ id \notin DOMAIN authPages => id \notin DOMAIN authPages'
       /\ id \notin DOMAIN catalogSources => id \notin DOMAIN catalogSources'

\* No call undoes what was settled: rows keep what they are known by, and the
\* dead and the deleted stay so (admin/provision.go:114-116, :539,
\* anubistest/adminconfig.go:455-473).
SettledStaysSettled == [][IdentityKept /\ DeadKept]_provisionVars

\* Run history and status of a source agree as the fake server keeps them: only
\* sources that exist have runs, and the last status is that of the most recent
\* run that was not a dry one (anubistest/adminconfig.go:302-303, :342-346).
RunsAgreeWithStatus ==
  /\ DOMAIN catalogRuns \subseteq DOMAIN catalogSources
  /\ \A c \in DOMAIN catalogSources :
       catalogSources[c].lastStatus
         = IF \E i \in DOMAIN RunsOf(c) : RunsOf(c)[i] = "ok" THEN "ok" ELSE NeverRun

\* The last status is how the most recent attempt ended, a dry one included
\* (admin/admin.go:689-692).  The server leaves a dry run out of it
\* (anubistest/adminconfig.go:342-346).
LastStatusIsLastAttempt ==
  \A c \in DOMAIN catalogSources :
    RunsOf(c) # <<>> => catalogSources[c].lastStatus = Head(RunsOf(c))

\* An update of a realm is keyed on its id: two realms never come to have one
\* id (admin/provision.go:227).  The server's key is the code
\* (anubistest/provision.go:292).
RealmsKeyedOnId == \A c, d \in DOMAIN realms : realms[c].id = realms[d].id => c = d

\* A page that was deleted never comes back, whoever chose its id.  A row a test
\* registered under a number ahead of the counter does: once it is deleted, the
\* number is free for the create that reaches it (anubistest/provision.go:618-626).
DeletedStaysDeleted ==
  \A id \in Ids :
    [](id \in DOMAIN authPages =>
         [](id \notin DOMAIN authPages => [](id \notin DOMAIN authPages)))

\* A kind of page has one default (anubistest/provision.go:602).
OneDefaultPerKind ==
  \A p, q \in DOMAIN authPages :
    authPages[p].isDefault /\ authPages[q].isDefault /\ authPages[p].kind = authPages[q].kind
      => p = q
=============================================================================
