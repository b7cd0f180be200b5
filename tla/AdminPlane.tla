----------------------------- MODULE AdminPlane -----------------------------
(***************************************************************************)
(* The admin plane as operators use it: the tables of Provisioning, the    *)
(* walks of PageWalk over two of them, and the catalog of Manifest.  The   *)
(* parts share the server's lock and its counter and, but for the walk     *)
(* over applications, no other state, so a behaviour here is about one     *)
(* part: `part' is chosen with the initial state, and the rest stays as    *)
(* it is.                                                                  *)
(***************************************************************************)
EXTENDS PageWalk, Manifest

\* The rows tests register ahead of their calls are within the bounds.
ASSUME SeedAssumption == MaxSeq >= 2 /\ {1, 2} \subseteq Slugs

VARIABLE part

vars == <<provisionVars, walkVars, manifestVars, part>>

Parts == {"tenants", "credentials", "pages", "sources", "walk", "catalog"}

\* Every table has its type: the status of a source is one of those a run may end
\* with, or empty (admin/admin.go:689-692), and a report counts only what a
\* document holds.
TypeOK == ProvisionTypeOK /\ WalkTypeOK /\ ManifestTypeOK /\ part \in Parts

Seed(id) ==
  CASE part = "tenants" ->
         ProvisionInit(AddTenant(id, 1, Wanted), NoRows, NoRows, NoRows, NoRows)
    [] part = "pages" ->
         ProvisionInit(NoRows, NoRows, NoRows, AddAuthPage(id, TRUE), NoRows)
    [] part = "sources" ->
         ProvisionInit(NoRows, NoRows, AddCatalogSource(id, 1), NoRows, AddSyncSource(id))
    [] OTHER ->
         ProvisionInit(NoRows, AddApplication(id, 2, Wanted), NoRows, NoRows, NoRows)

NoCatalog == [permissions |-> {}, roles |-> {}, deprecatedPermissions |-> {},
              deprecatedRoles |-> {}, routes |-> 0, version |-> 0]

Init ==
  /\ part \in Parts
  /\ Seed(2)
  /\ IF part = "catalog" THEN ManifestInit
     ELSE catalog = NoCatalog /\ review = Absent /\ applied = NoApply
  /\ IF part = "walk"
     THEN \/ \E query \in BOOLEAN, size \in PageSizes : WalkInit("applications", query, size, TRUE)
          \/ \E honest \in BOOLEAN, size \in PageSizes : WalkInit("nodes", FALSE, size, honest)
     ELSE WalkInit("nodes", FALSE, 1, TRUE)

Configure ==
  /\ \/ part = "tenants" /\ TenantsNext
     \/ part = "credentials" /\ (ApplicationsNext \/ CredentialsNext)
     \/ part = "pages" /\ PagesNext
     \/ part = "sources" /\ SourcesNext
  /\ UNCHANGED <<walkVars, manifestVars, part>>

Walk == part = "walk" /\ WalkNext /\ UNCHANGED <<manifestVars, part>>

Catalog == part = "catalog" /\ ManifestNext /\ UNCHANGED <<provisionVars, walkVars, part>>

Next == Configure \/ Walk \/ Catalog

Spec == Init /\ [][Next]_vars

\* The loop of a walk asks for the next page as soon as it has one; whether
\* anybody else ever makes a call is nobody's promise.
FairSpec == Spec /\ WF_vars(NextPage /\ UNCHANGED <<manifestVars, part>>)

-----------------------------------------------------------------------------

\* The tables are sound whatever operators do in whatever order: rows have their
\* types, no secret is shown and no id given twice, and the run history of a
\* source agrees with its status (anubistest/provision.go:612-626,
\* anubistest/adminconfig.go:302-346).
TablesAreSound == TypeOK /\ SecretsShownOnce /\ RowsAreIdentified /\ RunsAgreeWithStatus
=============================================================================
