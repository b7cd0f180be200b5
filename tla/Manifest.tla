------------------------------ MODULE Manifest ------------------------------
(***************************************************************************)
(* Catalog manifests: the document builder and its local checks            *)
(* (admin/manifest.go) and the apply of the fake server                    *)
(* (anubistest/manifest.go).  One operator builds a document, has it dry   *)
(* run, reads the report and applies it; others apply documents in         *)
(* between, some of them raw ones that no builder has checked.             *)
(*                                                                         *)
(* A permission, a role and a route stand for a row of the document.       *)
(* Malformed stands for any permission row that only the local checks      *)
(* refuse: a missing resource or action, a duplicate, an unknown risk or   *)
(* an assurance out of range.                                              *)
(***************************************************************************)
EXTENDS Naturals, FiniteSets

CONSTANTS
  Permissions,   \* well-formed permission rows, which are resource:action keys too
  Malformed,
  FullKey,       \* a reference written app:resource:action
  Roles,         \* role names
  RefOf,         \* role -> the reference it makes
  Routes,        \* route rows
  Requires,      \* route -> the reference of its require_permission effect, or Absent
  Absent,        \* a section that was never written, a route without permission
  MaxVersion     \* bound on applies

ASSUME VersionAssumption == MaxVersion \in Nat
ASSUME RefsAssumption ==
  /\ RefOf \in [Roles -> Permissions \cup {FullKey}]
  /\ Requires \in [Routes -> Permissions \cup {FullKey, Absent}]
  /\ Absent \notin Permissions \cup {FullKey, Malformed}
  /\ IsFiniteSet(Routes)

VARIABLES
  catalog,   \* manifestApp
  review,    \* the document under review and its dry run's report, or Absent
  applied    \* the last apply: who checked it, whether ClearRoutes was asked, its report

manifestVars == <<catalog, review, applied>>

PermissionRows == Permissions \cup {Malformed}
Documents ==
  [permissions: {Absent} \cup SUBSET PermissionRows,
   roles: {Absent} \cup SUBSET Roles,
   routes: {Absent} \cup SUBSET Routes,
   clearRoutes: BOOLEAN]
Report ==
  [version: 1..(MaxVersion + 1), deprecatedPermissions: SUBSET PermissionRows,
   deprecatedRoles: SUBSET Roles, replaced: {Absent} \cup 0..Cardinality(Routes)]
NoApply == [by |-> "nobody", cleared |-> FALSE, report |-> Absent]

ManifestTypeOK ==
  /\ catalog \in [permissions: SUBSET PermissionRows, roles: SUBSET Roles,
                  deprecatedPermissions: SUBSET PermissionRows, deprecatedRoles: SUBSET Roles,
                  routes: 0..Cardinality(Routes), version: 0..MaxVersion]
  /\ review = Absent \/ review \in [doc: Documents, asked: BOOLEAN, report: Report]
  /\ applied.by \in {"nobody", "builder", "raw", "csv"}
  /\ applied.cleared \in BOOLEAN
  /\ applied.report \in {Absent} \cup Report

\* SeedCatalog: a test starts from any catalog, at version 0 and with
\* nothing deprecated.
ManifestInit ==
  /\ catalog \in [permissions: SUBSET Permissions, roles: SUBSET Roles,
                  deprecatedPermissions: {{}}, deprecatedRoles: {{}},
                  routes: {0, Cardinality(Routes)}, version: {0}]
  /\ review = Absent
  /\ applied = NoApply

-----------------------------------------------------------------------------
(* The builder: each call returns the document with one section declared. *)

Blank == [permissions |-> Absent, roles |-> Absent, routes |-> Absent, clearRoutes |-> FALSE]

WithPermissions(m, rows) == [m EXCEPT !.permissions = rows]
WithRoles(m, rows) == [m EXCEPT !.roles = rows]
WithRoutes(m, rows) == [m EXCEPT !.routes = rows, !.clearRoutes = FALSE]
ClearRoutes(m) == [m EXCEPT !.routes = {}, !.clearRoutes = TRUE]

Sections(m) == {s \in {"permissions", "roles", "routes"} : m[s] # Absent}
Declared(section) == IF section = Absent THEN {} ELSE section

checkPermissionRef(ref) == ref # FullKey

Validate(m) ==
  /\ Sections(m) # {}
  /\ m.routes = {} => m.clearRoutes
  /\ m.permissions # {} /\ m.roles # {}
  /\ Malformed \notin Declared(m.permissions)
  /\ \A r \in Declared(m.roles) : checkPermissionRef(RefOf[r])
  /\ \A rt \in Declared(m.routes) : Requires[rt] # Absent => checkPermissionRef(Requires[rt])

\* A document with the given sections, its routes declared by up to two calls
\* in turn.
RoutesCalls == [op: {"WithRoutes"}, rows: SUBSET Routes] \cup [op: {"ClearRoutes"}, rows: {{}}]
NoCall == [op |-> "none", rows |-> {}]
RoutesCall(m, c) == CASE c.op = "ClearRoutes" -> ClearRoutes(m)
                      [] c.op = "WithRoutes" -> WithRoutes(m, c.rows)
                      [] OTHER -> m
Built(p, r, first, last) ==
  RoutesCall(RoutesCall(WithRoles(WithPermissions(Blank, p), r), first), last)
AskedToClear(last) == last.op = "ClearRoutes"

-----------------------------------------------------------------------------
(* The server's apply, section by section, on copies of the catalog. *)

LivePermissions(m) ==
  IF m.permissions = Absent THEN catalog.permissions ELSE m.permissions
LiveRoles(m) == IF m.roles = Absent THEN catalog.roles ELSE m.roles

permissionsAccepted(m) ==
  m.permissions # Absent => m.permissions # {} \/ catalog.permissions = {}

\* References resolve against the catalog as the permissions section leaves it.
rolesAccepted(m) ==
  m.roles # Absent =>
    /\ m.roles # {} \/ catalog.roles = {}
    /\ \A r \in m.roles : RefOf[r] \in LivePermissions(m)

\* Full replacement, and no rail against an empty table.
routesAccepted(m) ==
  m.routes # Absent =>
    \A rt \in m.routes : Requires[rt] # Absent => Requires[rt] \in LivePermissions(m)

Accepted(m) ==
  Sections(m) # {} /\ permissionsAccepted(m) /\ rolesAccepted(m) /\ routesAccepted(m)

ReportOn(m) ==
  [version |-> catalog.version + 1,
   deprecatedPermissions |-> catalog.permissions \ LivePermissions(m),
   deprecatedRoles |-> catalog.roles \ LiveRoles(m),
   replaced |-> IF m.routes = Absent THEN Absent ELSE Cardinality(m.routes)]

Installed(m) ==
  [permissions |-> LivePermissions(m),
   roles |-> LiveRoles(m),
   deprecatedPermissions |->
     catalog.deprecatedPermissions \cup ReportOn(m).deprecatedPermissions,
   deprecatedRoles |-> catalog.deprecatedRoles \cup ReportOn(m).deprecatedRoles,
   routes |-> IF m.routes = Absent THEN catalog.routes ELSE Cardinality(m.routes),
   version |-> ReportOn(m).version]

\* Mutant: what a document stops naming is deleted, not deprecated.
InstallForgetting(m) ==
  catalog' = [Installed(m) EXCEPT !.deprecatedPermissions = catalog.deprecatedPermissions]

Install(m) == catalog' = Installed(m)

\* Mutant: Retired looks at the permissions only.
RetiredPermissionsOnly(report) == report.deprecatedPermissions # {}

\* Retired of a report: permissions or roles taken out, or a table of no routes.
Retired(report) ==
  \/ report.deprecatedPermissions # {}
  \/ report.deprecatedRoles # {}
  \/ report.replaced = 0

-----------------------------------------------------------------------------

\* DryRunManifest: the real report, and nothing is written.
DryRunManifest(m, asked) ==
  /\ catalog.version < MaxVersion
  /\ review = Absent
  /\ Validate(m) /\ Accepted(m)
  /\ review' = [doc |-> m, asked |-> asked, report |-> ReportOn(m)]
  /\ UNCHANGED <<catalog, applied>>

\* ApplyManifest of the document under review, whatever happened to the
\* catalog since its dry run.  A refusal leaves the catalog as it was.
ApplyManifest ==
  /\ review # Absent
  /\ review' = Absent
  /\ IF Accepted(review.doc)
     THEN /\ catalog.version < MaxVersion
          /\ Install(review.doc)
          /\ applied' = [by |-> "builder", cleared |-> review.asked, report |-> ReportOn(review.doc)]
     ELSE UNCHANGED <<catalog, applied>>

\* ApplyManifestDocument: a file the client does not look into.
ApplyManifestDocument(m) ==
  /\ catalog.version < MaxVersion
  /\ Accepted(m)
  /\ Install(m)
  /\ applied' = [by |-> "raw", cleared |-> FALSE, report |-> ReportOn(m)]
  /\ UNCHANGED review

\* ApplyManifestDocument of a spreadsheet: the fake reports one permission
\* applied and version 1 whatever the sheet holds, and applies nothing.
ApplySpreadsheet ==
  /\ applied' = [by |-> "csv", cleared |-> FALSE,
                 report |-> [version |-> 1, deprecatedPermissions |-> {},
                             deprecatedRoles |-> {}, replaced |-> Absent]]
  /\ UNCHANGED <<catalog, review>>

ManifestNext ==
  \/ \E p \in {Absent} \cup SUBSET PermissionRows, r \in {Absent} \cup SUBSET Roles :
       \/ \E first \in RoutesCalls \cup {NoCall} :
            \E last \in IF first = NoCall THEN {NoCall} ELSE RoutesCalls \cup {NoCall} :
              DryRunManifest(Built(p, r, first, last),
                             AskedToClear(IF last = NoCall THEN first ELSE last))
       \/ \E rt \in {Absent} \cup SUBSET Routes :
            ApplyManifestDocument([permissions |-> p, roles |-> r, routes |-> rt,
                                   clearRoutes |-> FALSE])
  \/ ApplyManifest
  \/ ApplySpreadsheet

-----------------------------------------------------------------------------

\* What was said before the apply is what the apply does when nobody applied in
\* between: a document that installs the very version its dry run announced
\* retires exactly what that report listed (admin/manifest.go:481-483).
\* Somebody else's apply takes that version, and the report then foretells
\* nothing: the client sends no version to compare.
ForetoldByDryRun ==
  review # Absent /\ applied'.by = "builder" /\ catalog' # catalog
    /\ applied'.report.version = review.report.version
    => /\ catalog.permissions \ catalog'.permissions = review.report.deprecatedPermissions
       /\ catalog.roles \ catalog'.roles = review.report.deprecatedRoles

\* A report that is not Retired is safe to act on: the apply it reports on
\* took no permission and no role out of the catalog and left no empty route
\* table where there was one with routes (admin/manifest.go:415-417).
QuietMeansNothingRetired ==
  catalog'.version # catalog.version /\ ~Retired(applied'.report)
    => /\ catalog.permissions \subseteq catalog'.permissions
       /\ catalog.roles \subseteq catalog'.roles
       /\ catalog.routes > 0 => catalog'.routes > 0

\* A report can be relied on, before the apply, as a dry run's, and after it
\* (admin/manifest.go:415-417, :481-483).
ReportsTellTheTruth == [][ForetoldByDryRun /\ QuietMeansNothingRetired]_manifestVars

\* Nothing but routes is ever removed: what was live or deprecated stays one of
\* the two, and a catalog with entries keeps some.  Routes are replaced by those
\* of the document, fewer ones too; but a built document leaves no route at all
\* only if ClearRoutes was the last thing said about its routes
\* (admin/manifest.go:179-197, :253-255).
NothingVanishes ==
  [][/\ catalog.permissions \cup catalog.deprecatedPermissions
          \subseteq catalog'.permissions \cup catalog'.deprecatedPermissions
     /\ catalog.roles \cup catalog.deprecatedRoles
          \subseteq catalog'.roles \cup catalog'.deprecatedRoles
     /\ catalog.permissions # {} => catalog'.permissions # {}
     /\ catalog.roles # {} => catalog'.roles # {}
     /\ catalog.routes > 0 /\ catalog'.routes = 0 /\ applied'.by = "builder"
          => applied'.cleared]_manifestVars
=============================================================================
