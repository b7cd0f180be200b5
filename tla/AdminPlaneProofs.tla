-------------------------- MODULE AdminPlaneProofs --------------------------
(***************************************************************************)
(* Proofs about the admin plane: manifests, tables and page walks, each    *)
(* for every catalog, every number of rows and every page size.            *)
(***************************************************************************)
EXTENDS AdminPlane, FiniteSetTheorems, WellFoundedInduction, TLAPS

(***************************************************************************)
(* Manifests.  The document under review has passed the local checks, its  *)
(* empty route table was asked for, and its report is the one the server   *)
(* would still give as long as nobody has installed a version since.       *)
(***************************************************************************)

ReviewInv ==
  review # Absent =>
    /\ Validate(review.doc)
    /\ review.doc.routes = {} => review.asked
    /\ review.report.version <= catalog.version + 1
    /\ review.report.version = catalog.version + 1 => review.report = ReportOn(review.doc)

ManifestInv == ManifestTypeOK /\ ReviewInv

LEMMA RoutesCount ==
  ASSUME NEW S \in SUBSET Routes
  PROVE  /\ Cardinality(S) \in 0..Cardinality(Routes)
         /\ Cardinality(S) = 0 <=> S = {}
  <1>1. IsFiniteSet(Routes)  BY RefsAssumption
  <1>2. IsFiniteSet(S) /\ Cardinality(S) <= Cardinality(Routes)  BY <1>1, FS_Subset
  <1>3. Cardinality(S) \in Nat /\ Cardinality(Routes) \in Nat  BY <1>1, <1>2, FS_CardinalityType
  <1>4. Cardinality(S) = 0 <=> S = {}  BY <1>2, FS_EmptySet
  <1> QED  BY <1>2, <1>3, <1>4

LEMMA ReportOnType ==
  ASSUME ManifestTypeOK, NEW m \in Documents, catalog.version < MaxVersion
  PROVE  /\ ReportOn(m) \in Report
         /\ Installed(m) \in [permissions: SUBSET PermissionRows, roles: SUBSET Roles,
                              deprecatedPermissions: SUBSET PermissionRows,
                              deprecatedRoles: SUBSET Roles,
                              routes: 0..Cardinality(Routes), version: 0..MaxVersion]
  <1>1. /\ catalog.permissions \in SUBSET PermissionRows /\ catalog.roles \in SUBSET Roles
        /\ catalog.deprecatedPermissions \in SUBSET PermissionRows
        /\ catalog.deprecatedRoles \in SUBSET Roles
        /\ catalog.routes \in 0..Cardinality(Routes)
        /\ catalog.version \in 0..MaxVersion
    BY DEF ManifestTypeOK
  <1>2. /\ LivePermissions(m) \in SUBSET PermissionRows
        /\ LiveRoles(m) \in SUBSET Roles
    BY <1>1 DEF Documents, LivePermissions, LiveRoles
  <1>3. m.routes # Absent => Cardinality(m.routes) \in 0..Cardinality(Routes)
    BY RoutesCount DEF Documents
  <1>4. catalog.version + 1 \in 1..(MaxVersion + 1) /\ catalog.version + 1 \in 0..MaxVersion
    BY <1>1, VersionAssumption
  <1>5. ReportOn(m) \in Report
    BY <1>1, <1>2, <1>3, <1>4 DEF ReportOn, Report
  <1>6. /\ ReportOn(m).deprecatedPermissions \in SUBSET PermissionRows
        /\ ReportOn(m).deprecatedRoles \in SUBSET Roles
        /\ ReportOn(m).version = catalog.version + 1
    BY <1>1, <1>2 DEF ReportOn
  <1> QED
    BY <1>1, <1>2, <1>3, <1>4, <1>5, <1>6 DEF Installed

LEMMA DocumentFields ==
  ASSUME NEW m \in Documents
  PROVE  /\ m.permissions \in {Absent} \cup SUBSET PermissionRows
         /\ m.roles \in {Absent} \cup SUBSET Roles
         /\ m.routes \in {Absent} \cup SUBSET Routes
         /\ m.clearRoutes \in BOOLEAN
  BY DEF Documents

LEMMA RoutesCallSound ==
  ASSUME NEW m \in Documents, NEW c \in RoutesCalls \cup {NoCall}
  PROVE  /\ RoutesCall(m, c) \in Documents
         /\ RoutesCall(m, c).clearRoutes
              => c.op = "ClearRoutes" \/ (c = NoCall /\ m.clearRoutes)
  <1>1. CASE c.op = "ClearRoutes"
    <2>1. RoutesCall(m, c) = [m EXCEPT !.routes = {}, !.clearRoutes = TRUE]
      BY <1>1 DEF RoutesCall, ClearRoutes
    <2>2. [m EXCEPT !.routes = {}, !.clearRoutes = TRUE] \in Documents  BY DEF Documents
    <2> QED  BY <1>1, <2>1, <2>2
  <1>2. CASE c.op = "WithRoutes"
    <2>1. c.rows \in SUBSET Routes  BY <1>2 DEF RoutesCalls, NoCall
    <2>2. RoutesCall(m, c) = [m EXCEPT !.routes = c.rows, !.clearRoutes = FALSE]
      BY <1>2 DEF RoutesCall, WithRoutes
    <2>3. [m EXCEPT !.routes = c.rows, !.clearRoutes = FALSE] \in Documents
      BY <2>1 DEF Documents
    <2>4. ~ [m EXCEPT !.routes = c.rows, !.clearRoutes = FALSE].clearRoutes
      BY DEF Documents
    <2> QED  BY <2>2, <2>3, <2>4
  <1>3. CASE c = NoCall
    <2>1. c.op = "none"  BY <1>3 DEF NoCall
    <2>2. RoutesCall(m, c) = m  BY <2>1 DEF RoutesCall
    <2> QED  BY <1>3, <2>2
  <1>4. c \in RoutesCalls => c.op = "ClearRoutes" \/ c.op = "WithRoutes"
    BY DEF RoutesCalls
  <1> QED  BY <1>1, <1>2, <1>3, <1>4

LEMMA BuiltSound ==
  ASSUME NEW p \in {Absent} \cup SUBSET PermissionRows, NEW r \in {Absent} \cup SUBSET Roles,
         NEW first \in RoutesCalls \cup {NoCall},
         NEW last \in IF first = NoCall THEN {NoCall} ELSE RoutesCalls \cup {NoCall}
  PROVE  /\ Built(p, r, first, last) \in Documents
         /\ Built(p, r, first, last).clearRoutes
              => AskedToClear(IF last = NoCall THEN first ELSE last)
  <1> DEFINE base == WithRoles(WithPermissions(Blank, p), r)
             mid == RoutesCall(base, first)
  <1>1. Blank \in Documents /\ ~ Blank.clearRoutes  BY DEF Blank, Documents
  <1>2. /\ WithPermissions(Blank, p) \in Documents
        /\ ~ WithPermissions(Blank, p).clearRoutes
    BY <1>1 DEF WithPermissions, Documents
  <1>3. base \in Documents /\ ~ base.clearRoutes
    BY <1>2 DEF WithRoles, Documents
  <1>4. Built(p, r, first, last) = RoutesCall(mid, last)  BY DEF Built
  <1> HIDE DEF base
  <1>5. mid \in Documents /\ (mid.clearRoutes => first.op = "ClearRoutes")
    BY <1>3, RoutesCallSound
  <1> HIDE DEF mid
  <1>6. /\ RoutesCall(mid, last) \in Documents
        /\ RoutesCall(mid, last).clearRoutes
             => last.op = "ClearRoutes" \/ (last = NoCall /\ mid.clearRoutes)
    BY <1>5, RoutesCallSound
  <1>7. last.op = "ClearRoutes" => last # NoCall  BY DEF NoCall
  <1> QED  BY <1>4, <1>5, <1>6, <1>7 DEF AskedToClear

CatalogType ==
  [permissions: SUBSET PermissionRows, roles: SUBSET Roles,
   deprecatedPermissions: SUBSET PermissionRows, deprecatedRoles: SUBSET Roles,
   routes: 0..Cardinality(Routes), version: 0..MaxVersion]

\* An apply: somebody's document, which the server accepts, is installed.
Applies(m) ==
  /\ catalog.version < MaxVersion
  /\ Accepted(m)
  /\ catalog' = Installed(m)
  /\ applied'.report = ReportOn(m)

LEMMA ManifestSteps ==
  ASSUME ManifestInv, [Next]_vars
  PROVE  \/ UNCHANGED manifestVars
         \/ \E m \in Documents, asked \in BOOLEAN :
              (m.clearRoutes => asked) /\ DryRunManifest(m, asked)
         \/ \E m \in Documents :
              Applies(m) /\ UNCHANGED review
                /\ applied' = [by |-> "raw", cleared |-> FALSE, report |-> ReportOn(m)]
         \/ /\ review # Absent /\ review' = Absent
            /\ \/ UNCHANGED <<catalog, applied>>
               \/ /\ Applies(review.doc)
                  /\ applied' = [by |-> "builder", cleared |-> review.asked,
                                 report |-> ReportOn(review.doc)]
         \/ ApplySpreadsheet
  <1>1. CASE UNCHANGED manifestVars  BY <1>1
  <1>2. CASE ManifestNext
    <2>1. ASSUME NEW p \in {Absent} \cup SUBSET PermissionRows,
                 NEW r \in {Absent} \cup SUBSET Roles,
                 NEW first \in RoutesCalls \cup {NoCall},
                 NEW last \in IF first = NoCall THEN {NoCall} ELSE RoutesCalls \cup {NoCall},
                 DryRunManifest(Built(p, r, first, last),
                                AskedToClear(IF last = NoCall THEN first ELSE last))
          PROVE  \E m \in Documents, asked \in BOOLEAN :
                   (m.clearRoutes => asked) /\ DryRunManifest(m, asked)
      <3>1. AskedToClear(IF last = NoCall THEN first ELSE last) \in BOOLEAN
        BY DEF AskedToClear
      <3> QED  BY <2>1, <3>1, BuiltSound
    <2>2. ASSUME NEW p \in {Absent} \cup SUBSET PermissionRows,
                 NEW r \in {Absent} \cup SUBSET Roles,
                 NEW rt \in {Absent} \cup SUBSET Routes,
                 ApplyManifestDocument([permissions |-> p, roles |-> r, routes |-> rt,
                                        clearRoutes |-> FALSE])
          PROVE  \E m \in Documents :
                   Applies(m) /\ UNCHANGED review
                     /\ applied' = [by |-> "raw", cleared |-> FALSE, report |-> ReportOn(m)]
      <3> DEFINE m == [permissions |-> p, roles |-> r, routes |-> rt, clearRoutes |-> FALSE]
      <3>1. m \in Documents  BY DEF Documents
      <3>2. ApplyManifestDocument(m)  BY <2>2
      <3> HIDE DEF m
      <3>3. applied' = [by |-> "raw", cleared |-> FALSE, report |-> ReportOn(m)]
        BY <3>2 DEF ApplyManifestDocument
      <3>4. applied'.report = ReportOn(m)  BY <3>3
      <3>5. Applies(m) /\ UNCHANGED review
        BY <3>2, <3>4 DEF ApplyManifestDocument, Applies, Install
      <3> QED  BY <3>1, <3>3, <3>5
    <2>3. CASE ApplyManifest
      <3>1. CASE Accepted(review.doc)
        <4>1. applied' = [by |-> "builder", cleared |-> review.asked,
                          report |-> ReportOn(review.doc)]
          BY <2>3, <3>1 DEF ApplyManifest
        <4>2. applied'.report = ReportOn(review.doc)  BY <4>1
        <4>3. Applies(review.doc)  BY <2>3, <3>1, <4>2 DEF ApplyManifest, Applies, Install
        <4>4. review # Absent /\ review' = Absent  BY <2>3 DEF ApplyManifest
        <4> QED  BY <4>1, <4>3, <4>4
      <3>2. CASE ~Accepted(review.doc)
        BY <2>3, <3>2 DEF ApplyManifest
      <3> QED  BY <3>1, <3>2
    <2> QED  BY <1>2, <2>1, <2>2, <2>3 DEF ManifestNext
  <1>3. UNCHANGED manifestVars \/ ManifestNext
    BY DEF Next, Configure, Walk, Catalog, vars
  <1> QED  BY <1>1, <1>2, <1>3

LEMMA ManifestInvHolds == Init => ManifestInv
  <1> SUFFICES ASSUME Init PROVE ManifestInv  OBVIOUS
  <1>1. review = Absent /\ applied = NoApply  BY DEF Init, ManifestInit
  <1>2. Cardinality(Routes) \in Nat  BY RoutesCount, RefsAssumption, FS_CardinalityType
  <1>3. catalog \in CatalogType
    <2>1. CASE part = "catalog"
      BY <1>2, <2>1, VersionAssumption DEF Init, ManifestInit, CatalogType, PermissionRows
    <2>2. CASE part # "catalog"
      BY <1>2, <2>2, VersionAssumption DEF Init, NoCatalog, CatalogType
    <2> QED  BY <2>1, <2>2
  <1>4. /\ applied.by \in {"nobody", "builder", "raw", "csv"} /\ applied.cleared \in BOOLEAN
        /\ applied.report \in {Absent} \cup Report
    BY <1>1 DEF NoApply
  <1> QED  BY <1>1, <1>3, <1>4 DEF ManifestInv, ManifestTypeOK, ReviewInv, CatalogType

LEMMA ManifestInvKept == ManifestInv /\ [Next]_vars => ManifestInv'
  <1> SUFFICES ASSUME ManifestInv, [Next]_vars PROVE ManifestInv'  OBVIOUS
  <1>1. CASE UNCHANGED manifestVars
    BY <1>1 DEF ManifestInv, manifestVars, ManifestTypeOK, ReviewInv, ReportOn,
               LivePermissions, LiveRoles
  <1>2. ASSUME NEW m \in Documents, NEW asked \in BOOLEAN, m.clearRoutes => asked,
               DryRunManifest(m, asked)
        PROVE  ManifestInv'
    <2>1. review' = [doc |-> m, asked |-> asked, report |-> ReportOn(m)]
      BY <1>2 DEF DryRunManifest
    <2>2. /\ Validate(m) /\ catalog.version < MaxVersion
          /\ UNCHANGED <<catalog, applied>>
      BY <1>2 DEF DryRunManifest
    <2>3. ReportOn(m) \in Report  BY <2>2, ReportOnType DEF ManifestInv
    <2>4. review'.doc = m /\ review'.asked = asked /\ review'.report = ReportOn(m)  BY <2>1
    <2>5. ManifestTypeOK'
      BY <2>1, <2>2, <2>3 DEF ManifestInv, ManifestTypeOK
    <2>6. ReportOn(m).version = catalog.version + 1 /\ catalog.version \in Nat
      BY DEF ReportOn, ManifestInv, ManifestTypeOK
    <2>7. ReportOn(m) = ReportOn(m)'
      BY <2>2 DEF ReportOn, LivePermissions, LiveRoles
    <2>8. m.routes = {} => asked  BY <1>2, <2>2 DEF Validate
    <2>9. ReviewInv'
      BY <2>2, <2>4, <2>6, <2>7, <2>8 DEF ReviewInv, ReportOn, LivePermissions, LiveRoles
    <2> QED  BY <2>5, <2>9 DEF ManifestInv
  <1>3. ASSUME NEW m \in Documents, Applies(m), review' \in {review, Absent},
               applied'.by \in {"nobody", "builder", "raw", "csv"}, applied'.cleared \in BOOLEAN
        PROVE  ManifestInv'
    <2>1. ReportOn(m) \in Report /\ Installed(m) \in CatalogType
      BY <1>3, ReportOnType DEF ManifestInv, CatalogType, Applies
    <2>2. ManifestTypeOK'
      BY <1>3, <2>1 DEF ManifestInv, ManifestTypeOK, Applies, CatalogType
    <2>3. catalog'.version = catalog.version + 1 /\ catalog.version \in Nat
      BY <1>3 DEF Applies, Installed, ReportOn, ManifestInv, ManifestTypeOK
    <2>4. review' # Absent => review' = review /\ review.report \in Report  
      BY <1>3 DEF ManifestInv, ManifestTypeOK
    <2>5. review' # Absent => review.report.version \in Nat  BY <2>4 DEF Report
    <2>6. ReviewInv'
      BY <2>3, <2>4, <2>5 DEF ReviewInv, ManifestInv
    <2> QED  BY <2>2, <2>6 DEF ManifestInv
  <1>4. CASE review # Absent /\ review' = Absent /\ UNCHANGED <<catalog, applied>>
    BY <1>4 DEF ManifestInv, ManifestTypeOK, ReviewInv
  <1>5. ASSUME review # Absent, review' = Absent, Applies(review.doc),
               applied' = [by |-> "builder", cleared |-> review.asked,
                           report |-> ReportOn(review.doc)]
        PROVE  ManifestInv'
    <2>1. review.doc \in Documents /\ review.asked \in BOOLEAN
      BY <1>5 DEF ManifestInv, ManifestTypeOK
    <2>2. applied'.by = "builder" /\ applied'.cleared = review.asked  BY <1>5
    <2> QED  BY <1>3, <1>5, <2>1, <2>2
  <1>6. ASSUME NEW m \in Documents, Applies(m), UNCHANGED review,
               applied' = [by |-> "raw", cleared |-> FALSE, report |-> ReportOn(m)]
        PROVE  ManifestInv'
    <2>1. applied'.by = "raw" /\ applied'.cleared = FALSE  BY <1>6
    <2> QED  BY <1>3, <1>6, <2>1
  <1>7. CASE ApplySpreadsheet
    <2> DEFINE report == [version |-> 1, deprecatedPermissions |-> {},
                          deprecatedRoles |-> {}, replaced |-> Absent]
    <2>1. applied' = [by |-> "csv", cleared |-> FALSE, report |-> report]
          /\ UNCHANGED <<catalog, review>>
      BY <1>7 DEF ApplySpreadsheet
    <2>2. 1 \in 1..(MaxVersion + 1)  BY VersionAssumption
    <2>3. report \in Report  BY <2>2 DEF Report
    <2> HIDE DEF report
    <2>4. applied'.by = "csv" /\ applied'.cleared = FALSE /\ applied'.report = report  BY <2>1
    <2>5. ManifestTypeOK'  BY <2>1, <2>3, <2>4 DEF ManifestInv, ManifestTypeOK
    <2>6. ReviewInv'
      BY <2>1 DEF ManifestInv, ReviewInv, ReportOn, LivePermissions, LiveRoles
    <2> QED  BY <2>5, <2>6 DEF ManifestInv
  <1> QED  BY <1>1, <1>2, <1>4, <1>5, <1>6, <1>7, ManifestSteps

LEMMA ManifestInvariant == Spec => []ManifestInv
  BY ManifestInvHolds, ManifestInvKept, PTL DEF Spec

\* What an apply does to the catalog, whoever asked for it.
LEMMA AppliesFacts ==
  ASSUME ManifestInv, NEW m \in Documents, Applies(m)
  PROVE  /\ catalog'.permissions = LivePermissions(m) /\ catalog'.roles = LiveRoles(m)
         /\ catalog'.deprecatedPermissions
              = catalog.deprecatedPermissions \cup (catalog.permissions \ LivePermissions(m))
         /\ catalog'.deprecatedRoles
              = catalog.deprecatedRoles \cup (catalog.roles \ LiveRoles(m))
         /\ catalog'.routes = IF m.routes = Absent THEN catalog.routes ELSE Cardinality(m.routes)
         /\ catalog'.version = catalog.version + 1
         /\ m.routes # Absent => (Cardinality(m.routes) = 0 <=> m.routes = {})
         /\ m.routes # Absent => Cardinality(m.routes) \in Nat
  <1>1. m.routes # Absent => m.routes \in SUBSET Routes  BY DocumentFields
  <1>2. m.routes # Absent =>
          /\ Cardinality(m.routes) \in 0..Cardinality(Routes)
          /\ Cardinality(m.routes) = 0 <=> m.routes = {}
    BY <1>1, RoutesCount
  <1>3. catalog' = Installed(m)  BY DEF Applies
  <1>4. /\ ReportOn(m).deprecatedPermissions = catalog.permissions \ LivePermissions(m)
        /\ ReportOn(m).deprecatedRoles = catalog.roles \ LiveRoles(m)
        /\ ReportOn(m).version = catalog.version + 1
    BY DEF ReportOn
  <1> QED  BY <1>2, <1>3, <1>4 DEF Installed

\* Whatever operators apply, built or raw, nothing but routes leaves the
\* catalog, and a built document empties a route table only when ClearRoutes
\* was the last thing said about its routes (admin/manifest.go:193-197,
\* :253-255, anubistest/manifest.go:175-248).
THEOREM NothingEverVanishes == Spec => NothingVanishes
  <1> DEFINE A == /\ catalog.permissions \cup catalog.deprecatedPermissions
                       \subseteq catalog'.permissions \cup catalog'.deprecatedPermissions
                  /\ catalog.roles \cup catalog.deprecatedRoles
                       \subseteq catalog'.roles \cup catalog'.deprecatedRoles
                  /\ catalog.permissions # {} => catalog'.permissions # {}
                  /\ catalog.roles # {} => catalog'.roles # {}
                  /\ catalog.routes > 0 /\ catalog'.routes = 0 /\ applied'.by = "builder"
                       => applied'.cleared
  <1>1. ASSUME ManifestInv, [Next]_vars  PROVE  A \/ UNCHANGED manifestVars
    <2>1. ASSUME NEW m \in Documents, Applies(m),
                 m.routes = {} /\ applied'.by = "builder" => applied'.cleared
          PROVE  A
      <3>1. Accepted(m)  BY <2>1 DEF Applies
      <3>2. catalog.permissions # {} => LivePermissions(m) # {}
        BY <3>1 DEF Accepted, permissionsAccepted, LivePermissions
      <3>3. catalog.roles # {} => LiveRoles(m) # {}
        BY <3>1 DEF Accepted, rolesAccepted, LiveRoles
      <3>4. catalog.routes > 0 /\ catalog'.routes = 0 => m.routes = {}
        BY <1>1, <2>1, AppliesFacts DEF ManifestInv, ManifestTypeOK
      <3> QED  BY <1>1, <2>1, <3>2, <3>3, <3>4, AppliesFacts
    <2>2. CASE UNCHANGED manifestVars  BY <2>2
    <2>3. ASSUME NEW m, NEW asked, DryRunManifest(m, asked)  PROVE A
      BY <1>1, <2>3 DEF DryRunManifest, ManifestInv, ManifestTypeOK
    <2>4. ASSUME NEW m \in Documents, Applies(m),
                 applied' = [by |-> "raw", cleared |-> FALSE, report |-> ReportOn(m)]
          PROVE  A
      <3>1. applied'.by # "builder"  BY <2>4
      <3> QED  BY <2>1, <2>4, <3>1
    <2>5. ASSUME review # Absent, Applies(review.doc),
                 applied' = [by |-> "builder", cleared |-> review.asked,
                             report |-> ReportOn(review.doc)]
          PROVE  A
      <3>1. review.doc \in Documents  BY <1>1, <2>5 DEF ManifestInv, ManifestTypeOK
      <3>2. review.doc.routes = {} => review.asked  BY <1>1, <2>5 DEF ManifestInv, ReviewInv
      <3>3. applied'.cleared = review.asked  BY <2>5
      <3> QED  BY <2>1, <2>5, <3>1, <3>2, <3>3
    <2>6. CASE UNCHANGED <<catalog, applied>>
      BY <1>1, <2>6 DEF ManifestInv, ManifestTypeOK
    <2>7. CASE ApplySpreadsheet
      <3>1. UNCHANGED catalog  BY <2>7 DEF ApplySpreadsheet
      <3> QED  BY <1>1, <3>1 DEF ManifestInv, ManifestTypeOK
    <2> QED  BY <1>1, <2>2, <2>3, <2>4, <2>5, <2>6, <2>7, ManifestSteps
  <1>2. ManifestInv /\ [Next]_vars => [A]_manifestVars  BY <1>1
  <1>3. ManifestInv /\ [Next]_vars
          => [/\ catalog.permissions \cup catalog.deprecatedPermissions
                   \subseteq catalog'.permissions \cup catalog'.deprecatedPermissions
              /\ catalog.roles \cup catalog.deprecatedRoles
                   \subseteq catalog'.roles \cup catalog'.deprecatedRoles
              /\ catalog.permissions # {} => catalog'.permissions # {}
              /\ catalog.roles # {} => catalog'.roles # {}
              /\ catalog.routes > 0 /\ catalog'.routes = 0 /\ applied'.by = "builder"
                   => applied'.cleared]_manifestVars
    BY <1>2
  <1> QED  BY <1>3, ManifestInvariant, PTL DEF Spec, NothingVanishes

\* A manifest's report can be relied on: a dry run's, when its version is the
\* one installed, names exactly what goes, and one that is not Retired means
\* that nothing goes, whatever was applied before
\* (admin/manifest.go:415-426, :481-486).
THEOREM ReportsAlwaysTellTheTruth == Spec => ReportsTellTheTruth
  <1>1. ASSUME ManifestInv, [Next]_vars
        PROVE  (ForetoldByDryRun /\ QuietMeansNothingRetired) \/ UNCHANGED manifestVars
    <2>1. ASSUME NEW m \in Documents, Applies(m)
          PROVE  QuietMeansNothingRetired
      <3>1. applied'.report = ReportOn(m)  BY <2>1 DEF Applies
      <3>2. /\ applied'.report.deprecatedPermissions = catalog.permissions \ LivePermissions(m)
            /\ applied'.report.deprecatedRoles = catalog.roles \ LiveRoles(m)
            /\ applied'.report.replaced
                 = IF m.routes = Absent THEN Absent ELSE Cardinality(m.routes)
        BY <3>1 DEF ReportOn
      <3>3. SUFFICES ASSUME ~Retired(applied'.report)
                     PROVE  /\ catalog.permissions \subseteq catalog'.permissions
                            /\ catalog.roles \subseteq catalog'.roles
                            /\ catalog.routes > 0 => catalog'.routes > 0
        BY DEF QuietMeansNothingRetired
      <3>4. /\ catalog.permissions \ LivePermissions(m) = {}
            /\ catalog.roles \ LiveRoles(m) = {}
            /\ m.routes # Absent => Cardinality(m.routes) # 0
        BY <3>2, <3>3 DEF Retired
      <3>5. catalog.routes > 0 => catalog'.routes > 0
        BY <1>1, <2>1, <3>4, AppliesFacts DEF ManifestInv, ManifestTypeOK
      <3> QED  BY <1>1, <2>1, <3>4, <3>5, AppliesFacts
    <2>2. CASE UNCHANGED manifestVars  BY <2>2
    <2>3. CASE UNCHANGED <<catalog, applied>>
      BY <1>1, <2>3 DEF ForetoldByDryRun, QuietMeansNothingRetired
    <2>4. ASSUME NEW m, NEW asked, DryRunManifest(m, asked)
          PROVE  UNCHANGED <<catalog, applied>>
      BY <2>4 DEF DryRunManifest
    <2>5. ASSUME NEW m \in Documents, Applies(m),
                 applied' = [by |-> "raw", cleared |-> FALSE, report |-> ReportOn(m)]
          PROVE  ForetoldByDryRun /\ QuietMeansNothingRetired
      <3>1. applied'.by # "builder"  BY <2>5
      <3> QED  BY <2>1, <2>5, <3>1 DEF ForetoldByDryRun
    <2>6. ASSUME review # Absent, Applies(review.doc),
                 applied' = [by |-> "builder", cleared |-> review.asked,
                             report |-> ReportOn(review.doc)]
          PROVE  ForetoldByDryRun /\ QuietMeansNothingRetired
      <3>1. review.doc \in Documents  BY <1>1, <2>6 DEF ManifestInv, ManifestTypeOK
      <3>2. applied'.report.version = catalog.version + 1  BY <2>6 DEF ReportOn
      <3>3. ASSUME applied'.report.version = review.report.version
            PROVE  review.report = ReportOn(review.doc)
        BY <1>1, <2>6, <3>2, <3>3 DEF ManifestInv, ReviewInv
      <3>4. ASSUME applied'.report.version = review.report.version
            PROVE  /\ catalog.permissions \ catalog'.permissions
                        = review.report.deprecatedPermissions
                   /\ catalog.roles \ catalog'.roles = review.report.deprecatedRoles
        <4>1. /\ review.report.deprecatedPermissions
                   = catalog.permissions \ LivePermissions(review.doc)
              /\ review.report.deprecatedRoles = catalog.roles \ LiveRoles(review.doc)
          BY <3>3, <3>4 DEF ReportOn
        <4> QED  BY <1>1, <2>6, <3>1, <4>1, AppliesFacts
      <3>5. QuietMeansNothingRetired  BY <2>1, <2>6, <3>1
      <3> QED  BY <3>4, <3>5 DEF ForetoldByDryRun
    <2>7. CASE ApplySpreadsheet
      <3>1. UNCHANGED catalog  BY <2>7 DEF ApplySpreadsheet
      <3> QED  BY <3>1 DEF ForetoldByDryRun, QuietMeansNothingRetired
    <2> QED  BY <1>1, <2>2, <2>3, <2>4, <2>5, <2>6, <2>7, ManifestSteps
  <1>2. ManifestInv /\ [Next]_vars
          => [ForetoldByDryRun /\ QuietMeansNothingRetired]_manifestVars
    BY <1>1
  <1> QED  BY <1>2, ManifestInvariant, PTL DEF Spec, ReportsTellTheTruth

-----------------------------------------------------------------------------
(***************************************************************************)
(* Tables.  Two facts carry the proofs: the counter's next free number is  *)
(* above the counter and not in the table, and what a create or an edit    *)
(* does to a table is to one row of it.                                    *)
(***************************************************************************)

LEMMA LeastNatural ==
  ASSUME NEW S \in SUBSET Nat, S # {}
  PROVE  \E x \in S : \A y \in S : x <= y
  <1>1. PICK x \in S : \A y \in S : ~ (<<y, x>> \in OpToRel(<, Nat))
    BY NatLessThanWellFounded, WFMin
  <1>2. \A y \in S : ~(y < x)  BY <1>1 DEF OpToRel
  <1> QED  BY <1>2

LEMMA MinIsLeast ==
  ASSUME NEW S \in SUBSET Nat, S # {}
  PROVE  Min(S) \in S /\ \A y \in S : Min(S) <= y
  BY LeastNatural DEF Min

\* freshID always finds a number, above the counter and free in the table.
LEMMA FreshNumber ==
  ASSUME NEW ids, ids \subseteq Ids, seq \in Nat
  PROVE  freshID(ids) \in Nat /\ freshID(ids) > seq /\ freshID(ids) \notin ids
  <1> DEFINE c == Cardinality(ids)
             free == {n \in (seq + 1)..(seq + 1 + c) : n \notin ids}
  <1>1. IsFiniteSet(ids) /\ c \in Nat
    <2>1. MaxSeq \in Nat  BY BoundsAssumption
    <2>2. IsFiniteSet(1..MaxSeq)  BY <2>1, FS_Interval
    <2> QED  BY <2>2, FS_Subset, FS_CardinalityType DEF Ids
  <1>2. free # {}
    <2> SUFFICES ASSUME free = {} PROVE FALSE  OBVIOUS
    <2>1. (seq + 1)..(seq + 1 + c) \subseteq ids  OBVIOUS
    <2>2. seq + 1 \in Int /\ seq + 1 + c \in Int /\ seq + 1 <= seq + 1 + c  BY <1>1
    <2>3. Cardinality((seq + 1)..(seq + 1 + c)) = (seq + 1 + c) - (seq + 1) + 1
      BY <2>2, FS_Interval
    <2>4. Cardinality((seq + 1)..(seq + 1 + c)) <= c  BY <1>1, <2>1, FS_Subset
    <2> QED  BY <1>1, <2>3, <2>4
  <1>3. free \in SUBSET Nat  BY <1>1
  <1>4. Min(free) \in free  BY <1>2, <1>3, MinIsLeast
  <1>5. freshID(ids) = Min(free)  BY DEF freshID
  <1> QED  BY <1>1, <1>4, <1>5

LEMMA TableGrows ==
  ASSUME NEW D, NEW R, NEW f, IsTable(f, D, R), NEW id \in D, NEW row \in R
  PROVE  IsTable(WithRow(f, id, row), D, R)
  <1> DEFINE g == WithRow(f, id, row)
  <1>1. /\ DOMAIN g = {id} \cup DOMAIN f /\ g[id] = row
        /\ \A x \in DOMAIN f : x # id => g[x] = f[x]
    BY DEF WithRow
  <1> HIDE DEF g
  <1>2. \A x \in DOMAIN g : x = id \/ x \in DOMAIN f  BY <1>1
  <1>3. \A x \in DOMAIN g : g[x] \in R  BY <1>1, <1>2 DEF IsTable
  <1>4. IsTable(g, D, R)  BY <1>1, <1>3 DEF IsTable
  <1> QED  BY <1>4 DEF g

TenantsInv ==
  /\ IsTable(tenants, Ids, Tenant)
  /\ \A t, u \in DOMAIN tenants : tenants[t].slug = tenants[u].slug => t = u
ApplicationsInv ==
  /\ IsTable(applications, Slugs, Application)
  /\ \A s, t \in DOMAIN applications : applications[s].id = applications[t].id => s = t
SourcesInv ==
  /\ IsTable(catalogSources, Ids, CatalogSource)
  /\ IsTable(catalogRuns, Ids, UNION {[1..n -> Statuses] : n \in 1..MaxRuns})
  /\ RunsAgreeWithStatus
ShownInv ==
  /\ shown \in Seq({"secret", "key"} \X Nat)
  /\ \A i \in DOMAIN shown : shown[i][2] <= seq
  /\ SecretsShownOnce
ProvisionInv ==
  /\ seq \in 0..MaxSeq /\ now \in 1..MaxTime
  /\ TenantsInv
  /\ IsTable(realms, Codes, Realm)
  /\ ApplicationsInv
  /\ IsTable(apiKeys, Ids, APIKey)
  /\ IsTable(authPages, Ids, AuthPage)
  /\ SourcesInv
  /\ IsTable(syncSources, Ids, SyncSource)
  /\ copy \in [id: 0..MaxSeq, page: AuthPage]
  /\ ShownInv

(* What one step may do to each table, the parts of SettledStaysSettled. *)

TenantsSettled ==
  \A t \in DOMAIN tenants : t \in DOMAIN tenants' /\ tenants'[t].slug = tenants[t].slug
RealmsSettled ==
  \A c \in DOMAIN realms : c \in DOMAIN realms' /\ (seq' # seq => realms'[c] = realms[c])
ApplicationsSettled ==
  \A s \in DOMAIN applications :
    s \in DOMAIN applications'
      /\ applications'[s].id = applications[s].id
      /\ applications'[s].kind = applications[s].kind
KeysSettled ==
  \A k \in DOMAIN apiKeys :
    ~IsLive(apiKeys[k], now) => k \in DOMAIN apiKeys' /\ ~IsLive(apiKeys'[k], now')
PagesSettled == \A id \in 1..seq : id \notin DOMAIN authPages => id \notin DOMAIN authPages'
SourcesSettled ==
  /\ \A c \in DOMAIN catalogSources \cap DOMAIN catalogSources' :
       catalogSources'[c].app = catalogSources[c].app
  /\ \A id \in 1..seq : id \notin DOMAIN catalogSources => id \notin DOMAIN catalogSources'
Settled == IdentityKept /\ DeadKept

LEMMA SettledParts ==
  ASSUME TenantsSettled, RealmsSettled, ApplicationsSettled, KeysSettled, PagesSettled,
         SourcesSettled
  PROVE  Settled
  BY DEF TenantsSettled, RealmsSettled, ApplicationsSettled, KeysSettled, PagesSettled,
         SourcesSettled, Settled, IdentityKept, DeadKept

LEMMA UntouchedSettled ==
  /\ UNCHANGED tenants => TenantsSettled
  /\ UNCHANGED realms => RealmsSettled
  /\ UNCHANGED applications => ApplicationsSettled
  /\ UNCHANGED <<apiKeys, now>> => KeysSettled
  /\ UNCHANGED authPages => PagesSettled
  /\ UNCHANGED catalogSources => SourcesSettled
  BY DEF TenantsSettled, RealmsSettled, ApplicationsSettled, KeysSettled, PagesSettled,
         SourcesSettled

LEMMA UntouchedKept ==
  /\ TenantsInv /\ UNCHANGED tenants => TenantsInv'
  /\ ApplicationsInv /\ UNCHANGED applications => ApplicationsInv'
  /\ SourcesInv /\ UNCHANGED <<catalogSources, catalogRuns>> => SourcesInv'
  <1>1. TenantsInv /\ UNCHANGED tenants => TenantsInv'  BY DEF TenantsInv, IsTable
  <1>2. ApplicationsInv /\ UNCHANGED applications => ApplicationsInv'
    BY DEF ApplicationsInv, IsTable
  <1>3. SourcesInv /\ UNCHANGED <<catalogSources, catalogRuns>> => SourcesInv'
    BY DEF SourcesInv, IsTable, RunsAgreeWithStatus, RunsOf
  <1> QED  BY <1>1, <1>2, <1>3

LEMMA ShownKept ==
  ASSUME ShownInv, UNCHANGED shown, seq \in Nat, seq' \in Nat, seq <= seq'
  PROVE  ShownInv'
  <1>1. \A i \in DOMAIN shown : shown[i][2] \in Nat  BY DEF ShownInv
  <1> QED  BY <1>1 DEF ShownInv, SecretsShownOnce

\* A secret or key with a number above the counter has not been shown.
LEMMA ShownGrows ==
  ASSUME ShownInv, seq \in Nat, NEW kind \in {"secret", "key"}, NEW n \in Nat, n > seq,
         seq' = n, shown' = Append(shown, <<kind, n>>)
  PROVE  ShownInv'
  <1>1. shown \in Seq({"secret", "key"} \X Nat)  BY DEF ShownInv
  <1>2. <<kind, n>> \in {"secret", "key"} \X Nat  OBVIOUS
  <1>3. /\ shown' \in Seq({"secret", "key"} \X Nat)
        /\ DOMAIN shown' = 1..(Len(shown) + 1)
        /\ DOMAIN shown = 1..Len(shown) /\ Len(shown) \in Nat
        /\ shown'[Len(shown) + 1] = <<kind, n>>
        /\ \A i \in 1..Len(shown) : shown'[i] = shown[i]
    BY <1>1, <1>2
  <1>4. \A i \in DOMAIN shown : shown[i][2] \in Nat /\ shown[i][2] < n
    BY <1>1 DEF ShownInv
  <1>5. <<kind, n>>[2] = n  OBVIOUS
  <1>6. \A i \in DOMAIN shown' : shown'[i][2] <= seq'
    BY <1>3, <1>4, <1>5
  <1>7. ASSUME NEW i \in DOMAIN shown', NEW j \in DOMAIN shown', shown'[i] = shown'[j]
        PROVE  i = j
    <2>1. CASE i \in DOMAIN shown /\ j \in DOMAIN shown
      BY <1>3, <1>7, <2>1 DEF ShownInv, SecretsShownOnce
    <2>2. CASE i \in DOMAIN shown /\ j = Len(shown) + 1
      BY <1>3, <1>4, <1>5, <1>7, <2>2
    <2>3. CASE i = Len(shown) + 1 /\ j \in DOMAIN shown
      BY <1>3, <1>4, <1>5, <1>7, <2>3
    <2> QED  BY <1>3, <2>1, <2>2, <2>3
  <1>8. SecretsShownOnce'  BY <1>7 DEF SecretsShownOnce
  <1> QED  BY <1>3, <1>6, <1>8 DEF ShownInv

LEMMA CreateTenantStep ==
  ASSUME ProvisionInv, NEW slug \in Slugs, NEW name \in Names, createTenant(slug, name)
  PROVE  ProvisionInv' /\ Settled
  <1> DEFINE id == freshID(DOMAIN tenants)
             row == [slug |-> slug, name |-> name, status |-> "active"]
  <1>1. DOMAIN tenants \subseteq Ids /\ seq \in Nat
    BY BoundsAssumption DEF ProvisionInv, TenantsInv, IsTable
  <1>2. id \in Nat /\ id > seq /\ id \notin DOMAIN tenants  BY <1>1, FreshNumber
  <1>3. id <= MaxSeq /\ seq' = id /\ tenants' = WithRow(tenants, id, row)
    BY DEF createTenant
  <1>4. \A t \in DOMAIN tenants : tenants[t].slug # slug  BY DEF createTenant
  <1> HIDE DEF id
  <1>5. id \in Ids /\ seq' \in 0..MaxSeq /\ seq' \in Nat /\ seq <= seq'
    BY <1>1, <1>2, <1>3, BoundsAssumption DEF Ids
  <1>6. row \in Tenant /\ row.slug = slug  BY DEF Tenant
  <1> HIDE DEF row
  <1>7. /\ DOMAIN tenants' = {id} \cup DOMAIN tenants /\ tenants'[id] = row
        /\ \A t \in DOMAIN tenants : tenants'[t] = tenants[t]
    BY <1>2, <1>3 DEF WithRow
  <1>8. IsTable(tenants', Ids, Tenant)
    BY <1>3, <1>5, <1>6, TableGrows DEF ProvisionInv, TenantsInv
  <1>9. ASSUME NEW t \in DOMAIN tenants', NEW u \in DOMAIN tenants',
               tenants'[t].slug = tenants'[u].slug
        PROVE  t = u
    <2>1. CASE t \in DOMAIN tenants /\ u \in DOMAIN tenants
      BY <1>7, <1>9, <2>1 DEF ProvisionInv, TenantsInv
    <2>2. CASE t = id /\ u \in DOMAIN tenants  BY <1>4, <1>6, <1>7, <1>9, <2>2
    <2>3. CASE u = id /\ t \in DOMAIN tenants  BY <1>4, <1>6, <1>7, <1>9, <2>3
    <2> QED  BY <1>7, <2>1, <2>2, <2>3
  <1>10. TenantsInv'  BY <1>8, <1>9 DEF TenantsInv
  <1>11. TenantsSettled  BY <1>7 DEF TenantsSettled
  <1>12. UNCHANGED <<realms, applications, apiKeys, authPages, catalogSources, catalogRuns,
                     syncSources, shown, copy, now>>
    BY DEF createTenant
  <1>13. Settled  BY <1>11, <1>12, UntouchedSettled, SettledParts
  <1>14. ShownInv'  BY <1>1, <1>5, <1>12, ShownKept DEF ProvisionInv
  <1>15. ApplicationsInv' /\ SourcesInv'  BY <1>12, UntouchedKept DEF ProvisionInv
  <1> QED  BY <1>5, <1>10, <1>12, <1>13, <1>14, <1>15 DEF ProvisionInv

LEMMA EditTenantStep ==
  ASSUME ProvisionInv, NEW id \in DOMAIN tenants, OnlyTenants,
         \/ \E name \in Names : tenants' = [tenants EXCEPT ![id].name = name]
         \/ \E status \in {"active", "suspended", "archived"} :
              tenants' = [tenants EXCEPT ![id].status = status]
  PROVE  ProvisionInv' /\ Settled
  <1>1. IsTable(tenants, Ids, Tenant)  BY DEF ProvisionInv, TenantsInv
  <1>2. DOMAIN tenants' = DOMAIN tenants  OBVIOUS
  <1>3. tenants[id] \in Tenant  BY <1>1 DEF IsTable
  <1>4. tenants'[id] \in Tenant /\ tenants'[id].slug = tenants[id].slug
    <2>1. CASE \E name \in Names : tenants' = [tenants EXCEPT ![id].name = name]
      BY <1>3, <2>1 DEF Tenant
    <2>2. CASE \E status \in {"active", "suspended", "archived"} :
                 tenants' = [tenants EXCEPT ![id].status = status]
      BY <1>3, <2>2 DEF Tenant
    <2> QED  BY <2>1, <2>2
  <1>5. \A t \in DOMAIN tenants : t # id => tenants'[t] = tenants[t]  OBVIOUS
  <1>6. IsTable(tenants', Ids, Tenant)  BY <1>1, <1>2, <1>4, <1>5 DEF IsTable
  <1>7. \A t \in DOMAIN tenants : tenants'[t].slug = tenants[t].slug  BY <1>4, <1>5
  <1>8. TenantsInv' /\ TenantsSettled
    BY <1>2, <1>6, <1>7 DEF TenantsInv, TenantsSettled, ProvisionInv
  <1>9. UNCHANGED <<seq, realms, applications, apiKeys, authPages, catalogSources,
                    catalogRuns, syncSources, shown, copy, now>>
    BY DEF OnlyTenants
  <1>10. Settled  BY <1>8, <1>9, UntouchedSettled, SettledParts
  <1>11. ShownInv'  BY <1>9, BoundsAssumption, ShownKept DEF ProvisionInv
  <1>12. ApplicationsInv' /\ SourcesInv'  BY <1>9, UntouchedKept DEF ProvisionInv
  <1> QED  BY <1>8, <1>9, <1>10, <1>11, <1>12 DEF ProvisionInv

LEMMA RealmStep ==
  ASSUME ProvisionInv,
         \/ \E code \in Codes : createRealm(code)
         \/ \E code \in Codes, id \in Ids, deadline \in BOOLEAN : updateRealm(code, id, deadline)
  PROVE  ProvisionInv' /\ Settled
  <1>1. IsTable(realms, Codes, Realm) /\ seq \in 0..MaxSeq /\ MaxSeq \in Nat
    BY BoundsAssumption DEF ProvisionInv
  <1>2. OnlyRealms  BY DEF createRealm, updateRealm
  <1>3. /\ IsTable(realms', Codes, Realm) /\ RealmsSettled
        /\ seq' \in 0..MaxSeq /\ seq <= seq'
    <2>1. ASSUME NEW code \in Codes, createRealm(code)
          PROVE  /\ IsTable(realms', Codes, Realm) /\ RealmsSettled
                 /\ seq' \in 0..MaxSeq /\ seq <= seq'
      <3> DEFINE row == [id |-> seq + 1, deadline |-> FALSE]
      <3>1. /\ code \notin DOMAIN realms /\ seq < MaxSeq /\ seq' = seq + 1
            /\ realms' = WithRow(realms, code, row)
        BY <2>1 DEF createRealm
      <3>2. row \in Realm  BY <1>1, <3>1 DEF Realm, Ids
      <3> HIDE DEF row
      <3>3. IsTable(realms', Codes, Realm)  BY <1>1, <3>1, <3>2, TableGrows
      <3>4. /\ DOMAIN realms' = {code} \cup DOMAIN realms
            /\ \A c \in DOMAIN realms : realms'[c] = realms[c]
        BY <3>1 DEF WithRow
      <3> QED  BY <1>1, <3>1, <3>3, <3>4 DEF RealmsSettled
    <2>2. ASSUME NEW code \in Codes, NEW id \in Ids, NEW deadline \in BOOLEAN,
                 updateRealm(code, id, deadline)
          PROVE  /\ IsTable(realms', Codes, Realm) /\ RealmsSettled
                 /\ seq' \in 0..MaxSeq /\ seq <= seq'
      <3> DEFINE row == [id |-> id, deadline |-> deadline]
      <3>1. realms' = WithRow(realms, code, row) /\ UNCHANGED seq
        BY <2>2 DEF updateRealm
      <3>2. row \in Realm  BY DEF Realm
      <3> HIDE DEF row
      <3>3. IsTable(realms', Codes, Realm)  BY <1>1, <3>1, <3>2, TableGrows
      <3>4. DOMAIN realms \subseteq DOMAIN realms'  BY <3>1 DEF WithRow
      <3>5. RealmsSettled  BY <3>1, <3>4 DEF RealmsSettled
      <3> QED  BY <1>1, <3>1, <3>3, <3>5
    <2> QED  BY <2>1, <2>2
  <1>4. UNCHANGED <<tenants, applications, apiKeys, authPages, catalogSources,
                    catalogRuns, syncSources, shown, copy, now>>
    BY <1>2 DEF OnlyRealms
  <1>5. Settled  BY <1>3, <1>4, UntouchedSettled, SettledParts
  <1>6. ShownInv'  BY <1>1, <1>3, <1>4, ShownKept DEF ProvisionInv
  <1>7. TenantsInv' /\ ApplicationsInv' /\ SourcesInv'
    BY <1>4, UntouchedKept DEF ProvisionInv
  <1> QED  BY <1>3, <1>4, <1>5, <1>6, <1>7 DEF ProvisionInv

LEMMA CreateApplicationStep ==
  ASSUME ProvisionInv, NEW slug \in Slugs, NEW kind \in {"spa", "server"}, NEW name \in Names,
         createApplication(slug, kind, name)
  PROVE  /\ ProvisionInv' /\ Settled
         /\ DOMAIN applications' = {slug} \cup DOMAIN applications
         /\ slug \notin DOMAIN applications
         /\ \A s \in DOMAIN applications : applications'[s] = applications[s]
  <1> DEFINE id == freshID(AppIds)
             row == [id |-> id, kind |-> kind, name |-> name, signIn |-> "anyone"]
  <1>1. IsTable(applications, Slugs, Application) /\ seq \in Nat
    BY BoundsAssumption DEF ProvisionInv, ApplicationsInv
  <1>2. \A s \in DOMAIN applications : applications[s].id \in Ids
    BY <1>1 DEF IsTable, Application
  <1>3. AppIds \subseteq Ids  BY <1>2 DEF AppIds
  <1>4. id \in Nat /\ id > seq /\ id \notin AppIds  BY <1>1, <1>3, FreshNumber
  <1>5. /\ slug \notin DOMAIN applications
        /\ applications' = WithRow(applications, slug, row)
        /\ IF kind = "server"
           THEN seq' = id + 1 /\ shown' = Append(shown, <<"secret", id + 1>>)
           ELSE seq' = id /\ UNCHANGED shown
        /\ seq' <= MaxSeq
        /\ OnlyApplications
    BY DEF createApplication
  <1> HIDE DEF id
  <1>6. id \in Ids /\ seq' \in 0..MaxSeq /\ seq' \in Nat /\ seq <= seq'
    BY <1>1, <1>4, <1>5, BoundsAssumption DEF Ids
  <1>7. row \in Application /\ row.id = id  BY <1>6 DEF Application
  <1> HIDE DEF row
  <1>8. /\ DOMAIN applications' = {slug} \cup DOMAIN applications /\ applications'[slug] = row
        /\ \A s \in DOMAIN applications : applications'[s] = applications[s]
    BY <1>5 DEF WithRow
  <1>9. IsTable(applications', Slugs, Application)
    BY <1>1, <1>5, <1>7, TableGrows
  <1>10. \A s \in DOMAIN applications : applications[s].id # id  BY <1>4 DEF AppIds
  <1>11. ASSUME NEW s \in DOMAIN applications', NEW t \in DOMAIN applications',
                applications'[s].id = applications'[t].id
         PROVE  s = t
    <2>1. CASE s \in DOMAIN applications /\ t \in DOMAIN applications
      BY <1>8, <1>11, <2>1 DEF ProvisionInv, ApplicationsInv
    <2>2. CASE s = slug /\ t \in DOMAIN applications  BY <1>7, <1>8, <1>10, <1>11, <2>2
    <2>3. CASE t = slug /\ s \in DOMAIN applications  BY <1>7, <1>8, <1>10, <1>11, <2>3
    <2> QED  BY <1>8, <2>1, <2>2, <2>3
  <1>12. ApplicationsInv'  BY <1>9, <1>11 DEF ApplicationsInv
  <1>13. ApplicationsSettled  BY <1>8 DEF ApplicationsSettled
  <1>14. ShownInv'
    <2>1. CASE kind = "server"
      <3>1. id + 1 \in Nat /\ id + 1 > seq  BY <1>1, <1>4
      <3> QED  BY <1>1, <1>5, <2>1, <3>1, ShownGrows DEF ProvisionInv
    <2>2. CASE kind = "spa"  BY <1>1, <1>5, <1>6, <2>2, ShownKept DEF ProvisionInv
    <2> QED  BY <2>1, <2>2
  <1>15. UNCHANGED <<tenants, realms, apiKeys, authPages, catalogSources, catalogRuns,
                     syncSources, copy, now>>
    BY <1>5 DEF OnlyApplications
  <1>16. Settled  BY <1>13, <1>15, UntouchedSettled, SettledParts
  <1>17. TenantsInv' /\ SourcesInv'  BY <1>15, UntouchedKept DEF ProvisionInv
  <1> QED  BY <1>5, <1>6, <1>8, <1>12, <1>14, <1>15, <1>16, <1>17 DEF ProvisionInv

LEMMA UpdateApplicationStep ==
  ASSUME ProvisionInv, NEW id, NEW name \in Names,
         NEW signIn \in {"keep", "anyone", "role_holders"}, updateApplication(id, name, signIn)
  PROVE  /\ ProvisionInv' /\ Settled
         /\ DOMAIN applications' = DOMAIN applications
  <1>1. PICK slug \in DOMAIN applications :
          /\ applications' = [applications EXCEPT
               ![slug].name = name, ![slug].signIn = IF signIn = "keep" THEN @ ELSE signIn]
          /\ UNCHANGED <<seq, shown>>
          /\ OnlyApplications
    BY DEF updateApplication
  <1>2. IsTable(applications, Slugs, Application)  BY DEF ProvisionInv, ApplicationsInv
  <1>3. applications[slug] \in Application  BY <1>2 DEF IsTable
  <1>4. DOMAIN applications' = DOMAIN applications  BY <1>1
  <1>5. \A s \in DOMAIN applications : s # slug => applications'[s] = applications[s]  BY <1>1
  <1>6. /\ applications'[slug] \in Application
        /\ applications'[slug].id = applications[slug].id
        /\ applications'[slug].kind = applications[slug].kind
    BY <1>1, <1>3 DEF Application
  <1>7. IsTable(applications', Slugs, Application)  BY <1>2, <1>4, <1>5, <1>6 DEF IsTable
  <1>8. \A s \in DOMAIN applications : /\ applications'[s].id = applications[s].id
                                      /\ applications'[s].kind = applications[s].kind
    BY <1>5, <1>6
  <1>9. ApplicationsInv' /\ ApplicationsSettled
    BY <1>4, <1>7, <1>8 DEF ApplicationsInv, ApplicationsSettled, ProvisionInv
  <1>10. UNCHANGED <<seq, shown, tenants, realms, apiKeys, authPages, catalogSources,
                     catalogRuns, syncSources, copy, now>>
    BY <1>1 DEF OnlyApplications
  <1>11. Settled  BY <1>9, <1>10, UntouchedSettled, SettledParts
  <1>12. ShownInv'  BY <1>10, BoundsAssumption, ShownKept DEF ProvisionInv
  <1>13. TenantsInv' /\ SourcesInv'  BY <1>10, UntouchedKept DEF ProvisionInv
  <1> QED  BY <1>4, <1>9, <1>10, <1>11, <1>12, <1>13 DEF ProvisionInv

LEMMA RotateStep ==
  ASSUME ProvisionInv, NEW id, rotateClientSecret(id)
  PROVE  ProvisionInv' /\ Settled
  <1>1. /\ seq < MaxSeq /\ seq' = seq + 1 /\ shown' = Append(shown, <<"secret", seq + 1>>)
        /\ UNCHANGED <<applications, tenants, realms, apiKeys, authPages, catalogSources,
                       catalogRuns, syncSources, copy, now>>
    BY DEF rotateClientSecret, OnlyApplications
  <1>2. seq \in Nat /\ seq + 1 \in Nat /\ seq + 1 > seq /\ seq' \in 0..MaxSeq
    BY <1>1, BoundsAssumption DEF ProvisionInv
  <1>3. ShownInv'  BY <1>1, <1>2, ShownGrows DEF ProvisionInv
  <1>4. Settled  BY <1>1, UntouchedSettled, SettledParts
  <1>5. TenantsInv' /\ SourcesInv' /\ ApplicationsInv'
    BY <1>1, UntouchedKept DEF ProvisionInv
  <1> QED  BY <1>1, <1>2, <1>3, <1>4, <1>5 DEF ProvisionInv

LEMMA CreateKeyStep ==
  ASSUME ProvisionInv, NEW expiresAt \in 0..MaxTime, createAPIKey(expiresAt)
  PROVE  ProvisionInv' /\ Settled
  <1> DEFINE id == freshID(DOMAIN apiKeys)
             row == [expiresAt |-> expiresAt, revokedAt |-> 0]
  <1>1. IsTable(apiKeys, Ids, APIKey) /\ DOMAIN apiKeys \subseteq Ids /\ seq \in Nat
    BY BoundsAssumption DEF ProvisionInv, IsTable
  <1>2. id \in Nat /\ id > seq /\ id \notin DOMAIN apiKeys  BY <1>1, FreshNumber
  <1>3. /\ id <= MaxSeq /\ seq' = id /\ apiKeys' = WithRow(apiKeys, id, row)
        /\ shown' = Append(shown, <<"key", id>>)
        /\ OnlyKeys
    BY DEF createAPIKey
  <1> HIDE DEF id
  <1>4. id \in Ids /\ seq' \in 0..MaxSeq
    BY <1>1, <1>2, <1>3, BoundsAssumption DEF Ids
  <1>5. row \in APIKey  BY BoundsAssumption DEF APIKey
  <1> HIDE DEF row
  <1>6. /\ DOMAIN apiKeys' = {id} \cup DOMAIN apiKeys
        /\ \A k \in DOMAIN apiKeys : apiKeys'[k] = apiKeys[k]
    BY <1>2, <1>3 DEF WithRow
  <1>7. IsTable(apiKeys', Ids, APIKey)  BY <1>1, <1>3, <1>4, <1>5, TableGrows
  <1>8. UNCHANGED <<tenants, realms, applications, authPages, catalogSources, catalogRuns,
                    syncSources, copy, now>>
    BY <1>3 DEF OnlyKeys
  <1>9. KeysSettled  BY <1>6, <1>8 DEF KeysSettled
  <1>10. Settled  BY <1>8, <1>9, UntouchedSettled, SettledParts
  <1>11. ShownInv'  BY <1>1, <1>2, <1>3, ShownGrows DEF ProvisionInv
  <1>12. TenantsInv' /\ ApplicationsInv' /\ SourcesInv'
    BY <1>8, UntouchedKept DEF ProvisionInv
  <1> QED  BY <1>4, <1>7, <1>8, <1>10, <1>11, <1>12 DEF ProvisionInv

\* Revoking a key, or a tick of the clock, leaves a dead key dead.
LEMMA RevokeStep ==
  ASSUME ProvisionInv, NEW id \in DOMAIN apiKeys, revokeAPIKey(id)
  PROVE  ProvisionInv' /\ Settled
  <1>1. /\ apiKeys' = [apiKeys EXCEPT ![id].revokedAt = now]
        /\ UNCHANGED <<seq, shown, tenants, realms, applications, authPages, catalogSources,
                       catalogRuns, syncSources, copy, now>>
    BY DEF revokeAPIKey, OnlyKeys
  <1>2. IsTable(apiKeys, Ids, APIKey) /\ now \in 1..MaxTime /\ MaxTime \in Nat
    BY BoundsAssumption DEF ProvisionInv
  <1>3. apiKeys[id] \in APIKey  BY <1>2 DEF IsTable
  <1>4. apiKeys'[id] \in APIKey /\ apiKeys'[id].revokedAt = now
    BY <1>1, <1>2, <1>3 DEF APIKey
  <1>5. /\ DOMAIN apiKeys' = DOMAIN apiKeys
        /\ \A k \in DOMAIN apiKeys : k # id => apiKeys'[k] = apiKeys[k]
    BY <1>1
  <1>6. IsTable(apiKeys', Ids, APIKey)  BY <1>2, <1>4, <1>5 DEF IsTable
  <1>7. ~IsLive(apiKeys'[id], now')  BY <1>1, <1>2, <1>4 DEF IsLive
  <1>8. KeysSettled  BY <1>1, <1>5, <1>7 DEF KeysSettled
  <1>9. Settled  BY <1>1, <1>8, UntouchedSettled, SettledParts
  <1>10. ShownInv'  BY <1>1, BoundsAssumption, ShownKept DEF ProvisionInv
  <1>11. TenantsInv' /\ ApplicationsInv' /\ SourcesInv'
    BY <1>1, UntouchedKept DEF ProvisionInv
  <1> QED  BY <1>1, <1>6, <1>9, <1>10, <1>11 DEF ProvisionInv

LEMMA TickStep ==
  ASSUME ProvisionInv, Tick
  PROVE  ProvisionInv' /\ Settled
  <1>1. /\ now < MaxTime /\ now' = now + 1
        /\ UNCHANGED <<seq, shown, tenants, realms, applications, apiKeys, authPages,
                       catalogSources, catalogRuns, syncSources, copy>>
    BY DEF Tick, tables
  <1>2. IsTable(apiKeys, Ids, APIKey) /\ now \in 1..MaxTime /\ MaxTime \in Nat
    BY BoundsAssumption DEF ProvisionInv
  <1>3. now' \in 1..MaxTime  BY <1>1, <1>2
  <1>4. \A k \in DOMAIN apiKeys :
          /\ apiKeys[k].revokedAt \in 0..MaxTime /\ apiKeys[k].expiresAt \in 0..MaxTime
    BY <1>2 DEF IsTable, APIKey
  <1>5. KeysSettled  BY <1>1, <1>2, <1>4 DEF KeysSettled, IsLive
  <1>6. Settled  BY <1>1, <1>5, UntouchedSettled, SettledParts
  <1>7. ShownInv'  BY <1>1, BoundsAssumption, ShownKept DEF ProvisionInv
  <1>8. TenantsInv' /\ ApplicationsInv' /\ SourcesInv'
    BY <1>1, UntouchedKept DEF ProvisionInv
  <1> QED  BY <1>1, <1>3, <1>6, <1>7, <1>8 DEF ProvisionInv

LEMMA PagesStep ==
  ASSUME ProvisionInv, PagesNext
  PROVE  ProvisionInv' /\ Settled
  <1> DEFINE Goal == /\ IsTable(authPages', Ids, AuthPage) /\ PagesSettled /\ OnlyPages
                     /\ seq' \in 0..MaxSeq /\ seq <= seq'
                     /\ copy' \in [id: 0..MaxSeq, page: AuthPage]
  <1>1. /\ IsTable(authPages, Ids, AuthPage) /\ seq \in 0..MaxSeq /\ seq \in Nat
        /\ MaxSeq \in Nat /\ copy \in [id: 0..MaxSeq, page: AuthPage]
        /\ DOMAIN authPages \subseteq Ids
    BY BoundsAssumption DEF ProvisionInv, IsTable
  <1>2. ASSUME NEW kind \in {"signin", "signout"},
               NEW binding \in {"none", "application", "realm"}, createAuthPage(kind, binding)
        PROVE  Goal
    <2> DEFINE id == freshID(DOMAIN authPages)
               row == [kind |-> kind, binding |-> binding, isDefault |-> FALSE]
    <2>1. id \in Nat /\ id > seq /\ id \notin DOMAIN authPages  BY <1>1, FreshNumber
    <2>2. /\ id <= MaxSeq /\ seq' = id /\ authPages' = WithRow(authPages, id, row)
          /\ UNCHANGED copy /\ OnlyPages
      BY <1>2 DEF createAuthPage
    <2>3. row \in AuthPage  BY DEF AuthPage
    <2> HIDE DEF id, row
    <2>4. id \in Ids /\ seq' \in 0..MaxSeq /\ seq <= seq'  BY <1>1, <2>1, <2>2 DEF Ids
    <2>5. DOMAIN authPages' = {id} \cup DOMAIN authPages  BY <2>2 DEF WithRow
    <2>6. IsTable(authPages', Ids, AuthPage)  BY <1>1, <2>2, <2>3, <2>4, TableGrows
    <2>7. PagesSettled  BY <1>1, <2>1, <2>5 DEF PagesSettled
    <2> QED  BY <1>1, <2>2, <2>4, <2>6, <2>7
  <1>3. ASSUME NEW kind \in {"signin", "signout"},
               NEW binding \in {"none", "application", "realm"}, updateAuthPage(kind, binding)
        PROVE  Goal
    <2> DEFINE row == [copy.page EXCEPT !.kind = kind, !.binding = binding]
    <2>1. /\ copy' = NoCopy /\ UNCHANGED seq /\ OnlyPages
          /\ authPages' = [p \in DOMAIN authPages |->
               IF p = copy.id THEN row ELSE authPages[p]]
      BY <1>3 DEF updateAuthPage
    <2>2. copy.page \in AuthPage  BY <1>1
    <2>3. row \in AuthPage  BY <2>2 DEF AuthPage
    <2> HIDE DEF row
    <2>4. DOMAIN authPages' = DOMAIN authPages  BY <2>1
    <2>5. \A p \in DOMAIN authPages : authPages'[p] \in AuthPage
      BY <1>1, <2>1, <2>3 DEF IsTable
    <2>6. NoCopy \in [id: 0..MaxSeq, page: AuthPage]  BY <1>1 DEF NoCopy, AuthPage
    <2>7. IsTable(authPages', Ids, AuthPage)  BY <1>1, <2>4, <2>5 DEF IsTable
    <2> QED  BY <1>1, <2>1, <2>4, <2>6, <2>7 DEF PagesSettled
  <1>4. ASSUME NEW id \in DOMAIN authPages, deleteAuthPage(id)
        PROVE  Goal
    <2>1. /\ authPages' = [p \in DOMAIN authPages \ {id} |-> authPages[p]]
          /\ UNCHANGED <<seq, copy>> /\ OnlyPages
      BY <1>4 DEF deleteAuthPage
    <2>2. DOMAIN authPages' \subseteq DOMAIN authPages  BY <2>1
    <2>3. \A p \in DOMAIN authPages' : authPages'[p] \in AuthPage
      BY <1>1, <2>1 DEF IsTable
    <2>4. IsTable(authPages', Ids, AuthPage)  BY <1>1, <2>2, <2>3 DEF IsTable
    <2> QED  BY <1>1, <2>1, <2>2, <2>4 DEF PagesSettled
  <1>5. ASSUME NEW id \in DOMAIN authPages, setDefaultAuthPage(id)
        PROVE  Goal
    <2>1. /\ authPages' = [p \in DOMAIN authPages |->
               IF authPages[p].kind = authPages[id].kind
               THEN [authPages[p] EXCEPT !.isDefault = (p = id)]
               ELSE authPages[p]]
          /\ UNCHANGED <<seq, copy>> /\ OnlyPages
      BY <1>5 DEF setDefaultAuthPage
    <2>2. DOMAIN authPages' = DOMAIN authPages  BY <2>1
    <2>3. ASSUME NEW p \in DOMAIN authPages  PROVE authPages'[p] \in AuthPage
      <3>1. authPages[p] \in AuthPage  BY <1>1 DEF IsTable
      <3>2. ASSUME NEW b \in BOOLEAN PROVE [authPages[p] EXCEPT !.isDefault = b] \in AuthPage
        BY <3>1 DEF AuthPage
      <3>3. (p = id) \in BOOLEAN  OBVIOUS
      <3>4. [authPages[p] EXCEPT !.isDefault = (p = id)] \in AuthPage  BY <3>2, <3>3
      <3> QED  BY <2>1, <3>1, <3>4
    <2>4. IsTable(authPages', Ids, AuthPage)  BY <1>1, <2>2, <2>3 DEF IsTable
    <2> QED  BY <1>1, <2>1, <2>2, <2>4 DEF PagesSettled
  <1>6. ASSUME NEW id \in DOMAIN authPages, getAuthPage(id)
        PROVE  Goal
    <2>1. /\ copy' = [id |-> id, page |-> authPages[id]]
          /\ UNCHANGED <<seq, authPages>> /\ OnlyPages
      BY <1>6 DEF getAuthPage
    <2>2. id \in 0..MaxSeq /\ authPages[id] \in AuthPage  BY <1>1 DEF IsTable, Ids
    <2>3. copy' \in [id: 0..MaxSeq, page: AuthPage]  BY <2>1, <2>2
    <2> QED  BY <1>1, <2>1, <2>3 DEF PagesSettled
  <1>7. Goal  BY <1>2, <1>3, <1>4, <1>5, <1>6 DEF PagesNext
  <1>8. UNCHANGED <<tenants, realms, applications, apiKeys, catalogSources, catalogRuns,
                    syncSources, shown, now>>
    BY <1>7 DEF OnlyPages
  <1>9. Settled  BY <1>7, <1>8, UntouchedSettled, SettledParts
  <1>10. ShownInv'  BY <1>1, <1>7, <1>8, ShownKept DEF ProvisionInv
  <1>11. TenantsInv' /\ ApplicationsInv' /\ SourcesInv'
    BY <1>8, UntouchedKept DEF ProvisionInv
  <1> QED  BY <1>7, <1>8, <1>9, <1>10, <1>11 DEF ProvisionInv

RunLists == UNION {[1..n -> Statuses] : n \in 1..MaxRuns}

LEMMA RunListFacts ==
  ASSUME NEW runs, runs \in RunLists \/ runs = <<>>
  PROVE  runs \in Seq(Statuses) /\ DOMAIN runs = 1..Len(runs) /\ Len(runs) \in Nat
  <1>1. CASE runs = <<>>  BY <1>1
  <1>2. CASE runs \in RunLists
    <2>1. PICK n \in 1..MaxRuns : runs \in [1..n -> Statuses]  BY <1>2 DEF RunLists
    <2>2. n \in Nat  BY BoundsAssumption
    <2>3. runs \in Seq(Statuses)  BY <2>1, <2>2
    <2> QED  BY <2>3
  <1> QED  BY <1>1, <1>2

\* A run put in front of the others.
LEMMA RunAdded ==
  ASSUME NEW runs, runs \in RunLists \/ runs = <<>>, Len(runs) < MaxRuns,
         NEW status \in Statuses
  PROVE  LET more == <<status>> \o runs
         IN  /\ more \in RunLists
             /\ (\E i \in DOMAIN more : more[i] = "ok")
                  <=> status = "ok" \/ \E i \in DOMAIN runs : runs[i] = "ok"
  <1> DEFINE more == <<status>> \o runs
  <1>1. runs \in Seq(Statuses) /\ DOMAIN runs = 1..Len(runs) /\ Len(runs) \in Nat
    BY RunListFacts
  <1>2. <<status>> \in Seq(Statuses) /\ Len(<<status>>) = 1 /\ <<status>>[1] = status
    OBVIOUS
  <1>3. /\ more \in Seq(Statuses) /\ Len(more) = Len(runs) + 1
        /\ \A i \in 1..Len(more) : more[i] = IF i = 1 THEN status ELSE runs[i - 1]
    BY <1>1, <1>2
  <1> HIDE DEF more
  <1>4. DOMAIN more = 1..(Len(runs) + 1)  BY <1>1, <1>3
  <1>5. more \in [1..(Len(runs) + 1) -> Statuses]  BY <1>3, <1>4
  <1>6. Len(runs) + 1 \in 1..MaxRuns  BY <1>1, BoundsAssumption
  <1>7. more \in RunLists  BY <1>5, <1>6 DEF RunLists
  <1>8. ASSUME NEW i \in DOMAIN more, more[i] = "ok"
        PROVE  status = "ok" \/ \E j \in DOMAIN runs : runs[j] = "ok"
    <2>1. CASE i = 1  BY <1>1, <1>3, <1>4, <1>8, <2>1
    <2>2. CASE i # 1
      <3>1. i - 1 \in DOMAIN runs /\ runs[i - 1] = "ok"  BY <1>1, <1>3, <1>4, <1>8, <2>2
      <3> QED  BY <3>1
    <2> QED  BY <2>1, <2>2
  <1>9. status = "ok" => \E i \in DOMAIN more : more[i] = "ok"
    <2>1. 1 \in DOMAIN more /\ more[1] = status  BY <1>1, <1>3, <1>4
    <2> QED  BY <2>1
  <1>10. ASSUME NEW j \in DOMAIN runs, runs[j] = "ok"
         PROVE  \E i \in DOMAIN more : more[i] = "ok"
    <2>1. j + 1 \in DOMAIN more /\ more[j + 1] = runs[j]  BY <1>1, <1>3, <1>4
    <2> QED  BY <1>10, <2>1
  <1>11. (\E i \in DOMAIN more : more[i] = "ok")
           <=> status = "ok" \/ \E i \in DOMAIN runs : runs[i] = "ok"
    BY <1>8, <1>9, <1>10
  <1> QED  BY <1>7, <1>11 DEF more

HasRun(c) == \E i \in DOMAIN RunsOf(c) : RunsOf(c)[i] = "ok"
LastRun(c) == IF HasRun(c) THEN "ok" ELSE NeverRun

LEMMA SourcesStep ==
  ASSUME ProvisionInv, SourcesNext
  PROVE  ProvisionInv' /\ Settled
  <1> DEFINE Goal == /\ SourcesInv' /\ SourcesSettled
                     /\ IsTable(syncSources', Ids, SyncSource)
                     /\ seq' \in 0..MaxSeq /\ seq <= seq'
                     /\ UNCHANGED <<tenants, realms, applications, apiKeys, authPages,
                                    shown, copy, now>>
  <1>1. /\ IsTable(catalogSources, Ids, CatalogSource) /\ IsTable(catalogRuns, Ids, RunLists)
        /\ IsTable(syncSources, Ids, SyncSource)
        /\ seq \in 0..MaxSeq /\ seq \in Nat /\ MaxSeq \in Nat
        /\ DOMAIN catalogSources \subseteq Ids
        /\ DOMAIN catalogRuns \subseteq DOMAIN catalogSources
    BY BoundsAssumption
    DEF ProvisionInv, SourcesInv, IsTable, RunsAgreeWithStatus, RunLists
  <1>2. \A c \in DOMAIN catalogSources : catalogSources[c].lastStatus = LastRun(c)
    BY DEF ProvisionInv, SourcesInv, RunsAgreeWithStatus, HasRun, LastRun
  <1>3. ASSUME IsTable(catalogSources', Ids, CatalogSource), IsTable(catalogRuns', Ids, RunLists),
               DOMAIN catalogRuns' \subseteq DOMAIN catalogSources',
               \A c \in DOMAIN catalogSources' :
                 catalogSources'[c].lastStatus = LastRun(c)'
        PROVE  SourcesInv'
    BY <1>3 DEF SourcesInv, RunsAgreeWithStatus, HasRun, LastRun, RunLists
  <1>4. ASSUME NEW slug \in Slugs, NEW interval \in {0, 300},
               createCatalogSource(slug, interval)
        PROVE  Goal
    <2> DEFINE id == freshID(DOMAIN catalogSources)
               row == [app |-> slug, interval |-> interval, lastStatus |-> NeverRun]
    <2>1. id \in Nat /\ id > seq /\ id \notin DOMAIN catalogSources  BY <1>1, FreshNumber
    <2>2. /\ id <= MaxSeq /\ seq' = id /\ catalogSources' = WithRow(catalogSources, id, row)
          /\ UNCHANGED catalogRuns /\ OnlySources
      BY <1>4 DEF createCatalogSource
    <2>3. row \in CatalogSource /\ row.lastStatus = NeverRun  BY DEF CatalogSource
    <2> HIDE DEF id, row
    <2>4. id \in Ids /\ seq' \in 0..MaxSeq /\ seq <= seq'  BY <1>1, <2>1, <2>2 DEF Ids
    <2>5. /\ DOMAIN catalogSources' = {id} \cup DOMAIN catalogSources
          /\ catalogSources'[id] = row
          /\ \A c \in DOMAIN catalogSources : catalogSources'[c] = catalogSources[c]
      BY <2>1, <2>2 DEF WithRow
    <2>6. IsTable(catalogSources', Ids, CatalogSource)
      BY <1>1, <2>2, <2>3, <2>4, TableGrows
    <2>7. \A c : HasRun(c)' <=> HasRun(c)  BY <2>2 DEF HasRun, RunsOf
    <2>8. ~HasRun(id)
      <3>1. RunsOf(id) = <<>>  BY <1>1, <2>1 DEF RunsOf
      <3> QED  BY <3>1 DEF HasRun
    <2>9. SourcesInv'
      <3>1. \A c \in DOMAIN catalogSources' :
              catalogSources'[c].lastStatus = LastRun(c)'
        BY <1>2, <2>3, <2>5, <2>7, <2>8 DEF LastRun
      <3>2. DOMAIN catalogRuns' \subseteq DOMAIN catalogSources'  BY <1>1, <2>2, <2>5
      <3>3. IsTable(catalogRuns', Ids, RunLists)  BY <1>1, <2>2
      <3> QED  BY <1>3, <2>6, <3>1, <3>2, <3>3
    <2>10. SourcesSettled  BY <1>1, <2>1, <2>5 DEF SourcesSettled
    <2> QED  BY <1>1, <2>2, <2>4, <2>9, <2>10 DEF OnlySources
  <1>5. ASSUME NEW id \in DOMAIN catalogSources, NEW interval \in {0, 300},
               updateCatalogSource(id, interval)
        PROVE  Goal
    <2>1. /\ catalogSources' = [catalogSources EXCEPT ![id].interval = interval]
          /\ UNCHANGED <<seq, catalogRuns>> /\ OnlySources
      BY <1>5 DEF updateCatalogSource
    <2>2. catalogSources[id] \in CatalogSource  BY <1>1 DEF IsTable
    <2>3. /\ catalogSources'[id] \in CatalogSource
          /\ catalogSources'[id].app = catalogSources[id].app
          /\ catalogSources'[id].lastStatus = catalogSources[id].lastStatus
      BY <2>1, <2>2 DEF CatalogSource
    <2>4. /\ DOMAIN catalogSources' = DOMAIN catalogSources
          /\ \A c \in DOMAIN catalogSources : c # id => catalogSources'[c] = catalogSources[c]
      BY <2>1
    <2>5. IsTable(catalogSources', Ids, CatalogSource)  BY <1>1, <2>3, <2>4 DEF IsTable
    <2>6. \A c : HasRun(c)' <=> HasRun(c)  BY <2>1 DEF HasRun, RunsOf
    <2>7. SourcesInv'
      <3>1. \A c \in DOMAIN catalogSources' :
              catalogSources'[c].lastStatus = LastRun(c)'
        BY <1>2, <2>3, <2>4, <2>6 DEF LastRun
      <3>2. DOMAIN catalogRuns' \subseteq DOMAIN catalogSources'  BY <1>1, <2>1, <2>4
      <3>3. IsTable(catalogRuns', Ids, RunLists)  BY <1>1, <2>1
      <3> QED  BY <1>3, <2>5, <3>1, <3>2, <3>3
    <2>8. SourcesSettled  BY <2>3, <2>4 DEF SourcesSettled
    <2> QED  BY <1>1, <2>1, <2>7, <2>8 DEF OnlySources
  <1>6. ASSUME NEW id \in DOMAIN catalogSources, deleteCatalogSource(id)
        PROVE  Goal
    <2>1. /\ catalogSources' = [c \in DOMAIN catalogSources \ {id} |-> catalogSources[c]]
          /\ catalogRuns' = [c \in DOMAIN catalogRuns \ {id} |-> catalogRuns[c]]
          /\ UNCHANGED seq /\ OnlySources
      BY <1>6 DEF deleteCatalogSource
    <2>2. /\ DOMAIN catalogSources' = DOMAIN catalogSources \ {id}
          /\ \A c \in DOMAIN catalogSources' : catalogSources'[c] = catalogSources[c]
          /\ DOMAIN catalogRuns' = DOMAIN catalogRuns \ {id}
          /\ \A c \in DOMAIN catalogRuns' : catalogRuns'[c] = catalogRuns[c]
      BY <2>1
    <2>3. IsTable(catalogSources', Ids, CatalogSource) /\ IsTable(catalogRuns', Ids, RunLists)
      BY <1>1, <2>2 DEF IsTable
    <2>4. \A c : c # id => RunsOf(c)' = RunsOf(c)  BY <2>2 DEF RunsOf
    <2>5. \A c : c # id => (HasRun(c)' <=> HasRun(c))  BY <2>4 DEF HasRun
    <2>6. SourcesInv'
      <3>1. \A c \in DOMAIN catalogSources' :
              catalogSources'[c].lastStatus = LastRun(c)'
        BY <1>2, <2>2, <2>5 DEF LastRun
      <3>2. DOMAIN catalogRuns' \subseteq DOMAIN catalogSources'  BY <1>1, <2>2
      <3> QED  BY <1>3, <2>3, <3>1, <3>2
    <2>7. SourcesSettled  BY <2>2 DEF SourcesSettled
    <2> QED  BY <1>1, <2>1, <2>6, <2>7 DEF OnlySources
  <1>7. ASSUME NEW id \in DOMAIN catalogSources, NEW dry \in BOOLEAN, runCatalogSource(id, dry)
        PROVE  Goal
    <2> DEFINE status == IF dry THEN "dry_run" ELSE "ok"
               more == <<status>> \o RunsOf(id)
    <2>1. /\ seq < MaxSeq /\ Len(RunsOf(id)) < MaxRuns /\ seq' = seq + 1
          /\ catalogRuns' = WithRow(catalogRuns, id, more)
          /\ catalogSources' = IF dry THEN catalogSources
                               ELSE [catalogSources EXCEPT ![id].lastStatus = status]
          /\ OnlySources
      BY <1>7 DEF runCatalogSource
    <2>2. RunsOf(id) \in RunLists \/ RunsOf(id) = <<>>  BY <1>1 DEF RunsOf, IsTable
    <2>3. status \in Statuses /\ (status = "ok" <=> ~dry)  BY DEF Statuses
    <2> HIDE DEF status
    <2>4. /\ more \in RunLists
          /\ (\E i \in DOMAIN more : more[i] = "ok") <=> status = "ok" \/ HasRun(id)
      BY <2>1, <2>2, <2>3, RunAdded DEF HasRun
    <2> HIDE DEF more
    <2>5. /\ DOMAIN catalogRuns' = {id} \cup DOMAIN catalogRuns /\ catalogRuns'[id] = more
          /\ \A c \in DOMAIN catalogRuns : c # id => catalogRuns'[c] = catalogRuns[c]
      BY <2>1 DEF WithRow
    <2>6. RunsOf(id)' = more  BY <2>5 DEF RunsOf
    <2>7. \A c : c # id => RunsOf(c)' = RunsOf(c)  BY <2>5 DEF RunsOf
    <2>8. HasRun(id)' <=> status = "ok" \/ HasRun(id)  BY <2>4, <2>6 DEF HasRun
    <2>9. \A c : c # id => (HasRun(c)' <=> HasRun(c))  BY <2>7 DEF HasRun
    <2>10. catalogSources[id] \in CatalogSource  BY <1>1 DEF IsTable
    <2>11. /\ DOMAIN catalogSources' = DOMAIN catalogSources
           /\ \A c \in DOMAIN catalogSources : c # id => catalogSources'[c] = catalogSources[c]
           /\ catalogSources'[id] \in CatalogSource
           /\ catalogSources'[id].app = catalogSources[id].app
           /\ catalogSources'[id].lastStatus
                = IF dry THEN catalogSources[id].lastStatus ELSE "ok"
      <3>1. CASE dry  BY <2>1, <2>10, <3>1
      <3>2. CASE ~dry
        <4>1. catalogSources' = [catalogSources EXCEPT ![id].lastStatus = "ok"]
          BY <2>1, <2>3, <3>2
        <4> QED  BY <2>10, <3>2, <4>1 DEF CatalogSource, Statuses
      <3> QED  BY <3>1, <3>2
    <2>12. IsTable(catalogSources', Ids, CatalogSource)  BY <1>1, <2>11 DEF IsTable
    <2>13. IsTable(catalogRuns', Ids, RunLists)  BY <1>1, <2>1, <2>4, TableGrows
    <2>14. SourcesInv'
      <3>1. catalogSources'[id].lastStatus = LastRun(id)'
        BY <1>2, <2>3, <2>8, <2>11 DEF LastRun
      <3>2. \A c \in DOMAIN catalogSources' :
              catalogSources'[c].lastStatus = LastRun(c)'
        BY <1>2, <2>9, <2>11, <3>1 DEF LastRun
      <3>3. DOMAIN catalogRuns' \subseteq DOMAIN catalogSources'  BY <1>1, <2>5, <2>11
      <3> QED  BY <1>3, <2>12, <2>13, <3>2, <3>3
    <2>15. SourcesSettled  BY <2>11 DEF SourcesSettled
    <2> QED  BY <1>1, <2>1, <2>14, <2>15 DEF OnlySources
  <1>8. ASSUME NEW id \in DOMAIN syncSources, NEW interval \in {0, 300},
               setSyncSchedule(id, interval)
        PROVE  Goal
    <2>1. /\ syncSources' = [syncSources EXCEPT ![id].interval = interval]
          /\ UNCHANGED <<seq, tenants, realms, applications, apiKeys, authPages, catalogSources,
                         catalogRuns, shown, copy, now>>
      BY <1>8 DEF setSyncSchedule
    <2>2. syncSources[id] \in SyncSource  BY <1>1 DEF IsTable
    <2>3. syncSources'[id] \in SyncSource  BY <2>1, <2>2 DEF SyncSource
    <2>4. /\ DOMAIN syncSources' = DOMAIN syncSources
          /\ \A c \in DOMAIN syncSources : c # id => syncSources'[c] = syncSources[c]
      BY <2>1
    <2>5. IsTable(syncSources', Ids, SyncSource)  BY <1>1, <2>3, <2>4 DEF IsTable
    <2>6. SourcesInv' /\ SourcesSettled
      BY <2>1, UntouchedKept, UntouchedSettled DEF ProvisionInv
    <2> QED  BY <1>1, <2>1, <2>5, <2>6
  <1>9. Goal  BY <1>4, <1>5, <1>6, <1>7, <1>8 DEF SourcesNext
  <1>10. Settled  BY <1>9, UntouchedSettled, SettledParts
  <1>11. ShownInv'  BY <1>1, <1>9, ShownKept DEF ProvisionInv
  <1>12. TenantsInv' /\ ApplicationsInv'  BY <1>9, UntouchedKept DEF ProvisionInv
  <1> QED  BY <1>9, <1>10, <1>11, <1>12 DEF ProvisionInv

LEMMA SeededTable ==
  ASSUME NEW D, NEW R, NEW f, NEW id \in D, NEW row \in R,
         f = NoRows \/ f = WithRow(NoRows, id, row)
  PROVE  IsTable(f, D, R) /\ DOMAIN f \subseteq {id} /\ \A x \in DOMAIN f : f[x] = row
  <1>1. DOMAIN NoRows = {}  BY DEF NoRows
  <1>2. IsTable(NoRows, D, R)  BY <1>1 DEF IsTable
  <1>3. CASE f = NoRows  BY <1>1, <1>2, <1>3
  <1>4. CASE f = WithRow(NoRows, id, row)
    <2>1. DOMAIN f = {id} /\ f[id] = row  BY <1>1, <1>4 DEF WithRow
    <2>2. IsTable(f, D, R)  BY <1>2, <1>4, TableGrows
    <2> QED  BY <2>1, <2>2
  <1> QED  BY <1>3, <1>4

LEMMA EmptyTable ==
  ASSUME NEW D, NEW R PROVE IsTable(NoRows, D, R)
  <1>1. DOMAIN NoRows = {}  BY DEF NoRows
  <1> QED  BY <1>1 DEF IsTable

LEMMA ProvisionInvHolds == Init => ProvisionInv
  <1> SUFFICES ASSUME Init PROVE ProvisionInv  OBVIOUS
  <1> DEFINE tenant == [slug |-> 1, name |-> Wanted, status |-> "active"]
             app == [id |-> 2, kind |-> "server", name |-> Wanted, signIn |-> "anyone"]
             source == [app |-> 1, interval |-> 300, lastStatus |-> NeverRun]
             page == [kind |-> "signin", binding |-> "none", isDefault |-> TRUE]
             sync == [interval |-> 0, config |-> "dsn"]
  <1>1. MaxSeq \in Nat /\ MaxSeq >= 2 /\ 2 \in Ids /\ 1 \in Slugs /\ 2 \in Slugs
        /\ Wanted \in Names /\ MaxTime \in Nat \ {0}
    BY BoundsAssumption, SeedAssumption, WalkAssumption DEF Ids
  <1>2. /\ tenant \in Tenant /\ app \in Application /\ page \in AuthPage
        /\ source \in CatalogSource /\ source.lastStatus = NeverRun /\ sync \in SyncSource
    BY <1>1 DEF Tenant, Application, CatalogSource, AuthPage, SyncSource
  <1>3. /\ seq = 0 /\ now = 1 /\ shown = <<>> /\ copy = NoCopy
        /\ realms = NoRows /\ apiKeys = NoRows /\ catalogRuns = NoRows
    BY DEF Init, Seed, ProvisionInit
  <1>4. /\ tenants = NoRows \/ tenants = WithRow(NoRows, 2, tenant)
        /\ applications = NoRows \/ applications = WithRow(NoRows, 2, app)
        /\ catalogSources = NoRows \/ catalogSources = WithRow(NoRows, 2, source)
        /\ authPages = NoRows \/ authPages = WithRow(NoRows, 2, page)
        /\ syncSources = NoRows \/ syncSources = WithRow(NoRows, 2, sync)
    BY DEF Init, Seed, ProvisionInit, AddTenant, AddApplication, AddCatalogSource,
           AddAuthPage, AddSyncSource
  <1> HIDE DEF tenant, app, source, page, sync
  <1>5. TenantsInv
    <2>1. IsTable(tenants, Ids, Tenant) /\ DOMAIN tenants \subseteq {2}
      BY <1>1, <1>2, <1>4, SeededTable
    <2> QED  BY <2>1 DEF TenantsInv
  <1>6. ApplicationsInv
    <2>1. IsTable(applications, Slugs, Application) /\ DOMAIN applications \subseteq {2}
      BY <1>1, <1>2, <1>4, SeededTable
    <2> QED  BY <2>1 DEF ApplicationsInv
  <1>7. SourcesInv
    <2>1. /\ IsTable(catalogSources, Ids, CatalogSource)
          /\ \A c \in DOMAIN catalogSources : catalogSources[c] = source
      BY <1>1, <1>2, <1>4, SeededTable
    <2>2. IsTable(catalogRuns, Ids, RunLists) /\ DOMAIN catalogRuns = {}
      BY <1>3, EmptyTable DEF NoRows
    <2>3. \A c \in DOMAIN catalogSources : catalogSources[c].lastStatus = NeverRun
      BY <1>2, <2>1
    <2>4. \A c : RunsOf(c) = <<>>  BY <2>2 DEF RunsOf
    <2>5. \A c : ~ \E i \in DOMAIN RunsOf(c) : RunsOf(c)[i] = "ok"  BY <2>4
    <2>6. RunsAgreeWithStatus  BY <2>2, <2>3, <2>5 DEF RunsAgreeWithStatus
    <2> QED  BY <2>1, <2>2, <2>6 DEF SourcesInv, RunLists
  <1>8. /\ IsTable(authPages, Ids, AuthPage) /\ IsTable(syncSources, Ids, SyncSource)
        /\ IsTable(realms, Codes, Realm) /\ IsTable(apiKeys, Ids, APIKey)
    <2>1. IsTable(authPages, Ids, AuthPage)  BY <1>1, <1>2, <1>4, SeededTable
    <2>2. IsTable(syncSources, Ids, SyncSource)  BY <1>1, <1>2, <1>4, SeededTable
    <2>3. IsTable(realms, Codes, Realm) /\ IsTable(apiKeys, Ids, APIKey)
      BY <1>3, EmptyTable
    <2> QED  BY <2>1, <2>2, <2>3
  <1>9. copy \in [id: 0..MaxSeq, page: AuthPage]  BY <1>1, <1>3 DEF NoCopy, AuthPage
  <1>10. ShownInv  BY <1>3 DEF ShownInv, SecretsShownOnce
  <1>11. seq \in 0..MaxSeq /\ now \in 1..MaxTime  BY <1>1, <1>3
  <1> QED  BY <1>5, <1>6, <1>7, <1>8, <1>9, <1>10, <1>11 DEF ProvisionInv

LEMMA ProvisionStep ==
  ASSUME ProvisionInv, [Next]_vars
  PROVE  /\ ProvisionInv'
         /\ Settled \/ UNCHANGED provisionVars
  <1>1. CASE UNCHANGED provisionVars
    <2>1. UNCHANGED <<seq, shown, tenants, realms, applications, apiKeys, authPages,
                      catalogSources, catalogRuns, syncSources, copy, now>>
      BY <1>1 DEF provisionVars, tables
    <2>2. ShownInv'  BY <2>1, BoundsAssumption, ShownKept DEF ProvisionInv
    <2>3. TenantsInv' /\ ApplicationsInv' /\ SourcesInv'
      BY <2>1, UntouchedKept DEF ProvisionInv
    <2> QED  BY <1>1, <2>1, <2>2, <2>3 DEF ProvisionInv
  <1>2. CASE TenantsNext
    <2>1. ASSUME NEW id \in DOMAIN tenants, NEW name \in Names, updateTenant(id, name)
          PROVE  ProvisionInv' /\ Settled
      BY <2>1, EditTenantStep DEF updateTenant
    <2>2. ASSUME NEW id \in DOMAIN tenants,
                 NEW status \in {"active", "suspended", "archived"}, setTenantStatus(id, status)
          PROVE  ProvisionInv' /\ Settled
      BY <2>2, EditTenantStep DEF setTenantStatus
    <2> QED  BY <1>2, <2>1, <2>2, CreateTenantStep, RealmStep DEF TenantsNext
  <1>3. CASE ApplicationsNext
    BY <1>3, CreateApplicationStep, UpdateApplicationStep DEF ApplicationsNext
  <1>4. CASE CredentialsNext
    BY <1>4, RotateStep, CreateKeyStep, RevokeStep, TickStep DEF CredentialsNext
  <1>5. CASE WalkNext
    <2>1. CASE UNCHANGED provisionVars  BY <1>1, <2>1
    <2>2. ASSUME NEW slug \in Slugs, NEW name \in Names, createApplication(slug, "spa", name)
          PROVE  ProvisionInv' /\ Settled
      BY <2>2, CreateApplicationStep
    <2>3. ASSUME NEW id \in AppIds, NEW name \in Names, updateApplication(id, name, "keep")
          PROVE  ProvisionInv' /\ Settled
      BY <2>3, UpdateApplicationStep
    <2> QED  BY <1>5, <2>1, <2>2, <2>3 DEF WalkNext, BeginWalk, NextPage, PageFails, AddScopeNode
  <1>6. \/ UNCHANGED provisionVars \/ TenantsNext \/ ApplicationsNext \/ CredentialsNext
        \/ PagesNext \/ SourcesNext \/ WalkNext
    BY DEF Next, Configure, Walk, Catalog, vars
  <1> QED  BY <1>1, <1>2, <1>3, <1>4, <1>5, <1>6, PagesStep, SourcesStep

LEMMA ProvisionInvariant == Spec => []ProvisionInv
  <1>1. ProvisionInv /\ [Next]_vars => ProvisionInv'  BY ProvisionStep
  <1> QED  BY <1>1, ProvisionInvHolds, PTL DEF Spec

\* Whatever operators do in whatever order, no call undoes what was settled:
\* tenants, applications and sources keep what they are known by and a create
\* replaces no realm, dead keys stay dead, and pages and sources deleted under a
\* number the counter has passed stay deleted, an operator's late write-back of
\* a page included (admin/provision.go:114-116, :539, anubistest/provision.go:264-294,
\* :618-626, anubistest/adminconfig.go:425-474).
THEOREM NothingSettledIsUndone == Spec => SettledStaysSettled
  <1>1. ProvisionInv /\ [Next]_vars => [IdentityKept /\ DeadKept]_provisionVars
    BY ProvisionStep DEF Settled
  <1> QED  BY <1>1, ProvisionInvariant, PTL DEF Spec, SettledStaysSettled

-----------------------------------------------------------------------------
(***************************************************************************)
(* Page walks.  First what sorting a listing gives: the rows, each once,   *)
(* in increasing order.  The rank of a row, how many are below it, is its  *)
(* index less one.                                                         *)
(***************************************************************************)

Below(S, x) == {y \in S : y < x}
Rank(S, x) == Cardinality(Below(S, x))

LEMMA RankFacts ==
  ASSUME NEW S \in SUBSET Nat, IsFiniteSet(S)
  PROVE  /\ \A x \in Nat : IsFiniteSet(Below(S, x)) /\ Rank(S, x) \in Nat
         /\ \A x \in S : Rank(S, x) < Cardinality(S)
         /\ \A x \in S, z \in S : x < z <=> Rank(S, x) < Rank(S, z)
  <1>1. ASSUME NEW x \in Nat PROVE IsFiniteSet(Below(S, x)) /\ Rank(S, x) \in Nat
    <2>1. Below(S, x) \in SUBSET S  BY DEF Below
    <2>2. IsFiniteSet(Below(S, x))  BY <2>1, FS_Subset
    <2> QED  BY <2>2, FS_CardinalityType DEF Rank
  <1>2. ASSUME NEW x \in S PROVE Rank(S, x) < Cardinality(S)
    <2>1. Below(S, x) \in SUBSET S /\ x \notin Below(S, x)  BY DEF Below
    <2>2. Rank(S, x) <= Cardinality(S) /\ Rank(S, x) # Cardinality(S)
      BY <2>1, FS_Subset DEF Rank
    <2>3. Rank(S, x) \in Nat /\ Cardinality(S) \in Nat  BY <1>1, FS_CardinalityType
    <2> QED  BY <2>2, <2>3
  <1>3. ASSUME NEW x \in S, NEW z \in S, x < z PROVE Rank(S, x) < Rank(S, z)
    <2>a. x \in Nat /\ z \in Nat /\ S \subseteq Nat  OBVIOUS
    <2>b. \A y \in Below(S, x) : y \in Below(S, z)  BY <1>3, <2>a DEF Below
    <2>1. Below(S, x) \in SUBSET Below(S, z) /\ x \in Below(S, z) /\ x \notin Below(S, x)
      <3>1. x \in Below(S, z)  BY <1>3 DEF Below
      <3>2. x \notin Below(S, x)  BY <2>a DEF Below
      <3>3. Below(S, x) \in SUBSET Below(S, z)  BY <2>b
      <3> QED  BY <3>1, <3>2, <3>3
    <2>2. IsFiniteSet(Below(S, z)) /\ Rank(S, x) \in Nat /\ Rank(S, z) \in Nat  BY <1>1
    <2>3. Rank(S, x) <= Rank(S, z) /\ Rank(S, x) # Rank(S, z)
      BY <2>1, <2>2, FS_Subset DEF Rank
    <2> QED  BY <2>2, <2>3
  <1>4. ASSUME NEW x \in S, NEW z \in S, Rank(S, x) < Rank(S, z) PROVE x < z
    <2>1. CASE z < x
      <3>1. Rank(S, z) < Rank(S, x)  BY <1>3, <2>1
      <3>2. Rank(S, x) \in Nat /\ Rank(S, z) \in Nat  BY <1>1
      <3> QED  BY <1>4, <3>1, <3>2
    <2>2. CASE z = x
      <3>1. Rank(S, x) \in Nat  BY <1>1
      <3> QED  BY <1>4, <2>2, <3>1
    <2> QED  BY <2>1, <2>2
  <1> QED  BY <1>1, <1>2, <1>3, <1>4

\* Every rank below the number of rows is somebody's: a least one that is not
\* would follow one that is, and the next row up would have it.
LEMMA EveryRankTaken ==
  ASSUME NEW S \in SUBSET Nat, IsFiniteSet(S)
  PROVE  \A i \in 1..Cardinality(S) : \E x \in S : Rank(S, x) = i - 1
  <1> DEFINE bad == {i \in 1..Cardinality(S) : ~ \E x \in S : Rank(S, x) = i - 1}
  <1> SUFFICES ASSUME bad # {} PROVE FALSE  OBVIOUS
  <1>1. Cardinality(S) \in Nat  BY FS_CardinalityType
  <1>2. bad \in SUBSET Nat  BY <1>1
  <1>3. PICK i \in bad : \A j \in bad : i <= j  BY <1>2, LeastNatural
  <1>4. i \in 1..Cardinality(S) /\ ~ \E x \in S : Rank(S, x) = i - 1  BY <1>3
  <1>5. CASE i = 1
    <2>1. S # {}  BY <1>1, <1>4, FS_EmptySet
    <2>2. PICK x \in S : \A y \in S : x <= y  BY <2>1, LeastNatural
    <2>a. \A y \in S : y \in Nat /\ x \in Nat  OBVIOUS
    <2>b. \A y \in S : ~(y < x)  BY <2>2, <2>a
    <2>3. Below(S, x) = {}  BY <2>b DEF Below
    <2>4. Rank(S, x) = 0  BY <2>3, FS_EmptySet DEF Rank
    <2> QED  BY <1>4, <1>5, <2>4
  <1>6. CASE i # 1
    <2>1. i - 1 \in 1..Cardinality(S) /\ i - 1 \notin bad  BY <1>1, <1>3, <1>4, <1>6
    <2>2. PICK x \in S : Rank(S, x) = (i - 1) - 1  BY <2>1
    <2> DEFINE low == Below(S, x) \cup {x}
               up == S \ low
    <2>3. x \in Nat /\ IsFiniteSet(Below(S, x)) /\ x \notin Below(S, x)
      BY RankFacts DEF Below
    <2>4. IsFiniteSet(low) /\ Cardinality(low) = i - 1
      BY <1>1, <1>4, <2>2, <2>3, FS_AddElement DEF Rank
    <2>5. up # {}
      <3> SUFFICES ASSUME up = {} PROVE FALSE  OBVIOUS
      <3>1. S \in SUBSET low  OBVIOUS
      <3>2. Cardinality(S) <= i - 1  BY <2>4, <3>1, FS_Subset
      <3> QED  BY <1>1, <1>4, <3>2
    <2>6. up \in SUBSET Nat  OBVIOUS
    <2>7. PICK z \in up : \A y \in up : z <= y  BY <2>5, <2>6, LeastNatural
    <2>8. \A y \in S : y \in low <=> y <= x  BY <2>3 DEF Below
    <2>9. \A y \in S : y < z <=> y <= x  BY <2>3, <2>7, <2>8
    <2>10. Below(S, z) = low  BY <2>3, <2>8, <2>9 DEF Below
    <2>11. Rank(S, z) = i - 1  BY <2>4, <2>10 DEF Rank
    <2> QED  BY <1>4, <2>7, <2>11
  <1> QED  BY <1>5, <1>6

LEMMA SortedFacts ==
  ASSUME NEW S \in SUBSET Nat, IsFiniteSet(S)
  PROVE  /\ Cardinality(S) \in Nat
         /\ Sorted(S) \in Seq(S) /\ Sorted(S) \in Seq(Nat)
         /\ Len(Sorted(S)) = Cardinality(S) /\ DOMAIN Sorted(S) = 1..Cardinality(S)
         /\ \A i \in 1..Cardinality(S) : Sorted(S)[i] \in S /\ Rank(S, Sorted(S)[i]) = i - 1
  <1>1. Cardinality(S) \in Nat  BY FS_CardinalityType
  <1>2. Sorted(S) = [i \in 1..Cardinality(S) |-> CHOOSE x \in S : Rank(S, x) = i - 1]
    BY DEF Sorted, Rank, Below
  <1>3. ASSUME NEW i \in 1..Cardinality(S)
        PROVE  Sorted(S)[i] \in S /\ Rank(S, Sorted(S)[i]) = i - 1
    <2>1. \E x \in S : Rank(S, x) = i - 1  BY EveryRankTaken
    <2>2. Sorted(S)[i] = CHOOSE x \in S : Rank(S, x) = i - 1  BY <1>2
    <2> QED  BY <2>1, <2>2
  <1>4. DOMAIN Sorted(S) = 1..Cardinality(S)  BY <1>2
  <1>5. Sorted(S) \in [1..Cardinality(S) -> S]  BY <1>2, <1>3
  <1>6. Sorted(S) \in Seq(S)  BY <1>1, <1>5
  <1>a. Sorted(S) \in [1..Cardinality(S) -> Nat]  BY <1>2, <1>3
  <1>7. Sorted(S) \in Seq(Nat)  BY <1>1, <1>a
  <1> QED  BY <1>1, <1>3, <1>4, <1>6, <1>7

LEMMA SortedIncreases ==
  ASSUME NEW S \in SUBSET Nat, IsFiniteSet(S),
         NEW i \in 1..Cardinality(S), NEW j \in 1..Cardinality(S)
  PROVE  i < j <=> Sorted(S)[i] < Sorted(S)[j]
  <1>1. /\ Sorted(S)[i] \in S /\ Rank(S, Sorted(S)[i]) = i - 1
        /\ Sorted(S)[j] \in S /\ Rank(S, Sorted(S)[j]) = j - 1
    BY SortedFacts
  <1>2. \A x \in S, z \in S : x < z <=> Rank(S, x) < Rank(S, z)  BY RankFacts
  <1>3. Cardinality(S) \in Nat  BY SortedFacts
  <1> DEFINE x == Sorted(S)[i]
             z == Sorted(S)[j]
  <1>4. x \in S /\ z \in S /\ Rank(S, x) = i - 1 /\ Rank(S, z) = j - 1  BY <1>1
  <1> HIDE DEF x, z
  <1>5. x < z <=> i - 1 < j - 1  BY <1>2, <1>4
  <1>6. x < z <=> i < j  BY <1>3, <1>5
  <1> QED  BY <1>6 DEF x, z

\* Two rows of the same rank are one.
LEMMA RankIdentifies ==
  ASSUME NEW S \in SUBSET Nat, IsFiniteSet(S), NEW x \in S, NEW z \in S,
         Rank(S, x) = Rank(S, z)
  PROVE  x = z
  <1>1. Rank(S, x) \in Nat  BY RankFacts
  <1>2. ~(x < z) /\ ~(z < x)  BY <1>1, RankFacts
  <1> QED  BY <1>2

LEMMA SortedIsOnto ==
  ASSUME NEW S \in SUBSET Nat, IsFiniteSet(S)
  PROVE  ToSet(Sorted(S)) = S
  <1>1. \A i \in DOMAIN Sorted(S) : Sorted(S)[i] \in S  BY SortedFacts
  <1>2. ASSUME NEW x \in S PROVE \E i \in DOMAIN Sorted(S) : Sorted(S)[i] = x
    <2>1. Rank(S, x) \in Nat /\ Rank(S, x) < Cardinality(S)  BY RankFacts
    <2>2. Cardinality(S) \in Nat  BY SortedFacts
    <2>3. Rank(S, x) + 1 \in 1..Cardinality(S)  BY <2>1, <2>2
    <2>4. /\ Sorted(S)[Rank(S, x) + 1] \in S
          /\ Rank(S, Sorted(S)[Rank(S, x) + 1]) = (Rank(S, x) + 1) - 1
      BY <2>3, SortedFacts
    <2>5. Rank(S, Sorted(S)[Rank(S, x) + 1]) = Rank(S, x)  BY <2>1, <2>4
    <2> DEFINE z == Sorted(S)[Rank(S, x) + 1]
    <2>a. z \in S /\ Rank(S, z) = Rank(S, x)  BY <2>4, <2>5
    <2> HIDE DEF z
    <2>b. z = x  BY <2>a, RankIdentifies
    <2>6. Sorted(S)[Rank(S, x) + 1] = x  BY <2>b DEF z
    <2> QED  BY <2>3, <2>6, SortedFacts
  <1> QED  BY <1>1, <1>2 DEF ToSet

\* A row added above all others leaves the order of the others as it was.
LEMMA SortedPrefix ==
  ASSUME NEW S \in SUBSET Nat, IsFiniteSet(S), NEW n \in Nat, \A x \in S : x < n
  PROVE  /\ IsFiniteSet(S \cup {n}) /\ Cardinality(S \cup {n}) = Cardinality(S) + 1
         /\ \A i \in 1..Cardinality(S) : Sorted(S \cup {n})[i] = Sorted(S)[i]
  <1> DEFINE T == S \cup {n}
  <1>1. n \notin S  OBVIOUS
  <1>2. IsFiniteSet(T) /\ Cardinality(T) = Cardinality(S) + 1  BY <1>1, FS_AddElement
  <1>3. T \in SUBSET Nat /\ Cardinality(S) \in Nat  BY SortedFacts
  <1>4. \A x \in S : Below(T, x) = Below(S, x)  BY DEF Below
  <1>5. \A x \in S : x \in T  OBVIOUS
  <1> HIDE DEF T
  <1>6. ASSUME NEW i \in 1..Cardinality(S) PROVE Sorted(T)[i] = Sorted(S)[i]
    <2>1. Sorted(S)[i] \in S /\ Rank(S, Sorted(S)[i]) = i - 1  BY SortedFacts
    <2>2. Rank(T, Sorted(S)[i]) = i - 1  BY <1>4, <2>1 DEF Rank
    <2>3. i \in 1..Cardinality(T)  BY <1>2, <1>3
    <2>4. Sorted(T)[i] \in T /\ Rank(T, Sorted(T)[i]) = i - 1
      BY <1>2, <1>3, <2>3, SortedFacts
    <2> DEFINE x == Sorted(S)[i]
               z == Sorted(T)[i]
    <2>5. x \in T /\ z \in T /\ Rank(T, x) = Rank(T, z)  BY <1>5, <2>1, <2>2, <2>4
    <2> HIDE DEF x, z
    <2>6. x = z  BY <1>2, <1>3, <2>5, RankIdentifies
    <2> QED  BY <2>6 DEF x, z
  <1> QED  BY <1>2, <1>6 DEF T

LEMMA MaxIsGreatest ==
  ASSUME NEW S \in SUBSET Nat, IsFiniteSet(S), S # {}
  PROVE  Max(S) \in S /\ \A y \in S : y <= Max(S)
  <1> DEFINE n == Cardinality(S)
             m == Sorted(S)[n]
  <1>1. n \in Nat /\ n # 0  BY FS_CardinalityType, FS_EmptySet
  <1>2. n \in 1..n  BY <1>1
  <1>3. m \in S  BY <1>2, SortedFacts
  <1>4. ASSUME NEW y \in S PROVE y <= m
    <2>1. PICK i \in 1..n : Sorted(S)[i] = y  BY SortedIsOnto, SortedFacts DEF ToSet
    <2>2. CASE i < n
      <3>1. Sorted(S)[i] < Sorted(S)[n]  BY <1>2, <2>2, SortedIncreases
      <3>2. y < m  BY <2>1, <3>1
      <3>3. y \in Nat /\ m \in Nat  BY <1>3
      <3> HIDE DEF m
      <3> QED  BY <3>2, <3>3
    <2>3. CASE i = n  BY <1>3, <2>1, <2>3
    <2> QED  BY <1>1, <2>2, <2>3
  <1> HIDE DEF m
  <1>5. \E x \in S : \A y \in S : x >= y  BY <1>3, <1>4
  <1>6. Max(S) \in S /\ \A y \in S : Max(S) >= y  BY <1>5 DEF Max
  <1> QED  BY <1>6

\* A set of indices closed downwards is an initial segment.
LEMMA InitialSegment ==
  ASSUME NEW n \in Nat, NEW D \in SUBSET (1..n), \A i \in D : \A j \in 1..n : j < i => j \in D
  PROVE  Cardinality(D) \in 0..n /\ D = 1..Cardinality(D)
  <1> DEFINE out == {i \in 1..(n + 1) : i \notin D}
  <1>1. n + 1 \in out  OBVIOUS
  <1>2. out \in SUBSET Nat  OBVIOUS
  <1>3. PICK m \in out : \A j \in out : m <= j  BY <1>1, <1>2, LeastNatural
  <1>4. m \in 1..(n + 1) /\ m \notin D  BY <1>3
  <1>5. \A j \in 1..(m - 1) : j \in D
    <2> SUFFICES ASSUME NEW j \in 1..(m - 1) PROVE j \in D  OBVIOUS
    <2>1. j \in 1..(n + 1) /\ ~(m <= j)  BY <1>4
    <2> QED  BY <1>3, <2>1
  <1>6. \A i \in D : i \in 1..(m - 1)
    <2> SUFFICES ASSUME NEW i \in D PROVE i \in 1..(m - 1)  OBVIOUS
    <2>1. i \in 1..n /\ i # m  BY <1>4
    <2>2. CASE m < i
      <3>1. m \in 1..n  BY <1>4, <2>1, <2>2
      <3> QED  BY <1>4, <2>2, <3>1
    <2> QED  BY <1>4, <2>1, <2>2
  <1>7. D = 1..(m - 1)  BY <1>5, <1>6
  <1>8. m - 1 \in Int /\ 1 \in Int  BY <1>4
  <1>9. Cardinality(1..(m - 1)) = IF 1 > m - 1 THEN 0 ELSE (m - 1) - 1 + 1
    BY <1>8, FS_Interval
  <1>10. Cardinality(D) = m - 1  BY <1>4, <1>7, <1>9
  <1> QED  BY <1>4, <1>7, <1>10

\* A page of a listing: the rows after start, and a token only if there are more.
PageOf(p, rows, start, tokens) ==
  \E end \in start..Len(rows) :
    /\ p.rows \in Seq(Nat) /\ Len(p.rows) = end - start
    /\ \A i \in 1..(end - start) : p.rows[i] = rows[start + i]
    /\ IF end < Len(rows) THEN end > start /\ p.next = tokens[end] ELSE p.next = 0

LEMMA PageFacts ==
  ASSUME NEW rows \in Seq(Nat), NEW start \in 0..Len(rows), NEW size \in Nat \ {0}, NEW tokens
  PROVE  PageOf(PageFrom(rows, start, size, tokens), rows, start, tokens)
  <1> DEFINE end == Min({start + size, Len(rows)})
             p == PageFrom(rows, start, size, tokens)
  <1>1. Len(rows) \in Nat /\ start \in Nat  OBVIOUS
  <1>2. end \in {start + size, Len(rows)} /\ \A y \in {start + size, Len(rows)} : end <= y
    <2>1. {start + size, Len(rows)} \in SUBSET Nat  BY <1>1
    <2> QED  BY <2>1, MinIsLeast
  <1>3. /\ p.rows = SubSeq(rows, start + 1, end)
        /\ p.next = IF end < Len(rows) THEN tokens[end] ELSE 0
    BY DEF PageFrom
  <1> HIDE DEF end, p
  <1>4. end \in start..Len(rows) /\ (end < Len(rows) => end > start)  BY <1>1, <1>2
  <1>5. /\ p.rows \in Seq(Nat) /\ Len(p.rows) = end - start
        /\ \A i \in 1..(end - start) : p.rows[i] = rows[start + i]
    <2>1. SubSeq(rows, start + 1, end) \in Seq(Nat)
      BY <1>1, <1>4
    <2>2. Len(SubSeq(rows, start + 1, end)) = end - start  BY <1>1, <1>4
    <2>3. \A i \in 1..(end - start) : SubSeq(rows, start + 1, end)[i] = rows[start + i]
      BY <1>1, <1>4
    <2> QED  BY <1>3, <2>1, <2>2, <2>3
  <1>6. /\ p.rows \in Seq(Nat) /\ Len(p.rows) = end - start
        /\ \A i \in 1..(end - start) : p.rows[i] = rows[start + i]
        /\ IF end < Len(rows) THEN end > start /\ p.next = tokens[end] ELSE p.next = 0
    BY <1>3, <1>4, <1>5
  <1>7. PageOf(p, rows, start, tokens)  BY <1>4, <1>6 DEF PageOf
  <1> QED  BY <1>7 DEF p

WalkType ==
  [at: {"idle", "walking", "done", "too many", "repeated", "failed"},
   listing: Listings, query: BOOLEAN, size: PageSizes \cup {1}, honest: BOOLEAN, page: Tokens, all: Seq(Nat), seen: SUBSET Tokens]
NodeLists == UNION {[1..n -> BOOLEAN] : n \in 0..MaxNodes}

MatchedSet(w, apps, nodes) ==
  IF w.listing = "applications"
  THEN {s \in DOMAIN apps : w.query => apps[s].name = Wanted}
  ELSE {n \in DOMAIN nodes : nodes[n]}

LEMMA NodeListFacts ==
  ASSUME NEW nodes \in NodeLists
  PROVE  nodes \in Seq(BOOLEAN) /\ DOMAIN nodes = 1..Len(nodes) /\ Len(nodes) \in 0..MaxNodes
  <1>1. PICK n \in 0..MaxNodes : nodes \in [1..n -> BOOLEAN]  BY DEF NodeLists
  <1>2. n \in Nat  BY WalkAssumption
  <1>3. nodes \in Seq(BOOLEAN)  BY <1>1, <1>2
  <1>4. DOMAIN nodes = 1..n /\ Len(nodes) = n  BY <1>1, <1>2, <1>3
  <1> QED  BY <1>3, <1>4

\* A listing is the rows it matches, in order, and they are finitely many.
LEMMA MatchedFacts ==
  ASSUME NEW w \in WalkType, NEW apps, IsTable(apps, Slugs, Application), NEW nodes \in NodeLists
  PROVE  /\ MatchedSet(w, apps, nodes) \in SUBSET Nat
         /\ 0 \notin MatchedSet(w, apps, nodes)
         /\ IsFiniteSet(MatchedSet(w, apps, nodes))
         /\ w.listing = "applications" => MatchedSet(w, apps, nodes) \subseteq Slugs
         /\ w.listing = "nodes" => Cardinality(MatchedSet(w, apps, nodes)) <= MaxNodes
         /\ Matched(w, apps, nodes) = Sorted(MatchedSet(w, apps, nodes))
         /\ ToSet(Matched(w, apps, nodes)) = MatchedSet(w, apps, nodes)
  <1> DEFINE S == MatchedSet(w, apps, nodes)
  <1>1. Matched(w, apps, nodes) = Sorted(S)
    BY DEF Matched, MatchedSet, MatchedApplications, MatchedNodes
  <1>2. w.listing = "applications" \/ w.listing = "nodes"  BY DEF WalkType, Listings
  <1>3. CASE w.listing = "applications"
    <2>1. S \subseteq Slugs  BY <1>3 DEF MatchedSet, IsTable
    <2>2. S \in SUBSET Nat /\ 0 \notin S /\ IsFiniteSet(S)  BY <2>1, SlugsAssumption, FS_Subset
    <2>3. ToSet(Sorted(S)) = S  BY <2>2, SortedIsOnto
    <2> QED  BY <1>1, <1>3, <2>1, <2>2, <2>3
  <1>4. CASE w.listing = "nodes"
    <2>1. DOMAIN nodes = 1..Len(nodes) /\ Len(nodes) \in 0..MaxNodes  BY NodeListFacts
    <2>2. S \in SUBSET (1..Len(nodes))  BY <1>4, <2>1 DEF MatchedSet
    <2>3. MaxNodes \in Nat  BY WalkAssumption
    <2>4. Len(nodes) \in Nat /\ 1 \in Int /\ Len(nodes) \in Int  BY <2>1, <2>3
    <2>5. /\ IsFiniteSet(1..Len(nodes))
          /\ Cardinality(1..Len(nodes)) = IF 1 > Len(nodes) THEN 0 ELSE Len(nodes) - 1 + 1
      BY <2>4, FS_Interval
    <2>6. Cardinality(1..Len(nodes)) = Len(nodes)  BY <2>4, <2>5
    <2>7. IsFiniteSet(S) /\ Cardinality(S) <= Len(nodes)  BY <2>2, <2>5, <2>6, FS_Subset
    <2>8. S \in SUBSET Nat /\ 0 \notin S  BY <2>2, <2>4
    <2>9. ToSet(Sorted(S)) = S  BY <2>7, <2>8, SortedIsOnto
    <2>10. Cardinality(S) \in Nat  BY <2>7, FS_CardinalityType
    <2>11. Cardinality(S) <= MaxNodes  BY <2>1, <2>3, <2>4, <2>7, <2>10
    <2> QED  BY <1>1, <1>4, <2>7, <2>8, <2>9, <2>11
  <1> QED  BY <1>2, <1>3, <1>4

LEMMA TokenFacts ==
  /\ \A n \in 0..(MaxNodes + MaxTokens) : n \in Tokens
  /\ \A s \in Slugs : s \in Tokens
  /\ \A t \in Tokens : t \in Nat
  <1>1. Max(Slugs) \in Nat /\ \A s \in Slugs : s \in Nat /\ s <= Max(Slugs)
    <2>1. Slugs \in SUBSET Nat /\ IsFiniteSet(Slugs) /\ Slugs # {}
      BY SlugsAssumption, SeedAssumption
    <2> QED  BY <2>1, MaxIsGreatest
  <1>2. MaxNodes \in Nat /\ MaxTokens \in Nat  BY WalkAssumption
  <1> DEFINE top == Max(Slugs)
  <1> HIDE DEF top
  <1>3. top \in Nat /\ \A s \in Slugs : s \in Nat /\ s <= top  BY <1>1 DEF top
  <1>4. Tokens = 0..(MaxNodes + MaxTokens + top)  BY DEF Tokens, top
  <1> QED  BY <1>2, <1>3, <1>4

LEMMA ConcatFacts ==
  ASSUME NEW s \in Seq(Nat), NEW t \in Seq(Nat)
  PROVE  /\ Len(s) \in Nat /\ Len(t) \in Nat
         /\ s \o t \in Seq(Nat) /\ Len(s \o t) = Len(s) + Len(t)
         /\ DOMAIN (s \o t) = 1..(Len(s) + Len(t))
         /\ \A i \in 1..Len(s) : (s \o t)[i] = s[i]
         /\ \A i \in 1..Len(t) : (s \o t)[Len(s) + i] = t[i]
         /\ \A i \in (Len(s) + 1)..(Len(s) + Len(t)) : (s \o t)[i] = t[i - Len(s)]
  OBVIOUS

\* What the loop of a walk makes of a page.
LEMMA TurnFacts ==
  ASSUME walk \in WalkType, NEW p, p.rows \in Seq(Nat), p.next \in Tokens,
         walk.at = "walking", walk' = Turn(p)
  PROVE  /\ walk' \in WalkType
         /\ walk'.listing = walk.listing /\ walk'.query = walk.query
         /\ walk'.size = walk.size /\ walk'.honest = walk.honest
         /\ walk'.all = walk.all \o p.rows
         /\ \/ p.next = 0 /\ walk'.at = "done"
            \/ p.next # 0 /\ Len(walk'.all) > MaxRows /\ walk'.at = "too many"
            \/ p.next # 0 /\ p.next \in walk.seen /\ walk'.at = "repeated"
            \/ /\ p.next # 0 /\ walk'.at = "walking"
               /\ walk'.seen = walk.seen \cup {p.next} /\ walk'.page = p.next
  <1> DEFINE all == walk.all \o p.rows
             verdict == CASE p.next = 0 -> "done"
                          [] p.next # 0 /\ Len(all) > MaxRows -> "too many"
                          [] p.next # 0 /\ Len(all) <= MaxRows /\ p.next \in walk.seen -> "repeated"
                          [] OTHER -> "walking"
             seen == IF verdict = "walking" THEN walk.seen \cup {p.next} ELSE walk.seen
             page == IF verdict = "walking" THEN p.next ELSE walk.page
  <1>1. walk' = [walk EXCEPT !.all = all, !.at = verdict, !.seen = seen, !.page = page]
    BY DEF Turn
  <1>2. walk.all \in Seq(Nat) /\ walk.seen \subseteq Tokens /\ walk.page \in Tokens
    BY DEF WalkType
  <1> HIDE DEF verdict, seen, page
  <1>3. all \in Seq(Nat) /\ Len(all) \in Nat  BY <1>2, ConcatFacts
  <1> HIDE DEF all
  <1>4. \/ p.next = 0 /\ verdict = "done"
        \/ p.next # 0 /\ Len(all) > MaxRows /\ verdict = "too many"
        \/ p.next # 0 /\ p.next \in walk.seen /\ verdict = "repeated"
        \/ p.next # 0 /\ verdict = "walking"
    BY <1>3, WalkAssumption DEF verdict
  <1>5. seen \in SUBSET Tokens /\ page \in Tokens  BY <1>2 DEF seen, page
  <1>6. verdict = "walking" => seen = walk.seen \cup {p.next} /\ page = p.next
    BY DEF seen, page
  <1>7. walk' \in WalkType  BY <1>1, <1>3, <1>4, <1>5 DEF WalkType
  <1>8. /\ walk'.listing = walk.listing /\ walk'.query = walk.query
        /\ walk'.size = walk.size /\ walk'.honest = walk.honest
        /\ walk'.all = all /\ walk'.at = verdict /\ walk'.seen = seen /\ walk'.page = page
    BY <1>1 DEF WalkType
  <1> QED  BY <1>4, <1>6, <1>7, <1>8 DEF all

(***************************************************************************)
(* The walk invariant.  A walk over applications has, up to the slug its   *)
(* token names, every row that matched throughout and nothing beyond it; a *)
(* walk over nodes has the first rows of the listing, as many as its token *)
(* says.  The tokens either has followed are not above the present one,    *)
(* and the next one is, so that none repeats.                              *)
(***************************************************************************)

ApplicationsSoFar ==
  /\ \A i \in DOMAIN walk.all : walk.all[i] <= walk.page
  /\ \A x \in throughout : x <= walk.page => x \in ToSet(walk.all)
NodesSoFar ==
  /\ walk.page = Len(walk.all)
  /\ Len(walk.all) <= Len(MatchedNodes(scopeNodes))
  /\ \A i \in 1..Len(walk.all) : walk.all[i] = MatchedNodes(scopeNodes)[i]
SoFar ==
  /\ \A t \in walk.seen : t <= walk.page
  /\ walk.listing = "applications" => ApplicationsSoFar
  /\ walk.listing = "nodes" => NodesSoFar
NotBegun ==
  throughout = {} /\ walk.all = <<>> /\ walk.page = 0 /\ walk.seen = {}

WalkInv ==
  /\ scopeNodes \in NodeLists /\ walk \in WalkType
  /\ walk.listing = "applications" => walk.honest
  /\ part # "walk" => walk.at = "idle"
  /\ walk.at = "idle" => NotBegun
  /\ throughout \subseteq MatchedSet(walk, applications, scopeNodes)
  /\ walk.honest /\ walk.at = "walking" => SoFar
  /\ WalkIsExact

LEMMA WalkInvHolds == Init => WalkInv
  <1> SUFFICES ASSUME Init PROVE WalkInv  OBVIOUS
  <1>1. PICK listing \in Listings, query \in BOOLEAN, size \in PageSizes \cup {1},
             honest \in BOOLEAN :
          WalkInit(listing, query, size, honest) /\ (listing = "applications" => honest)
    <2>1. CASE part = "walk"  BY <2>1 DEF Init, Listings
    <2>2. CASE part # "walk"
      <3>1. WalkInit("nodes", FALSE, 1, TRUE)  BY <2>2 DEF Init
      <3>2. "nodes" \in Listings /\ FALSE \in BOOLEAN /\ TRUE \in BOOLEAN
        BY DEF Listings
      <3>3. 1 \in PageSizes \cup {1}  OBVIOUS
      <3> QED  BY <3>1, <3>2, <3>3
    <2> QED  BY <2>1, <2>2
  <1>2. /\ scopeNodes = <<>> /\ throughout = {}
        /\ walk = [NoWalk EXCEPT !.listing = listing, !.query = query, !.size = size,
                                 !.honest = honest]
    BY <1>1 DEF WalkInit
  <1>3. walk = [at |-> "idle", listing |-> listing, query |-> query, size |-> size,
                honest |-> honest, page |-> 0, all |-> <<>>, seen |-> {}]
    BY <1>2 DEF NoWalk
  <1>4. 0 \in Tokens /\ <<>> \in Seq(Nat)  BY TokenFacts, WalkAssumption
  <1>5. walk \in WalkType  BY <1>3, <1>4 DEF WalkType
  <1>6. scopeNodes \in NodeLists
    <2>1. 0 \in 0..MaxNodes  BY WalkAssumption
    <2>2. <<>> \in [1..0 -> BOOLEAN]  OBVIOUS
    <2> QED  BY <1>2, <2>1, <2>2 DEF NodeLists
  <1>a. /\ walk.at = "idle" /\ walk.listing = listing /\ walk.all = <<>>
        /\ walk.page = 0 /\ walk.seen = {}
    BY <1>3
  <1>b. walk.honest = honest  BY <1>3
  <1>7. walk.at = "idle" /\ NotBegun /\ walk.listing = listing /\ walk.honest = honest
    BY <1>2, <1>a, <1>b DEF NotBegun
  <1>8. WalkIsExact  BY <1>7 DEF WalkIsExact, IsInjective, NotBegun
  <1> QED  BY <1>1, <1>2, <1>5, <1>6, <1>7, <1>8 DEF WalkInv

\* Nobody but the walk itself touches the walk of a walk's behaviour, and a
\* walk that has not begun does not mind what happens to the tables.
LEMMA IdleKept ==
  ASSUME WalkInv, UNCHANGED <<walkVars, part>>,
         walk.at = "idle" \/ UNCHANGED applications
  PROVE  WalkInv'
  <1>1. UNCHANGED <<scopeNodes, walk, throughout, part>>  BY DEF walkVars
  <1>2. throughout' \subseteq MatchedSet(walk, applications, scopeNodes)'
    <2>1. CASE walk.at = "idle"  BY <1>1, <2>1 DEF WalkInv, NotBegun
    <2>2. CASE UNCHANGED applications  BY <1>1, <2>2 DEF WalkInv, MatchedSet
    <2> QED  BY <2>1, <2>2
  <1>3. (walk.honest /\ walk.at = "walking" => SoFar)'
    BY <1>1 DEF WalkInv, SoFar, ApplicationsSoFar, NodesSoFar, MatchedNodes
  <1>4. WalkIsExact' /\ (walk.at = "idle" => NotBegun)'
    BY <1>1 DEF WalkInv, WalkIsExact, NotBegun
  <1> QED  BY <1>1, <1>2, <1>3, <1>4 DEF WalkInv

LEMMA BeginWalkStep ==
  ASSUME WalkInv, ProvisionInv, BeginWalk, UNCHANGED part, part = "walk"
  PROVE  WalkInv'
  <1>1. /\ walk.at = "idle" /\ walk' = [walk EXCEPT !.at = "walking"]
        /\ throughout' = ToSet(Matched(walk', applications, scopeNodes))
        /\ UNCHANGED <<provisionVars, scopeNodes>>
    BY DEF BeginWalk
  <1>2. walk \in WalkType /\ scopeNodes \in NodeLists /\ NotBegun
    BY <1>1 DEF WalkInv
  <1>3. /\ walk' \in WalkType /\ walk'.at = "walking" /\ walk'.listing = walk.listing
        /\ walk'.query = walk.query /\ walk'.honest = walk.honest /\ walk'.all = walk.all
        /\ walk'.page = walk.page /\ walk'.seen = walk.seen
    BY <1>1, <1>2 DEF WalkType
  <1>4. UNCHANGED applications  BY <1>1 DEF provisionVars, tables
  <1>5. IsTable(applications, Slugs, Application)  BY DEF ProvisionInv, ApplicationsInv
  <1>6. /\ throughout' = MatchedSet(walk', applications, scopeNodes)
        /\ throughout' \in SUBSET Nat /\ 0 \notin throughout'
    BY <1>1, <1>2, <1>3, <1>5, MatchedFacts
  <1>7. throughout' = MatchedSet(walk', applications', scopeNodes')  BY <1>1, <1>4, <1>6
  <1>8. walk'.all = <<>> /\ walk'.page = 0 /\ walk'.seen = {}  BY <1>2, <1>3 DEF NotBegun
  <1>9. ApplicationsSoFar'
    <2>1. \A x \in throughout' : ~(x <= 0)  BY <1>6
    <2> QED  BY <1>8, <2>1 DEF ApplicationsSoFar
  <1>10. walk'.listing = "nodes" => NodesSoFar'
    <2> SUFFICES ASSUME walk'.listing = "nodes" PROVE NodesSoFar'  OBVIOUS
    <2>1. /\ Matched(walk', applications', scopeNodes') = MatchedNodes(scopeNodes')
          /\ MatchedSet(walk', applications', scopeNodes') = {n \in DOMAIN scopeNodes' : scopeNodes'[n]}
      BY DEF Matched, MatchedSet
    <2>2. /\ MatchedSet(walk', applications', scopeNodes') \in SUBSET Nat
          /\ IsFiniteSet(MatchedSet(walk', applications', scopeNodes'))
      BY <1>1, <1>2, <1>3, <1>4, <1>5, MatchedFacts
    <2>3. Len(MatchedNodes(scopeNodes')) \in Nat
      BY <2>1, <2>2, SortedFacts DEF MatchedNodes
    <2> QED  BY <1>8, <2>3 DEF NodesSoFar
  <1>11. SoFar'  BY <1>8, <1>9, <1>10 DEF SoFar
  <1>12. WalkIsExact'  BY <1>3, <1>8 DEF WalkIsExact, IsInjective
  <1> QED  BY <1>1, <1>2, <1>3, <1>7, <1>11, <1>12 DEF WalkInv

\* Rows come and go under a walk: those that stop matching leave `throughout'.
LEMMA StillMatchedKept ==
  ASSUME WalkInv, ProvisionInv', UNCHANGED <<walk, part>>, StillMatched,
         scopeNodes' \in NodeLists, part = "walk",
         walk.listing = "nodes" /\ NodesSoFar => NodesSoFar'
  PROVE  WalkInv'
  <1>1. walk \in WalkType /\ walk' = walk  BY DEF WalkInv
  <1>2. IsTable(applications', Slugs, Application)  BY DEF ProvisionInv, ApplicationsInv
  <1>3. ToSet(Matched(walk, applications', scopeNodes'))
          = MatchedSet(walk, applications', scopeNodes')
    BY <1>1, <1>2, MatchedFacts
  <1>4. /\ throughout' \subseteq MatchedSet(walk, applications', scopeNodes')
        /\ throughout' \subseteq throughout
    BY <1>3 DEF StillMatched
  <1>5. throughout' \subseteq MatchedSet(walk', applications', scopeNodes')  BY <1>1, <1>4
  <1>6. (walk.at = "idle" => NotBegun)'  BY <1>1, <1>4 DEF WalkInv, NotBegun
  <1>7. ApplicationsSoFar => ApplicationsSoFar'  BY <1>1, <1>4 DEF ApplicationsSoFar
  <1>8. (walk.honest /\ walk.at = "walking" => SoFar)'
    BY <1>1, <1>7 DEF WalkInv, SoFar
  <1>9. WalkIsExact'  BY <1>1, <1>4 DEF WalkInv, WalkIsExact
  <1> QED  BY <1>1, <1>5, <1>6, <1>8, <1>9 DEF WalkInv

LEMMA AddScopeNodeStep ==
  ASSUME WalkInv, ProvisionInv', UNCHANGED part, part = "walk", NEW matches \in BOOLEAN,
         AddScopeNode(matches)
  PROVE  WalkInv'
  <1>1. /\ Len(scopeNodes) < MaxNodes /\ scopeNodes' = Append(scopeNodes, matches)
        /\ UNCHANGED walk /\ StillMatched
    BY DEF AddScopeNode
  <1>2. scopeNodes \in NodeLists  BY DEF WalkInv
  <1> DEFINE m == Len(scopeNodes) + 1
             S == {n \in DOMAIN scopeNodes : scopeNodes[n]}
             T == {n \in DOMAIN scopeNodes' : scopeNodes'[n]}
  <1>3. /\ scopeNodes \in Seq(BOOLEAN) /\ DOMAIN scopeNodes = 1..Len(scopeNodes)
        /\ Len(scopeNodes) \in 0..MaxNodes
    BY <1>2, NodeListFacts
  <1>4. MaxNodes \in Nat /\ Len(scopeNodes) \in Nat  BY <1>3, WalkAssumption
  <1>5. /\ scopeNodes' \in Seq(BOOLEAN) /\ Len(scopeNodes') = m /\ DOMAIN scopeNodes' = 1..m
        /\ \A n \in 1..Len(scopeNodes) : scopeNodes'[n] = scopeNodes[n]
        /\ scopeNodes'[m] = matches
    BY <1>1, <1>3
  <1>6. scopeNodes' \in NodeLists
    <2>1. scopeNodes' \in [1..m -> BOOLEAN]  BY <1>5
    <2>2. m \in 0..MaxNodes  BY <1>1, <1>4
    <2> QED  BY <2>1, <2>2 DEF NodeLists
  <1>7. S \in SUBSET Nat /\ IsFiniteSet(S)
    <2>1. S \in SUBSET (1..Len(scopeNodes))  BY <1>3
    <2>2. IsFiniteSet(1..Len(scopeNodes))  BY <1>4, FS_Interval
    <2>3. IsFiniteSet(S)  BY <2>1, <2>2, FS_Subset
    <2>4. S \in SUBSET Nat  BY <1>4, <2>1
    <2> QED  BY <2>3, <2>4
  <1>8. T = S \/ T = S \cup {m}
    <2>1. \A n \in 1..m : n = m \/ n \in 1..Len(scopeNodes)  BY <1>4
    <2>2. \A n \in 1..Len(scopeNodes) : n \in 1..m /\ n # m  BY <1>4
    <2>3. m \in 1..m  BY <1>4
    <2>4. CASE matches
      <3>1. T = S \cup {m}  BY <1>3, <1>5, <2>1, <2>2, <2>3, <2>4
      <3> QED  BY <3>1
    <2>5. CASE ~matches
      <3>1. T = S  BY <1>3, <1>5, <2>1, <2>2, <2>3, <2>5
      <3> QED  BY <3>1
    <2> QED  BY <2>4, <2>5
  <1>9. \A x \in S : x < m  BY <1>3, <1>4
  <1>10. MatchedNodes(scopeNodes) = Sorted(S) /\ MatchedNodes(scopeNodes)' = Sorted(T)
    BY DEF MatchedNodes
  <1>11. m \in Nat  BY <1>4
  <1> HIDE DEF m, S, T
  <1>12. /\ Cardinality(S) \in Nat /\ Cardinality(T) \in Nat /\ Cardinality(S) <= Cardinality(T)
         /\ IsFiniteSet(T) /\ T \in SUBSET Nat
         /\ \A i \in 1..Cardinality(S) : Sorted(T)[i] = Sorted(S)[i]
    <2>1. CASE T = S  BY <1>7, <2>1, FS_CardinalityType
    <2>2. CASE T = S \cup {m}
      <3>1. /\ IsFiniteSet(T) /\ Cardinality(T) = Cardinality(S) + 1
            /\ \A i \in 1..Cardinality(S) : Sorted(T)[i] = Sorted(S)[i]
        BY <1>7, <1>9, <1>11, <2>2, SortedPrefix
      <3>2. Cardinality(S) \in Nat  BY <1>7, FS_CardinalityType
      <3>3. T \in SUBSET Nat  BY <1>7, <1>11, <2>2
      <3> QED  BY <3>1, <3>2, <3>3
    <2> QED  BY <1>8, <2>1, <2>2
  <1>13. Len(Sorted(S)) = Cardinality(S) /\ Len(Sorted(T)) = Cardinality(T)
    BY <1>7, <1>12, SortedFacts
  <1>14. NodesSoFar => NodesSoFar'
    <2> SUFFICES ASSUME NodesSoFar PROVE NodesSoFar'  OBVIOUS
    <2>1. walk.all \in Seq(Nat)  BY DEF WalkInv, WalkType
    <2>2. Len(walk.all) \in Nat /\ Len(walk.all) <= Cardinality(S)
      BY <1>10, <1>13, <2>1 DEF NodesSoFar
    <2>3. \A i \in 1..Len(walk.all) : walk.all[i] = Sorted(S)[i] /\ i \in 1..Cardinality(S)
      BY <1>10, <1>12, <2>2 DEF NodesSoFar
    <2>4. \A i \in 1..Len(walk.all) : walk.all[i] = Sorted(T)[i]  BY <1>12, <2>3
    <2>5. Len(walk.all) <= Len(Sorted(T))  BY <1>12, <1>13, <2>2
    <2> QED  BY <1>1, <1>10, <2>4, <2>5 DEF NodesSoFar
  <1> QED  BY <1>1, <1>6, <1>14, StillMatchedKept

\* What is left to show once the page of a walk of the fake is known.
LEMMA TurnKept ==
  ASSUME WalkInv, part = "walk", UNCHANGED part, walk.at = "walking", walk.honest,
         NEW p, p.rows \in Seq(Nat), p.next \in Tokens, walk' = Turn(p),
         UNCHANGED <<applications, scopeNodes, throughout>>,
         IsInjective(walk.all \o p.rows),
         p.next = 0 => throughout \subseteq ToSet(walk.all \o p.rows),
         p.next # 0 => p.next > walk.page,
         walk'.all = walk.all \o p.rows /\ walk'.page = p.next /\ p.next # 0
           => /\ walk.listing = "applications" => ApplicationsSoFar'
              /\ walk.listing = "nodes" => NodesSoFar'
  PROVE  WalkInv'
  <1>1. walk \in WalkType /\ SoFar  BY DEF WalkInv
  <1>2. /\ walk' \in WalkType
        /\ walk'.listing = walk.listing /\ walk'.query = walk.query
        /\ walk'.honest = walk.honest
        /\ walk'.all = walk.all \o p.rows
        /\ \/ p.next = 0 /\ walk'.at = "done"
           \/ p.next # 0 /\ Len(walk'.all) > MaxRows /\ walk'.at = "too many"
           \/ p.next # 0 /\ p.next \in walk.seen /\ walk'.at = "repeated"
           \/ /\ p.next # 0 /\ walk'.at = "walking"
              /\ walk'.seen = walk.seen \cup {p.next} /\ walk'.page = p.next
    BY <1>1, TurnFacts
  <1>3. walk.page \in Nat /\ p.next \in Nat /\ \A t \in walk.seen : t \in Nat /\ t <= walk.page
    BY <1>1, TokenFacts DEF WalkType, SoFar
  <1>4. p.next # 0 => p.next \notin walk.seen  BY <1>3
  <1>5. walk'.at # "repeated" /\ walk'.at # "idle"  BY <1>2, <1>4
  <1>6. WalkIsExact'
    <2>1. walk'.at = "done" => throughout' \subseteq ToSet(walk'.all)  BY <1>2
    <2>2. IsInjective(walk'.all)  BY <1>2
    <2>3. walk'.at = "too many" => Len(walk'.all) > MaxRows  BY <1>2
    <2> QED  BY <1>5, <2>1, <2>2, <2>3 DEF WalkIsExact
  <1>7. walk'.at = "walking" => SoFar'
    <2> SUFFICES ASSUME walk'.at = "walking" PROVE SoFar'  OBVIOUS
    <2>1. p.next # 0 /\ walk'.seen = walk.seen \cup {p.next} /\ walk'.page = p.next
      BY <1>2
    <2>2. \A t \in walk'.seen : t <= walk'.page  BY <1>3, <2>1
    <2> QED  BY <1>2, <2>1, <2>2 DEF SoFar
  <1>8. throughout' \subseteq MatchedSet(walk', applications', scopeNodes')
    BY <1>2 DEF WalkInv, MatchedSet
  <1>9. scopeNodes' \in NodeLists /\ (walk'.listing = "applications" => walk'.honest)
    BY <1>2 DEF WalkInv
  <1> QED  BY <1>2, <1>5, <1>6, <1>7, <1>8, <1>9 DEF WalkInv

LEMMA WalkFields ==
  ASSUME walk \in WalkType
  PROVE  walk.page \in Nat /\ walk.all \in Seq(Nat) /\ walk.size \in Nat \ {0}
  <1>1. walk.page \in Tokens /\ walk.all \in Seq(Nat) /\ walk.size \in PageSizes \cup {1}
    BY DEF WalkType
  <1>2. walk.size \in Nat \ {0}
    <2>1. PageSizes \subseteq Nat \ {0}  BY WalkAssumption
    <2>2. 1 \in Nat \ {0}  OBVIOUS
    <2> QED  BY <1>1, <2>1, <2>2
  <1> QED  BY <1>1, <1>2, TokenFacts

\* One page of a listing paged by key, whatever the listing has become since
\* the page before: nothing comes twice, nothing that was passed is lost, and
\* the token moves up.
PassedByKey(got, thr, page) ==
  /\ IsInjective(got)
  /\ \A i \in DOMAIN got : got[i] <= page
  /\ \A x \in thr : x <= page => x \in ToSet(got)
AfterPage(p, got, thr, page) ==
  /\ p.rows \in Seq(Nat)
  /\ p.next # 0 => p.next > page
  /\ IsInjective(got \o p.rows)
  /\ p.next = 0 => thr \subseteq ToSet(got \o p.rows)
  /\ p.next # 0 => PassedByKey(got \o p.rows, thr, p.next)

LEMMA PageByKey ==
  ASSUME NEW S \in SUBSET Nat, 0 \notin S, IsFiniteSet(S),
         NEW page \in Nat, NEW size \in Nat \ {0}, NEW got \in Seq(Nat), NEW thr \in SUBSET S,
         PassedByKey(got, thr, page), NEW D,
         D = {i \in DOMAIN Sorted(S) : Sorted(S)[i] <= page}
  PROVE  /\ PageFrom(Sorted(S), Cardinality(D), size, Sorted(S)).next \in S \cup {0}
         /\ AfterPage(PageFrom(Sorted(S), Cardinality(D), size, Sorted(S)), got, thr, page)
  <1> DEFINE M == Sorted(S)
             n == Cardinality(S)
             start == Cardinality(D)
             p == PageFrom(M, start, size, M)
  <1>1. IsInjective(got)  BY DEF PassedByKey
  <1>2. \A i \in DOMAIN got : got[i] <= page  BY DEF PassedByKey
  <1>3. \A x \in thr : x <= page => x \in ToSet(got)  BY DEF PassedByKey
  <1>4. D = {i \in DOMAIN M : M[i] <= page}  OBVIOUS
  <1>5. /\ n \in Nat /\ M \in Seq(Nat) /\ Len(M) = n /\ DOMAIN M = 1..n
        /\ \A i \in 1..n : M[i] \in S
    BY SortedFacts
  <1>6. \A i, j \in 1..n : i < j <=> M[i] < M[j]  BY SortedIncreases
  <1>7. \A x \in S : \E i \in 1..n : M[i] = x
    <2>1. ToSet(M) = S  BY SortedIsOnto
    <2> QED  BY <1>5, <2>1 DEF ToSet
  <1> HIDE DEF M, n
  <1>8. \A i \in 1..n : M[i] \in Nat  BY <1>5
  <1>9. start \in 0..n /\ D = 1..start
    <2>1. D \in SUBSET (1..n)  BY <1>4, <1>5
    <2>2. ASSUME NEW i \in D, NEW j \in 1..n, j < i PROVE j \in D
      <3>1. i \in 1..n /\ M[i] <= page  BY <1>4, <1>5
      <3>2. M[j] < M[i]  BY <1>6, <2>2, <3>1
      <3>3. M[j] <= page  BY <1>8, <3>1, <3>2
      <3> QED  BY <1>4, <1>5, <3>3
    <2> QED  BY <1>5, <2>1, <2>2, InitialSegment
  <1>10. \A i \in 1..n : M[i] <= page <=> i <= start
    <2> SUFFICES ASSUME NEW i \in 1..n PROVE M[i] <= page <=> i <= start  OBVIOUS
    <2>1. i \in D <=> M[i] <= page  BY <1>4, <1>5
    <2> HIDE DEF start
    <2>2. i \in 1..start <=> i <= start  BY <1>5, <1>9
    <2> QED  BY <1>9, <2>1, <2>2
  <1> HIDE DEF start
  <1>11. PICK end \in start..n :
           /\ p.rows \in Seq(Nat) /\ Len(p.rows) = end - start
           /\ \A i \in 1..(end - start) : p.rows[i] = M[start + i]
           /\ IF end < n THEN end > start /\ p.next = M[end] ELSE p.next = 0
    <2>1. start \in 0..Len(M)  BY <1>5, <1>9
    <2>2. PageOf(p, M, start, M)  BY <1>5, <2>1, PageFacts
    <2> HIDE DEF p
    <2> QED  BY <1>5, <2>2 DEF PageOf
  <1> HIDE DEF p
  <1>12. start \in Nat /\ end \in Nat /\ start <= end /\ end <= n  BY <1>5, <1>9, <1>11
  <1>13. end < n => p.next \in S /\ p.next \in Nat /\ p.next > page
    <2> SUFFICES ASSUME end < n PROVE p.next \in S /\ p.next \in Nat /\ p.next > page
      OBVIOUS
    <2>1. end \in 1..n /\ end > start /\ p.next = M[end]  BY <1>11, <1>12
    <2> QED  BY <1>5, <1>8, <1>10, <1>12, <2>1
  <1>14. p.next # 0 <=> end < n  BY <1>11, <1>13
  <1>15. p.next \in S \cup {0}  BY <1>11, <1>13
  <1> DEFINE all == got \o p.rows
             k == Len(got)
  <1>16. /\ k \in Nat /\ all \in Seq(Nat) /\ DOMAIN all = 1..(k + (end - start))
         /\ \A i \in 1..k : all[i] = got[i]
         /\ \A i \in (k + 1)..(k + (end - start)) : all[i] = p.rows[i - k]
         /\ DOMAIN got = 1..k
    <2>1. Len(p.rows) = end - start /\ p.rows \in Seq(Nat)  BY <1>11
    <2>2. /\ Len(got) \in Nat /\ all \in Seq(Nat)
          /\ DOMAIN all = 1..(Len(got) + Len(p.rows))
          /\ \A i \in 1..Len(got) : all[i] = got[i]
          /\ \A i \in (Len(got) + 1)..(Len(got) + Len(p.rows)) :
               all[i] = p.rows[i - Len(got)]
      BY <2>1, ConcatFacts
    <2>3. DOMAIN got = 1..Len(got)  OBVIOUS
    <2> HIDE DEF all
    <2> QED  BY <2>1, <2>2, <2>3
  <1> HIDE DEF all, k
  <1>17. \A i \in 1..k : all[i] \in Nat /\ all[i] <= page
    <2>1. \A i \in 1..k : got[i] \in Nat  BY <1>16
    <2> QED  BY <1>2, <1>16, <2>1
  <1>18. ASSUME NEW i \in (k + 1)..(k + (end - start))
         PROVE  /\ start + (i - k) \in (start + 1)..end /\ start + (i - k) \in 1..n
                /\ all[i] = M[start + (i - k)] /\ all[i] \in Nat /\ all[i] > page
    <2>1. i - k \in 1..(end - start)  BY <1>12, <1>16
    <2>2. start + (i - k) \in (start + 1)..end /\ start + (i - k) \in 1..n
      <3>1. k \in Nat /\ n \in Nat  BY <1>5, <1>16
      <3> DEFINE j == i - k
      <3>2. j \in 1..(end - start)  BY <2>1
      <3> HIDE DEF j
      <3>3. start + j \in (start + 1)..end /\ start + j \in 1..n  BY <1>12, <3>1, <3>2
      <3> QED  BY <3>3 DEF j
    <2>3. all[i] = M[start + (i - k)]  BY <1>11, <1>16, <2>1
    <2>4. M[start + (i - k)] \in Nat /\ ~(M[start + (i - k)] <= page)
      BY <1>8, <1>10, <1>12, <2>2
    <2> QED  BY <2>2, <2>3, <2>4
  <1>19. \A i \in DOMAIN all : i \in 1..k \/ i \in (k + 1)..(k + (end - start))
    BY <1>12, <1>16
  <1>20. IsInjective(all)
    <2> SUFFICES ASSUME NEW i \in DOMAIN all, NEW j \in DOMAIN all, all[i] = all[j] PROVE i = j
      BY DEF IsInjective
    <2>1. CASE i \in 1..k /\ j \in 1..k  BY <1>1, <1>16, <2>1 DEF IsInjective
    <2>2. CASE i \in 1..k /\ j \in (k + 1)..(k + (end - start))
      <3>1. all[i] <= page /\ all[j] > page /\ all[i] \in Nat
        BY <1>17, <1>18, <2>2
      <3> QED  BY <3>1
    <2>3. CASE j \in 1..k /\ i \in (k + 1)..(k + (end - start))
      <3>1. all[j] <= page /\ all[i] > page /\ all[i] \in Nat
        BY <1>17, <1>18, <2>3
      <3> QED  BY <3>1
    <2>4. CASE i \in (k + 1)..(k + (end - start)) /\ j \in (k + 1)..(k + (end - start))
      <3> DEFINE a == start + (i - k)
                 b == start + (j - k)
      <3>1. a \in 1..n /\ b \in 1..n /\ M[a] = M[b] /\ M[a] \in Nat
        BY <1>18, <2>4
      <3>2. a \in Nat /\ b \in Nat  BY <1>5, <3>1
      <3> HIDE DEF a, b
      <3>3. ~(a < b) /\ ~(b < a)  BY <1>6, <3>1
      <3>4. a = b  BY <3>2, <3>3
      <3>5. start + (i - k) = start + (j - k)  BY <3>4 DEF a, b
      <3> QED  BY <1>12, <1>16, <2>4, <3>5
    <2> QED  BY <1>19, <2>1, <2>2, <2>3, <2>4
  <1>21. \A x \in thr : (p.next # 0 => x <= p.next) => x \in ToSet(all)
    <2> SUFFICES ASSUME NEW x \in thr, p.next # 0 => x <= p.next PROVE x \in ToSet(all)
      OBVIOUS
    <2>1. x \in S /\ x \in Nat  OBVIOUS
    <2>2. CASE x <= page
      <3>1. x \in ToSet(got)  BY <1>3, <2>2
      <3>2. PICK i \in 1..k : got[i] = x  BY <1>16, <3>1 DEF ToSet
      <3>3. i \in DOMAIN all /\ all[i] = x  BY <1>12, <1>16, <3>2
      <3> QED  BY <3>3 DEF ToSet
    <2>3. CASE ~(x <= page)
      <3>1. PICK i \in 1..n : M[i] = x  BY <1>7, <2>1
      <3>2. i > start  BY <1>5, <1>10, <1>12, <2>3, <3>1
      <3>3. i <= end
        <4>1. CASE end < n
          <5>1. end \in 1..n /\ p.next = M[end]  BY <1>11, <1>12, <4>1
          <5>2. p.next \in Nat /\ x <= p.next  BY <1>13, <1>14, <4>1
          <5>3. ~(M[end] < M[i])  BY <2>1, <3>1, <5>1, <5>2
          <5>4. ~(end < i)  BY <1>6, <5>1, <5>3
          <5> QED  BY <1>5, <1>12, <5>4
        <4>2. CASE ~(end < n)  BY <1>5, <1>12, <4>2
        <4> QED  BY <4>1, <4>2
      <3> DEFINE j == k + (i - start)
      <3>4. j \in (k + 1)..(k + (end - start)) /\ j - k = i - start /\ start + (j - k) = i
        BY <1>5, <1>12, <1>16, <3>2, <3>3
      <3> HIDE DEF j
      <3>5. all[j] = x  BY <1>18, <3>1, <3>4
      <3>6. j \in DOMAIN all  BY <1>12, <1>16, <3>4
      <3> QED  BY <3>5, <3>6 DEF ToSet
    <2> QED  BY <2>2, <2>3
  <1>22. p.next # 0 => p.next > page  BY <1>13, <1>14
  <1>23. ASSUME p.next # 0, NEW i \in DOMAIN all PROVE all[i] <= p.next
    <2>1. end < n /\ end \in 1..n /\ p.next = M[end] /\ p.next \in Nat /\ p.next > page
      BY <1>11, <1>12, <1>13, <1>14, <1>23
    <2>2. CASE i \in 1..k  BY <1>17, <2>1, <2>2
    <2>3. CASE i \in (k + 1)..(k + (end - start))
      <3> DEFINE a == start + (i - k)
      <3>1. a \in 1..n /\ a <= end /\ all[i] = M[a] /\ a \in Nat
        BY <1>5, <1>12, <1>18, <2>3
      <3> HIDE DEF a
      <3>2. ~(end < a)  BY <1>12, <3>1
      <3>3. ~(M[end] < M[a])  BY <1>6, <2>1, <3>1, <3>2
      <3> QED  BY <1>8, <2>1, <3>1, <3>3
    <2> QED  BY <1>19, <2>2, <2>3
  <1>24. p.next = 0 => thr \subseteq ToSet(all)  BY <1>21
  <1>25. p.next # 0 => PassedByKey(all, thr, p.next)
    BY <1>20, <1>21, <1>23 DEF PassedByKey
  <1>26. AfterPage(p, got, thr, page)
    BY <1>11, <1>20, <1>22, <1>24, <1>25 DEF AfterPage, all
  <1> QED  BY <1>15, <1>26 DEF p, start, M

LEMMA ApplicationsPageStep ==
  ASSUME WalkInv, ProvisionInv, part = "walk", UNCHANGED part, walk.at = "walking", walk.honest,
         walk.listing = "applications",
         walk' = Turn(listApplications(walk.page, walk.query, walk.size)),
         UNCHANGED <<applications, scopeNodes, throughout>>
  PROVE  WalkInv'
  <1> DEFINE S == MatchedSet(walk, applications, scopeNodes)
             D == {i \in DOMAIN Sorted(S) : Sorted(S)[i] <= walk.page}
             p == PageFrom(Sorted(S), Cardinality(D), walk.size, Sorted(S))
             all == walk.all \o p.rows
  <1>1. /\ walk \in WalkType /\ scopeNodes \in NodeLists /\ ApplicationsSoFar
        /\ IsTable(applications, Slugs, Application) /\ IsInjective(walk.all)
        /\ throughout \in SUBSET S
    BY DEF WalkInv, ProvisionInv, ApplicationsInv, SoFar, WalkIsExact
  <1>2. walk.page \in Nat /\ walk.all \in Seq(Nat) /\ walk.size \in Nat \ {0}
    BY <1>1, WalkFields
  <1>3. S \in SUBSET Nat /\ 0 \notin S /\ IsFiniteSet(S) /\ S \subseteq Slugs
    BY <1>1, MatchedFacts
  <1>4. listApplications(walk.page, walk.query, walk.size) = p
    BY DEF listApplications, MatchedApplications, MatchedSet
  <1>5. PassedByKey(walk.all, throughout, walk.page)
    BY <1>1 DEF ApplicationsSoFar, PassedByKey
  <1> HIDE DEF S
  <1>6. D = {i \in DOMAIN Sorted(S) : Sorted(S)[i] <= walk.page}  OBVIOUS
  <1> HIDE DEF D
  <1>7. p.next \in S \cup {0} /\ AfterPage(p, walk.all, throughout, walk.page)
    BY <1>1, <1>2, <1>3, <1>5, <1>6, PageByKey
  <1> HIDE DEF p
  <1>8. /\ p.rows \in Seq(Nat) /\ IsInjective(all)
        /\ p.next # 0 => p.next > walk.page
        /\ p.next = 0 => throughout \subseteq ToSet(all)
        /\ p.next # 0 => PassedByKey(all, throughout, p.next)
    BY <1>7 DEF AfterPage
  <1> HIDE DEF all
  <1>9. p.next \in Tokens
    <2>1. 0 \in Tokens  BY TokenFacts, WalkAssumption
    <2> QED  BY <1>3, <1>7, <2>1, TokenFacts
  <1>10. ASSUME walk'.all = all, walk'.page = p.next, p.next # 0 PROVE ApplicationsSoFar'
    BY <1>8, <1>10 DEF ApplicationsSoFar, PassedByKey
  <1>11. walk' = Turn(p)  BY <1>4
  <1> QED  BY <1>8, <1>9, <1>10, <1>11, TurnKept DEF all

FirstRows(got, S) ==
  Len(got) <= Cardinality(S) /\ \A i \in 1..Len(got) : got[i] = Sorted(S)[i]
Offsets(S) == [end \in DOMAIN Sorted(S) |-> end]
AfterOffset(p, got, S) ==
  /\ p.rows \in Seq(Nat) /\ p.next \in 0..Cardinality(S)
  /\ FirstRows(got \o p.rows, S) /\ IsInjective(got \o p.rows)
  /\ p.next # 0 => p.next > Len(got) /\ p.next = Len(got \o p.rows)
  /\ p.next = 0 => S \subseteq ToSet(got \o p.rows)

\* One page of a listing paged by offset.
LEMMA PageByOffset ==
  ASSUME NEW S \in SUBSET Nat, IsFiniteSet(S), NEW size \in Nat \ {0}, NEW got \in Seq(Nat),
         FirstRows(got, S)
  PROVE  AfterOffset(PageFrom(Sorted(S), Len(got), size, Offsets(S)), got, S)
  <1> DEFINE M == Sorted(S)
             n == Cardinality(S)
             k == Len(got)
             p == PageFrom(M, k, size, Offsets(S))
  <1>1. /\ n \in Nat /\ M \in Seq(Nat) /\ Len(M) = n /\ DOMAIN M = 1..n
    BY SortedFacts
  <1>2. \A i, j \in 1..n : i < j <=> M[i] < M[j]  BY SortedIncreases
  <1>3. \A x \in S : \E i \in 1..n : M[i] = x
    <2>1. ToSet(M) = S  BY SortedIsOnto
    <2> QED  BY <1>1, <2>1 DEF ToSet
  <1>4. k \in Nat /\ k <= n /\ \A i \in 1..k : got[i] = M[i]  BY DEF FirstRows
  <1>5. \A end \in 1..n : Offsets(S)[end] = end  BY <1>1 DEF Offsets
  <1> HIDE DEF M, n
  <1>6. PICK end \in k..n :
          /\ p.rows \in Seq(Nat) /\ Len(p.rows) = end - k
          /\ \A i \in 1..(end - k) : p.rows[i] = M[k + i]
          /\ IF end < n THEN end > k /\ p.next = Offsets(S)[end] ELSE p.next = 0
    <2>1. k \in 0..Len(M)  BY <1>1, <1>4
    <2> HIDE DEF k
    <2>2. PageOf(p, M, k, Offsets(S))  BY <1>1, <2>1, PageFacts
    <2> HIDE DEF p
    <2> QED  BY <1>1, <2>2 DEF PageOf
  <1> HIDE DEF p
  <1>7. end \in Nat /\ k <= end /\ end <= n  BY <1>1, <1>4, <1>6
  <1>8. IF end < n THEN p.next = end /\ end > k ELSE p.next = 0
    <2>1. end < n => end \in 1..n /\ end > k  BY <1>4, <1>6, <1>7
    <2> QED  BY <1>5, <1>6, <2>1
  <1> DEFINE all == got \o p.rows
  <1>9. /\ all \in Seq(Nat) /\ Len(all) = k + Len(p.rows)
        /\ \A i \in 1..k : all[i] = got[i]
        /\ \A i \in (k + 1)..(k + Len(p.rows)) : all[i] = p.rows[i - k]
    BY <1>6, ConcatFacts
  <1> HIDE DEF all, k
  <1>10. Len(all) = end /\ DOMAIN all = 1..end  BY <1>4, <1>6, <1>7, <1>9
  <1>11. \A i \in 1..end : all[i] = M[i]
    <2> SUFFICES ASSUME NEW i \in 1..end PROVE all[i] = M[i]  OBVIOUS
    <2>1. CASE i \in 1..k  BY <1>4, <1>9, <2>1
    <2>2. CASE i \in (k + 1)..(k + Len(p.rows))
      <3> DEFINE j == i - k
      <3>1. j \in 1..(end - k) /\ k + j = i  BY <1>4, <1>6, <1>7, <2>2
      <3>2. all[i] = p.rows[j]  BY <1>9, <2>2
      <3> HIDE DEF j
      <3> QED  BY <1>6, <3>1, <3>2
    <2>3. i \in 1..k \/ i \in (k + 1)..(k + Len(p.rows))  BY <1>4, <1>6, <1>7
    <2> QED  BY <2>1, <2>2, <2>3
  <1>12. FirstRows(all, S)  BY <1>7, <1>10, <1>11 DEF FirstRows, M, n
  <1>13. IsInjective(all)
    <2> SUFFICES ASSUME NEW i \in 1..end, NEW j \in 1..end, all[i] = all[j] PROVE i = j
      BY <1>10 DEF IsInjective
    <2>1. i \in 1..n /\ j \in 1..n /\ M[i] = M[j]  BY <1>1, <1>7, <1>11
    <2>2. \A x \in 1..n : M[x] \in Nat  BY <1>1
    <2>3. ~(i < j) /\ ~(j < i)  BY <1>2, <2>1, <2>2
    <2> QED  BY <1>7, <2>3
  <1>14. p.next = 0 => S \subseteq ToSet(all)
    <2> SUFFICES ASSUME p.next = 0, NEW x \in S PROVE x \in ToSet(all)  OBVIOUS
    <2>1. end = n  BY <1>1, <1>4, <1>7, <1>8
    <2>2. PICK i \in 1..n : M[i] = x  BY <1>3
    <2>3. i \in DOMAIN all /\ all[i] = x  BY <1>10, <1>11, <2>1, <2>2
    <2> QED  BY <2>3 DEF ToSet
  <1>15. p.next \in 0..n /\ (p.next # 0 => p.next > k /\ p.next = Len(all))
    BY <1>1, <1>4, <1>7, <1>8, <1>10
  <1>16. AfterOffset(p, got, S)
    BY <1>6, <1>12, <1>13, <1>14, <1>15 DEF AfterOffset, all, n, k
  <1> QED  BY <1>16 DEF p, M, k

LEMMA NodesPageStep ==
  ASSUME WalkInv, ProvisionInv, part = "walk", UNCHANGED part, walk.at = "walking", walk.honest,
         walk.listing = "nodes", walk' = Turn(listScopeNodes(walk.page, walk.size)),
         UNCHANGED <<applications, scopeNodes, throughout>>
  PROVE  WalkInv'
  <1> DEFINE S == MatchedSet(walk, applications, scopeNodes)
             got == walk.all
             p == PageFrom(Sorted(S), Len(got), walk.size, Offsets(S))
             all == got \o p.rows
  <1>1. /\ walk \in WalkType /\ scopeNodes \in NodeLists /\ NodesSoFar
        /\ IsTable(applications, Slugs, Application) /\ throughout \subseteq S
    BY DEF WalkInv, ProvisionInv, ApplicationsInv, SoFar
  <1>2. walk.page \in Nat /\ walk.all \in Seq(Nat) /\ walk.size \in Nat \ {0}
    BY <1>1, WalkFields
  <1>3. S \in SUBSET Nat /\ IsFiniteSet(S) /\ Cardinality(S) <= MaxNodes
    BY <1>1, MatchedFacts
  <1>4. MatchedNodes(scopeNodes) = Sorted(S)  BY DEF MatchedNodes, MatchedSet
  <1> HIDE DEF S
  <1>5. Len(Sorted(S)) = Cardinality(S) /\ Cardinality(S) \in Nat  BY <1>3, SortedFacts
  <1>6. FirstRows(got, S) /\ walk.page = Len(got)
    BY <1>1, <1>4, <1>5 DEF NodesSoFar, FirstRows
  <1>7. Min({walk.page, Len(Sorted(S))}) = Len(got)
    <2>1. {walk.page, Len(Sorted(S))} \in SUBSET Nat  BY <1>2, <1>5
    <2> DEFINE m == Min({walk.page, Len(Sorted(S))})
    <2>2. m \in {walk.page, Len(Sorted(S))} /\ \A y \in {walk.page, Len(Sorted(S))} : m <= y
      BY <2>1, MinIsLeast
    <2> HIDE DEF m
    <2>3. walk.page <= Len(Sorted(S))  BY <1>5, <1>6 DEF FirstRows
    <2>4. m = walk.page  BY <1>2, <1>5, <2>2, <2>3
    <2> QED  BY <1>6, <2>4 DEF m
  <1>8. listScopeNodes(walk.page, walk.size) = p
    BY <1>4, <1>7 DEF listScopeNodes, Offsets
  <1>9. AfterOffset(p, got, S)  BY <1>2, <1>3, <1>6, PageByOffset
  <1> HIDE DEF p, got
  <1>10. /\ p.rows \in Seq(Nat) /\ p.next \in 0..Cardinality(S)
         /\ FirstRows(all, S) /\ IsInjective(all)
         /\ p.next # 0 => p.next > Len(got) /\ p.next = Len(all)
         /\ p.next = 0 => S \subseteq ToSet(all)
    BY <1>9 DEF AfterOffset
  <1> HIDE DEF all
  <1>11. p.next \in Tokens
    <2>1. p.next \in 0..(MaxNodes + MaxTokens)  BY <1>3, <1>5, <1>10, WalkAssumption
    <2> QED  BY <2>1, TokenFacts
  <1>12. p.next = 0 => throughout \subseteq ToSet(all)  BY <1>1, <1>10
  <1>13. p.next # 0 => p.next > walk.page  BY <1>6, <1>10
  <1>14. MatchedNodes(scopeNodes)' = Sorted(S)
    BY <1>4 DEF MatchedNodes
  <1>15. ASSUME walk'.all = all, walk'.page = p.next, p.next # 0 PROVE NodesSoFar'
    <2>1. Len(all) <= Len(Sorted(S)) /\ \A i \in 1..Len(all) : all[i] = Sorted(S)[i]
      BY <1>5, <1>10 DEF FirstRows
    <2> QED  BY <1>10, <1>14, <1>15, <2>1 DEF NodesSoFar
  <1>16. walk' = Turn(p)  BY <1>8
  <1> QED  BY <1>10, <1>11, <1>12, <1>13, <1>15, <1>16, TurnKept DEF all, got

\* A server that is not the fake hands out what tokens it likes, and no rows.
LEMMA OtherServerStep ==
  ASSUME WalkInv, part = "walk", UNCHANGED part, walk.at = "walking", ~walk.honest,
         NEW next \in 0..MaxTokens, walk' = Turn([rows |-> <<>>, next |-> next]),
         UNCHANGED <<applications, scopeNodes, throughout>>
  PROVE  WalkInv'
  <1> DEFINE p == [rows |-> <<>>, next |-> next]
  <1>1. walk \in WalkType /\ scopeNodes \in NodeLists
        /\ throughout \subseteq MatchedSet(walk, applications, scopeNodes)
    BY DEF WalkInv
  <1>2. p.rows \in Seq(Nat) /\ p.next = next  OBVIOUS
  <1>3. next \in Tokens
    <2>1. next \in 0..(MaxNodes + MaxTokens)  BY WalkAssumption
    <2> QED  BY <2>1, TokenFacts
  <1>4. walk' = Turn(p)  OBVIOUS
  <1> HIDE DEF p
  <1>5. /\ walk' \in WalkType /\ walk'.listing = walk.listing /\ walk'.query = walk.query
        /\ walk'.honest = walk.honest
        /\ walk'.at \in {"done", "too many", "repeated", "walking"}
    BY <1>1, <1>2, <1>3, <1>4, TurnFacts
  <1>6. ~walk'.honest  BY <1>5
  <1>7. walk'.listing # "applications"  BY <1>5 DEF WalkInv
  <1>8. throughout' \subseteq MatchedSet(walk', applications', scopeNodes')
    BY <1>1, <1>5 DEF MatchedSet
  <1>9. WalkIsExact'  BY <1>6 DEF WalkIsExact
  <1> QED  BY <1>1, <1>5, <1>6, <1>7, <1>8, <1>9 DEF WalkInv

LEMMA PageFailsStep ==
  ASSUME WalkInv, part = "walk", UNCHANGED part, PageFails
  PROVE  WalkInv'
  <1>1. walk \in WalkType /\ walk.at = "walking"  BY DEF WalkInv, PageFails
  <1>2. walk' = [walk EXCEPT !.at = "failed"] /\ UNCHANGED <<scopeNodes, throughout>>
    BY DEF PageFails
  <1>3. /\ walk' \in WalkType /\ walk'.at = "failed" /\ walk'.listing = walk.listing
        /\ walk'.query = walk.query /\ walk'.honest = walk.honest /\ walk'.all = walk.all
    BY <1>1, <1>2 DEF WalkType
  <1>4. UNCHANGED applications  BY DEF PageFails, provisionVars, tables
  <1>5. throughout' \subseteq MatchedSet(walk', applications', scopeNodes')
    BY <1>2, <1>3, <1>4 DEF WalkInv, MatchedSet
  <1>6. WalkIsExact'  BY <1>1, <1>3 DEF WalkInv, WalkIsExact
  <1> QED  BY <1>2, <1>3, <1>5, <1>6 DEF WalkInv

LEMMA WalkStep ==
  ASSUME WalkInv, ProvisionInv, ProvisionInv', [Next]_vars
  PROVE  WalkInv'
  <1>1. CASE Walk
    <2>1. part = "walk" /\ UNCHANGED part /\ WalkNext  BY <1>1 DEF Walk
    <2>2. CASE BeginWalk  BY <2>1, <2>2, BeginWalkStep
    <2>3. CASE NextPage
      <3>1. walk.at = "walking" /\ UNCHANGED <<provisionVars, scopeNodes, throughout>>
        BY <2>3 DEF NextPage
      <3>2. UNCHANGED <<applications, scopeNodes, throughout>>
        BY <3>1 DEF provisionVars, tables
      <3>3. CASE walk.honest /\ walk.listing = "applications"
        <4>1. walk' = Turn(listApplications(walk.page, walk.query, walk.size))
          BY <2>3, <3>3 DEF NextPage
        <4> QED  BY <2>1, <3>1, <3>2, <3>3, <4>1, ApplicationsPageStep
      <3>4. CASE walk.honest /\ walk.listing = "nodes"
        <4>1. walk' = Turn(listScopeNodes(walk.page, walk.size))
          BY <2>3, <3>4 DEF NextPage
        <4> QED  BY <2>1, <3>1, <3>2, <3>4, <4>1, NodesPageStep
      <3>5. CASE ~walk.honest
        <4>1. PICK next \in 0..MaxTokens : walk' = Turn([rows |-> <<>>, next |-> next])
          BY <2>3, <3>5 DEF NextPage
        <4> QED  BY <2>1, <3>1, <3>2, <3>5, <4>1, OtherServerStep
      <3>6. walk.listing \in Listings  BY DEF WalkInv, WalkType
      <3> QED  BY <3>3, <3>4, <3>5, <3>6 DEF Listings
    <2>4. ASSUME NEW matches \in BOOLEAN, AddScopeNode(matches)  PROVE WalkInv'
      BY <2>1, <2>4, AddScopeNodeStep
    <2>5. CASE walk.listing = "applications" /\ UNCHANGED <<scopeNodes, walk>> /\ StillMatched
      <3>1. scopeNodes' \in NodeLists  BY <2>5 DEF WalkInv
      <3>2. walk.listing # "nodes"  BY <2>5
      <3> QED  BY <2>1, <2>5, <3>1, <3>2, StillMatchedKept
    <2>6. CASE PageFails  BY <2>1, <2>6, PageFailsStep
    <2> QED  BY <2>1, <2>2, <2>3, <2>4, <2>5, <2>6 DEF WalkNext
  <1>2. CASE Configure
    <2>1. walk.at = "idle" /\ UNCHANGED <<walkVars, part>>  BY <1>2 DEF Configure, WalkInv
    <2> QED  BY <2>1, IdleKept
  <1>3. CASE Catalog
    <2>1. UNCHANGED <<walkVars, part>> /\ UNCHANGED applications
      BY <1>3 DEF Catalog, provisionVars, tables
    <2> QED  BY <2>1, IdleKept
  <1>4. CASE UNCHANGED vars
    <2>1. UNCHANGED <<walkVars, part>> /\ UNCHANGED applications
      BY <1>4 DEF vars, provisionVars, tables
    <2> QED  BY <2>1, IdleKept
  <1> QED  BY <1>1, <1>2, <1>3, <1>4 DEF Next

LEMMA WalkInvariant == Spec => [](ProvisionInv /\ WalkInv)
  <1>1. Init => ProvisionInv /\ WalkInv  BY ProvisionInvHolds, WalkInvHolds
  <1>2. ProvisionInv /\ WalkInv /\ [Next]_vars => (ProvisionInv /\ WalkInv)'
    BY ProvisionStep, WalkStep
  <1> QED  BY <1>1, <1>2, PTL DEF Spec

\* Every walk of the fake is exact, over any number of rows, at any page size
\* and whatever is added or renamed meanwhile: it returns every row that
\* matched throughout, none twice, and never meets a token it has followed
\* (admin/admin.go:634-665, anubistest/provision.go:296-348,
\* anubistest/admin.go:231-296).
THEOREM WalksAreExact == Spec => []WalkIsExact
  <1>1. ProvisionInv /\ WalkInv => WalkIsExact  BY DEF WalkInv
  <1> QED  BY <1>1, WalkInvariant, PTL

LEMMA PartChosen == Spec => [](part \in Parts)
  <1>1. Init => part \in Parts  BY DEF Init
  <1>2. part \in Parts /\ [Next]_vars => (part \in Parts)'
    BY DEF Next, Configure, Walk, Catalog, vars
  <1> QED  BY <1>1, <1>2, PTL DEF Spec

\* The tables are sound whatever operators do in whatever order: rows have
\* their types, no secret is shown and no id given twice, though tests put rows
\* ahead of the counter, and a source's runs agree with its status
\* (anubistest/provision.go:612-626, anubistest/adminconfig.go:302-346).
THEOREM TablesStaySound == Spec => []TablesAreSound
  <1>1. ASSUME ProvisionInv, WalkInv, ManifestInv, part \in Parts  PROVE TablesAreSound
    <2>1. ProvisionTypeOK
      BY <1>1 DEF ProvisionInv, ProvisionTypeOK, TenantsInv, ApplicationsInv, SourcesInv
    <2>2. WalkTypeOK
      <3>1. walk \in WalkType /\ scopeNodes \in NodeLists  BY <1>1 DEF WalkInv
      <3>2. IsTable(applications, Slugs, Application)
        BY <1>1 DEF ProvisionInv, ApplicationsInv
      <3>3. MatchedSet(walk, applications, scopeNodes) \in SUBSET Nat
        BY <3>1, <3>2, MatchedFacts
      <3>4. throughout \subseteq Nat  BY <1>1, <3>3 DEF WalkInv
      <3>5. /\ walk.at \in {"idle", "walking", "done", "too many", "repeated", "failed"}
            /\ walk.listing \in Listings /\ walk.query \in BOOLEAN /\ walk.honest \in BOOLEAN
            /\ walk.size \in PageSizes \cup {1}
            /\ walk.page \in Tokens /\ walk.seen \subseteq Tokens
            /\ walk.all \in Seq(Nat)
        BY <3>1 DEF WalkType
      <3> QED  BY <3>1, <3>4, <3>5 DEF WalkTypeOK, NodeLists
    <2>3. TypeOK  BY <1>1, <2>1, <2>2 DEF TypeOK, ManifestInv
    <2>4. SecretsShownOnce /\ RunsAgreeWithStatus  BY <1>1 DEF ProvisionInv, ShownInv, SourcesInv
    <2>5. RowsAreIdentified
      BY <1>1 DEF ProvisionInv, TenantsInv, ApplicationsInv, RowsAreIdentified
    <2> QED  BY <2>3, <2>4, <2>5 DEF TablesAreSound
  <1>2. ProvisionInv /\ WalkInv /\ ManifestInv /\ part \in Parts => TablesAreSound  BY <1>1
  <1> QED  BY <1>2, WalkInvariant, ManifestInvariant, PartChosen, PTL
=====
