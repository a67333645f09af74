---------------------------- MODULE Authorization ----------------------------
(***************************************************************************)
(* Package authorization: the permission catalog, the role-based           *)
(* Authorizer, the delegation rule CanGrant, the deprecated Evaluator, and *)
(* the in-memory store of package memstore.                                *)
(*                                                                         *)
(* roles[o] maps the role keys of organization o to their permissions;     *)
(* assigned[o][s] holds the roles of subject s there, each with a scope:   *)
(* OrgWide (Scope.Type is "") or one resource of the one scope type.       *)
(***************************************************************************)
EXTENDS FiniteSets, Naturals

CONSTANTS Orgs, Subjects,
          RoleKeys,
          Permissions,
          Catalog,      \* the declared permissions
          ScopeIDs,     \* the resources that an assignment can be limited to
          OrgWide,      \* the zero Scope
          NoOrg,        \* no organization: the empty OrgID, uuid.Nil
          MaxChanges    \* bound on changes of the store

ASSUME CatalogAssumption == Catalog \subseteq Permissions
ASSUME ScopesAssumption == OrgWide \notin ScopeIDs
ASSUME OrgsAssumption == NoOrg \notin Orgs
ASSUME ChangesAssumption == MaxChanges \in Nat

VARIABLES roles, assigned, changes

storeVars == <<roles, assigned, changes>>

Scopes == ScopeIDs \cup {OrgWide}
Grants == [role : RoleKeys, scope : Scopes]

\* The role maps an organization can have, unknown role keys left out.
RoleMaps == UNION {[K -> SUBSET Permissions] : K \in SUBSET RoleKeys}

StoreTypeOK ==
  /\ DOMAIN roles = Orgs /\ \A o \in Orgs : /\ DOMAIN roles[o] \subseteq RoleKeys
                                            /\ \A k \in DOMAIN roles[o] : roles[o][k] \subseteq Permissions
  /\ assigned \in [Orgs -> [Subjects -> SUBSET Grants]]
  /\ changes \in 0 .. MaxChanges
-----------------------------------------------------------------------------
(***************************************************************************)
(* rbac.go.  A decision is taken on a role map R and a subject's grants A  *)
(* that were read for one organization.                                    *)
(***************************************************************************)
\* The grants in A of a known role that holds the permission.
Holding(R, A, permission) == {g \in A : g.role \in DOMAIN R /\ permission \in R[g.role]}

assignmentApplies(scope, scopes) == scope = OrgWide \/ scope \in scopes

\* Those of them that apply to a resource that lists the scopes.
Applying(R, A, permission, scopes) ==
  {g \in Holding(R, A, permission) : assignmentApplies(g.scope, scopes)}

\* Check once both lists are read.
Granted(R, A, permission, scopes) ==
  /\ permission \in Catalog
  /\ Applying(R, A, permission, scopes) # {}

\* The bug of listing scopes for permissions outside the catalog.
AllowedScopesUncatalogued(R, A, permission) ==
  LET held == {g.scope : g \in Holding(R, A, permission)}
  IN [all |-> OrgWide \in held, ids |-> IF OrgWide \in held THEN {} ELSE held]

AllowedScopes(R, A, permission) ==
  LET held == IF permission \in Catalog THEN {g.scope : g \in Holding(R, A, permission)} ELSE {}
  IN [all |-> OrgWide \in held, ids |-> IF OrgWide \in held THEN {} ELSE held]

\* The bug of accepting one permission of the role for all of them.
CanGrantAny(A, R, target) ==
  /\ target.role \in DOMAIN R
  /\ \E permission \in R[target.role] :
       \E g \in Holding(R, A, permission) : g.scope \in {OrgWide, target.scope}

\* The granter's grants A are those of the target's organization.
CanGrant(A, R, target) ==
  /\ target.role \in DOMAIN R
  /\ \A permission \in R[target.role] :
       \E g \in Holding(R, A, permission) : g.scope \in {OrgWide, target.scope}

\* catalog.go: what a module's seeded or submitted roles must satisfy.
ValidateRoles(R) == \A k \in DOMAIN R : R[k] \subseteq Catalog

\* policy.go: NewEvaluator accepts the map as a policy, and what it then allows.
NewEvaluator(R) == DOMAIN R # {} /\ \A k \in DOMAIN R : R[k] # {}

Allows(R, keys, permission) == \E k \in keys : k \in DOMAIN R /\ permission \in R[k]
-----------------------------------------------------------------------------
(***************************************************************************)
(* memstore.go: each operation holds the store's mutex.  A product's       *)
(* administrators call the first four as they like.                        *)
(***************************************************************************)
Changed == changes < MaxChanges /\ changes' = changes + 1

SetRoles(o, R) ==
  /\ roles' = [roles EXCEPT ![o] = R]
  /\ UNCHANGED assigned
  /\ Changed

AddRole(o, k, permissions) ==
  /\ roles' = [roles EXCEPT ![o] = [j \in DOMAIN @ \cup {k} |->
                                      IF j = k THEN permissions ELSE @[j]]]
  /\ UNCHANGED assigned
  /\ Changed

SetAssignments(o, s, A) ==
  /\ assigned' = [assigned EXCEPT ![o][s] = A]
  /\ UNCHANGED roles
  /\ Changed

AddAssignment(o, s, g) ==
  /\ assigned' = [assigned EXCEPT ![o][s] = @ \cup {g}]
  /\ UNCHANGED roles
  /\ Changed

\* A product hands out a role for one of its users, in one transaction of its
\* own: it asks CanGrant and adds the assignment.
Grant(o, granter, s, g) ==
  /\ CanGrant(assigned[o][granter], roles[o], g)
  /\ AddAssignment(o, s, g)
=============================================================================
