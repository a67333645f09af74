----------------------------- MODULE AccessProofs -----------------------------
(***************************************************************************)
(* Proofs about what a product's request may do: about Authorization and   *)
(* Access, for any organizations, subjects, roles, permissions and scopes, *)
(* and any number of requests, connections and changes of the store; and   *)
(* about ApiTokens, for any users, tokens, prefixes and callers.  The two  *)
(* specifications share no state.                                          *)
(***************************************************************************)
EXTENDS Access, ApiTokens, WellFoundedInduction, TLAPS
-----------------------------------------------------------------------------
(***************************************************************************)
(* What holds of the store at every moment, by the definitions alone.      *)
(***************************************************************************)

\* AllowedScopes and Check agree on every store.
THEOREM ScopesAgree == Spec => []AllowedScopesAgree
<1>1. AllowedScopesAgree
  <2> SUFFICES ASSUME NEW o \in Orgs, NEW s \in Subjects, NEW p \in Permissions,
                      NEW i \in ScopeIDs
               PROVE  LET found == AllowedScopes(roles[o], assigned[o][s], p)
                      IN (found.all \/ i \in found.ids)
                           <=> Granted(roles[o], assigned[o][s], p, {i})
    BY Zenon DEF AllowedScopesAgree
  <2> DEFINE A == Holding(roles[o], assigned[o][s], p)
             held == IF p \in Catalog THEN {g.scope : g \in A} ELSE {}
             found == AllowedScopes(roles[o], assigned[o][s], p)
  <2>1. found.all = (OrgWide \in held)
        /\ found.ids = IF OrgWide \in held THEN {} ELSE held
    BY DEF AllowedScopes
  <2>2. found.all \/ i \in found.ids <=> OrgWide \in held \/ i \in held
    BY Zenon, <2>1
  <2>3. Granted(roles[o], assigned[o][s], p, {i})
          <=> p \in Catalog /\ \E g \in A : g.scope = OrgWide \/ g.scope = i
    BY DEF Granted, Applying, assignmentApplies
  <2> HIDE DEF A
  <2>4. OrgWide \in held \/ i \in held
          <=> p \in Catalog /\ \E g \in A : g.scope = OrgWide \/ g.scope = i
    OBVIOUS
  <2> QED  BY <2>2, <2>3, <2>4
<1> QED  BY <1>1, PTL

\* The deprecated Evaluator allows what Check grants on the whole organization,
\* on every store.
THEOREM EvaluatorIsCheck == Spec => []EvaluatorAgrees
<1>1. EvaluatorAgrees
  <2> SUFFICES ASSUME NEW o \in Orgs, NEW s \in Subjects, NEW p \in Permissions,
                      p \in Catalog \/ ValidateRoles(roles[o])
               PROVE  Allows(roles[o], {g.role : g \in {a \in assigned[o][s] : a.scope = OrgWide}}, p)
                        <=> Granted(roles[o], assigned[o][s], p, {})
    BY Zenon DEF EvaluatorAgrees
  <2> DEFINE R == roles[o]
             A == assigned[o][s]
  <2>1. Granted(R, A, p, {})
          <=> p \in Catalog /\ \E g \in A : g.role \in DOMAIN R /\ p \in R[g.role]
                                            /\ g.scope = OrgWide
    BY DEF Granted, Applying, Holding, assignmentApplies
  <2>2. Allows(R, {g.role : g \in {a \in A : a.scope = OrgWide}}, p)
          <=> \E g \in A : g.role \in DOMAIN R /\ p \in R[g.role] /\ g.scope = OrgWide
    BY DEF Allows
  <2>3. (\E k \in DOMAIN R : p \in R[k]) => p \in Catalog
    BY DEF ValidateRoles
  <2> QED  BY <2>1, <2>2, <2>3
<1> QED  BY <1>1, PTL

LEMMA StoreKept == StoreTypeOK /\ [Next]_vars => StoreTypeOK'
<1> SUFFICES ASSUME StoreTypeOK, [Next]_vars PROVE StoreTypeOK'
  OBVIOUS
<1>1. /\ DOMAIN roles = Orgs
      /\ \A o \in Orgs : /\ DOMAIN roles[o] \subseteq RoleKeys
                         /\ \A k \in DOMAIN roles[o] : roles[o][k] \subseteq Permissions
      /\ assigned \in [Orgs -> [Subjects -> SUBSET Grants]]
      /\ changes \in 0 .. MaxChanges
  BY DEF StoreTypeOK
<1>2. CASE UNCHANGED storeVars
  BY <1>2 DEF StoreTypeOK, storeVars
<1>3. CASE RolesNext
  <2>1. changes' \in 0 .. MaxChanges /\ UNCHANGED assigned
    <3>1. Changed /\ UNCHANGED assigned
      BY <1>3, Zenon DEF RolesNext, SetRoles, AddRole
    <3> QED  BY <1>1, <3>1, ChangesAssumption DEF Changed
  <2>2. PICK o \in Orgs : \/ \E R \in RoleMaps : SetRoles(o, R)
                          \/ \E k \in RoleKeys, ps \in SUBSET Permissions : AddRole(o, k, ps)
    BY <1>3 DEF RolesNext
  <2>3. ASSUME NEW R \in RoleMaps, SetRoles(o, R)
        PROVE  StoreTypeOK'
    <3>1. DOMAIN R \subseteq RoleKeys /\ \A k \in DOMAIN R : R[k] \subseteq Permissions
      BY DEF RoleMaps
    <3> QED  BY <1>1, <2>1, <2>3, <3>1 DEF SetRoles, StoreTypeOK
  <2>4. ASSUME NEW k \in RoleKeys, NEW ps \in SUBSET Permissions, AddRole(o, k, ps)
        PROVE  StoreTypeOK'
    <3> DEFINE R == [j \in DOMAIN roles[o] \cup {k} |-> IF j = k THEN ps ELSE roles[o][j]]
    <3>1. roles' = [roles EXCEPT ![o] = R]
      BY <2>4 DEF AddRole
    <3>2. DOMAIN R \subseteq RoleKeys /\ \A j \in DOMAIN R : R[j] \subseteq Permissions
      BY <1>1
    <3> HIDE DEF R
    <3> QED  BY <1>1, <2>1, <3>1, <3>2 DEF StoreTypeOK
  <2> QED  BY <2>2, <2>3, <2>4
<1>4. CASE AssignmentsNext
  <2>1. changes' \in 0 .. MaxChanges /\ UNCHANGED roles
    BY <1>1, <1>4, ChangesAssumption
       DEF AssignmentsNext, SetAssignments, AddAssignment, Grant, Changed
  <2>2. PICK o \in Orgs, s \in Subjects :
          \/ \E A \in SUBSET Grants : SetAssignments(o, s, A)
          \/ \E g \in Grants : AddAssignment(o, s, g)
    BY <1>4 DEF AssignmentsNext, Grant
  <2>3. assigned' \in [Orgs -> [Subjects -> SUBSET Grants]]
    BY <1>1, <2>2 DEF SetAssignments, AddAssignment
  <2> QED  BY <1>1, <2>1, <2>3 DEF StoreTypeOK
<1>5. ASSUME NEW r \in Requests, RequestNext(r)
      PROVE  UNCHANGED storeVars
  BY Zenon, <1>5 DEF RequestNext, RequireOrg, Unguarded, BeginTx, SetLocalOrg, EndTx, ReadRoles,
              ReadAssignments, ReadFails
<1>6. UNCHANGED vars => UNCHANGED storeVars
  BY DEF vars, storeVars
<1> QED  BY <1>2, <1>3, <1>4, <1>5, <1>6 DEF Next

LEMMA StoreTyped == Spec => []StoreTypeOK
<1>1. Init => StoreTypeOK
  BY CatalogAssumption, ChangesAssumption DEF Init, StoreTypeOK, Grants
<1> QED  BY <1>1, StoreKept, PTL DEF Spec

\* A grant that CanGrant lets through hands on nothing that neither the receiver
\* nor the granter held, on resources with any scopes.
THEOREM GrantsNeverAmplify == Spec => NoAmplification
<1>1. ASSUME NEW o \in Orgs, NEW granter \in Subjects, NEW s \in Subjects,
             NEW g \in assigned'[o][s] \ assigned[o][s],
             StoreTypeOK, Grant(o, granter, s, g),
             NEW p \in Permissions, NEW scopes \in SUBSET ScopeIDs,
             Applying(roles[o], assigned'[o][s], p, scopes) # {}
      PROVE  \E u \in {s, granter} : Applying(roles[o], assigned[o][u], p, scopes) # {}
  <2>1. assigned'[o][s] = assigned[o][s] \cup {g}
    BY <1>1 DEF StoreTypeOK, Grant, AddAssignment
  <2>2. PICK h \in assigned[o][s] \cup {g} :
          /\ h.role \in DOMAIN roles[o] /\ p \in roles[o][h.role]
          /\ h.scope = OrgWide \/ h.scope \in scopes
    BY <1>1, <2>1 DEF Applying, Holding, assignmentApplies
  <2>3. CASE h \in assigned[o][s]
    BY <2>2, <2>3 DEF Applying, Holding, assignmentApplies
  <2>4. CASE h = g
    <3>1. PICK a \in Holding(roles[o], assigned[o][granter], p) :
            a.scope = OrgWide \/ a.scope = g.scope
      BY <1>1, <2>2, <2>4 DEF Grant, CanGrant
    <3>2. a \in Applying(roles[o], assigned[o][granter], p, scopes)
      BY <2>2, <2>4, <3>1 DEF Applying, assignmentApplies
    <3> QED  BY <3>2
  <2> QED  BY <2>2, <2>3, <2>4
<1>2. StoreTypeOK /\ [Next]_vars =>
        [\A o \in Orgs, granter, s \in Subjects : \A g \in assigned'[o][s] \ assigned[o][s] :
           Grant(o, granter, s, g) =>
             \A p \in Permissions, scopes \in SUBSET ScopeIDs :
               Applying(roles[o], assigned'[o][s], p, scopes) # {} =>
                 \E u \in {s, granter} : Applying(roles[o], assigned[o][u], p, scopes) # {}]_vars
  BY <1>1
<1> QED  BY <1>2, StoreTyped, PTL DEF Spec, NoAmplification
-----------------------------------------------------------------------------
(***************************************************************************)
(* The requests and their connections.                                     *)
(***************************************************************************)
Fields == {"pc", "claim", "org", "subject", "ask", "read", "granted"}
ConnRecords == [by : SUBSET Requests, session : Orgs \cup {NoOrg}, local : Orgs \cup {NoOrg}]

InTx(r) == req[r].pc \notin {"none", "handler"}

\* The organization in the context is the one of the claims; a connection serves
\* one transaction and a transaction has one connection; and what is set is set
\* for the transaction.
TenancyInv ==
  /\ DOMAIN req = Requests /\ \A r \in Requests : DOMAIN req[r] = Fields
  /\ \A r \in Requests :
       req[r].org # NoOrg => req[r].claim \in Claims /\ req[r].org = resolveOrg(req[r].claim)
  /\ conn \in [Conns -> ConnRecords]
  /\ \A c \in Conns : \A r \in conn[c].by : InTx(r) /\ conn[c].by = {r}
  /\ \A c, d \in Conns : conn[c].by \cap conn[d].by # {} => c = d
  /\ \A c \in Conns :
       /\ conn[c].session = NoOrg
       /\ conn[c].local # NoOrg => \E r \in conn[c].by : conn[c].local = req[r].org

LEMMA Resolved ==
  ASSUME NEW claim \in Claims, resolveOrg(claim) # NoOrg
  PROVE  \/ resolveOrg(claim) = claim
         \/ claim = NoOrg /\ resolveOrg(claim) = FallbackOrg
  BY OrgsAssumption, MalformedAssumption DEF resolveOrg, Claims

\* Steps that leave the claims, the organization and the transaction of every
\* request alone.
LEMMA TenancyStays ==
  ASSUME TenancyInv, UNCHANGED conn, DOMAIN req' = Requests,
         \A r \in Requests : /\ DOMAIN req'[r] = Fields
                             /\ req'[r].org = req[r].org /\ req'[r].claim = req[r].claim
                             /\ InTx(r) => InTx(r)'
  PROVE  TenancyInv'
<1>1. \A c \in Conns : conn[c].by \subseteq Requests
  BY DEF TenancyInv, ConnRecords
<1> QED  BY <1>1 DEF TenancyInv

LEMMA TenancyKept == TenancyInv /\ [Next]_vars => TenancyInv'
<1> SUFFICES ASSUME TenancyInv, [Next]_vars PROVE TenancyInv'
  OBVIOUS
<1>1. /\ DOMAIN req = Requests /\ \A r \in Requests : DOMAIN req[r] = Fields
      /\ conn \in [Conns -> ConnRecords]
      /\ \A c \in Conns : conn[c].by \subseteq Requests
  BY DEF TenancyInv, ConnRecords
<1>2. CASE UNCHANGED <<req, conn>>
  BY <1>2 DEF TenancyInv, InTx
<1>3. UNCHANGED vars \/ RolesNext \/ AssignmentsNext => UNCHANGED <<req, conn>>
  BY DEF vars, RolesNext, AssignmentsNext, Watched
<1>4. ASSUME NEW r \in Requests, RequestNext(r)
      PROVE  TenancyInv'
  <2>1. ASSUME NEW s \in Subjects, NEW claim \in Claims, RequireOrg(r, claim, s)
        PROVE  TenancyInv'
    <3>1. /\ req[r] = None /\ UNCHANGED conn
          /\ req' = [req EXCEPT ![r].pc = "handler", ![r].claim = claim, ![r].subject = s,
                                ![r].org = resolveOrg(claim)]
      BY <2>1 DEF RequireOrg
    <3>2. ~ InTx(r)
      BY <3>1 DEF InTx, None
    <3>3. \A q \in Requests : /\ DOMAIN req'[q] = Fields
                              /\ q # r => req'[q] = req[q]
      BY <1>1, <3>1
    <3>4. req'[r].claim = claim /\ req'[r].org = resolveOrg(claim)
      BY <1>1, <3>1 DEF Fields
    <3>5. DOMAIN req' = Requests
      BY <1>1, <3>1
    <3> QED  BY <1>1, <3>1, <3>2, <3>3, <3>4, <3>5 DEF TenancyInv, InTx
  <2>2. ASSUME NEW s \in Subjects, Unguarded(r, s)
        PROVE  TenancyInv'
    <3>1. /\ req[r] = None /\ UNCHANGED conn
          /\ req' = [req EXCEPT ![r].pc = "handler", ![r].subject = s]
      BY <2>2 DEF Unguarded
    <3>2. ~ InTx(r)
      BY <3>1 DEF InTx, None
    <3>3. \A q \in Requests : /\ DOMAIN req'[q] = Fields
                              /\ q # r => req'[q] = req[q]
                              /\ req'[q].org = req[q].org /\ req'[q].claim = req[q].claim
      BY <1>1, <3>1 DEF Fields
    <3>4. DOMAIN req' = Requests
      BY <1>1, <3>1
    <3>5. \A q \in Requests : InTx(q) => InTx(q)'
      BY <3>2, <3>3 DEF InTx
    <3> QED  BY <3>1, <3>3, <3>4, <3>5, TenancyStays
  <2>3. ASSUME NEW c \in Conns, BeginTx(r, c)
        PROVE  TenancyInv'
    <3>1. /\ req[r].pc = "handler" /\ conn[c].by = {}
          /\ req' = [req EXCEPT ![r].pc = "tx"]
          /\ conn' = [conn EXCEPT ![c].by = {r}]
      BY <2>3 DEF BeginTx
    <3>2. \A q \in Requests : /\ DOMAIN req'[q] = Fields
                              /\ req'[q].org = req[q].org /\ req'[q].claim = req[q].claim
                              /\ req'[q].pc = IF q = r THEN "tx" ELSE req[q].pc
      BY <1>1, <3>1 DEF Fields
    <3>3. conn' \in [Conns -> ConnRecords]
      BY <1>1, <3>1 DEF ConnRecords
    <3>4. \A d \in Conns : /\ conn'[d].by = IF d = c THEN {r} ELSE conn[d].by
                           /\ conn'[d].session = conn[d].session
                           /\ conn'[d].local = conn[d].local
      BY <1>1, <3>1 DEF ConnRecords
    <3>5. \A d \in Conns : r \notin conn[d].by
      BY <3>1 DEF TenancyInv, InTx
    <3>6. conn[c].local = NoOrg
      BY <3>1 DEF TenancyInv
    <3>7. DOMAIN req' = Requests
      BY <1>1, <3>1
    <3>8. \A d \in Conns : \A q \in conn'[d].by : InTx(q)' /\ conn'[d].by = {q}
      BY <1>1, <3>2, <3>4 DEF TenancyInv, InTx
    <3>9. \A d, f \in Conns : conn'[d].by \cap conn'[f].by # {} => d = f
      BY <3>4, <3>5 DEF TenancyInv
    <3>10. \A d \in Conns :
             /\ conn'[d].session = NoOrg
             /\ conn'[d].local # NoOrg => \E q \in conn'[d].by : conn'[d].local = req'[q].org
      BY <1>1, <3>2, <3>4, <3>6 DEF TenancyInv
    <3>11. \A q \in Requests :
             /\ DOMAIN req'[q] = Fields
             /\ req'[q].org # NoOrg => req'[q].claim \in Claims
                                       /\ req'[q].org = resolveOrg(req'[q].claim)
      BY <3>2 DEF TenancyInv
    <3> QED  BY <3>3, <3>7, <3>8, <3>9, <3>10, <3>11 DEF TenancyInv
  <2>4. ASSUME NEW c \in Conns, SetLocalOrg(r, c)
        PROVE  TenancyInv'
    <3>1. /\ req[r].pc = "tx" /\ r \in conn[c].by /\ req[r].org # NoOrg
          /\ req' = [req EXCEPT ![r].pc = "scoped"]
          /\ conn' = [conn EXCEPT ![c].local = req[r].org]
      BY <2>4 DEF SetLocalOrg
    <3>2. \A q \in Requests : /\ DOMAIN req'[q] = Fields
                              /\ req'[q].org = req[q].org /\ req'[q].claim = req[q].claim
                              /\ req'[q].pc = IF q = r THEN "scoped" ELSE req[q].pc
      BY <1>1, <3>1 DEF Fields
    <3>3. req[r].org \in Orgs
      BY <3>1, FallbackAssumption DEF TenancyInv, resolveOrg, Claims
    <3>4. conn' \in [Conns -> ConnRecords]
      BY <1>1, <3>1, <3>3 DEF ConnRecords
    <3>5. \A d \in Conns : /\ conn'[d].by = conn[d].by
                           /\ conn'[d].session = conn[d].session
                           /\ conn'[d].local = IF d = c THEN req[r].org ELSE conn[d].local
      BY <1>1, <3>1 DEF ConnRecords
    <3>6. DOMAIN req' = Requests
      BY <1>1, <3>1
    <3>7. \A d \in Conns : \A q \in conn'[d].by : InTx(q)' /\ conn'[d].by = {q}
      BY <1>1, <3>2, <3>5 DEF TenancyInv, InTx
    <3>8. \A d \in Conns :
            /\ conn'[d].session = NoOrg
            /\ conn'[d].local # NoOrg => \E q \in conn'[d].by : conn'[d].local = req'[q].org
      BY <1>1, <3>1, <3>2, <3>5 DEF TenancyInv
    <3> QED  BY <3>2, <3>4, <3>5, <3>6, <3>7, <3>8 DEF TenancyInv
  <2>5. ASSUME NEW c \in Conns, EndTx(r, c)
        PROVE  TenancyInv'
    <3>1. /\ r \in conn[c].by
          /\ req' = [req EXCEPT ![r] = None]
          /\ conn' = [conn EXCEPT ![c].by = {}, ![c].local = NoOrg]
      BY <2>5 DEF EndTx
    <3>2. \A q \in Requests : req'[q] = IF q = r THEN None ELSE req[q]
      BY <1>1, <3>1
    <3>3. DOMAIN None = Fields /\ None.org = NoOrg
      BY DEF None, Fields
    <3>4. conn' = [conn EXCEPT ![c] = [conn[c] EXCEPT !.by = {}, !.local = NoOrg]]
      BY Zenon, <1>1, <3>1 DEF ConnRecords
    <3>5. [conn[c] EXCEPT !.by = {}, !.local = NoOrg] \in ConnRecords
      BY Zenon, <1>1 DEF ConnRecords
    <3>6. conn' \in [Conns -> ConnRecords]
      BY <1>1, <3>4, <3>5
    <3>7. \A d \in Conns : /\ conn'[d].by = IF d = c THEN {} ELSE conn[d].by
                           /\ conn'[d].session = conn[d].session
                           /\ conn'[d].local = IF d = c THEN NoOrg ELSE conn[d].local
      BY <1>1, <3>4 DEF ConnRecords
    <3>8. \A d \in Conns : r \in conn[d].by => d = c
      BY <3>1 DEF TenancyInv
    <3>9. DOMAIN req' = Requests
      BY <1>1, <3>1
    <3>10. \A d \in Conns : \A q \in conn'[d].by : InTx(q)' /\ conn'[d].by = {q}
      BY <1>1, <3>2, <3>7, <3>8 DEF TenancyInv, InTx
    <3>11. \A d \in Conns :
             /\ conn'[d].session = NoOrg
             /\ conn'[d].local # NoOrg => \E q \in conn'[d].by : conn'[d].local = req'[q].org
      BY <1>1, <3>2, <3>7, <3>8 DEF TenancyInv
    <3>12. \A d, f \in Conns : conn'[d].by \cap conn'[f].by # {} => d = f
      BY <3>7 DEF TenancyInv
    <3>13. \A q \in Requests :
             /\ DOMAIN req'[q] = Fields
             /\ req'[q].org # NoOrg => req'[q].claim \in Claims
                                       /\ req'[q].org = resolveOrg(req'[q].claim)
      BY <1>1, <3>2, <3>3 DEF TenancyInv
    <3> QED  BY <3>6, <3>9, <3>10, <3>11, <3>12, <3>13 DEF TenancyInv
  <2>6. ASSUME NEW ask \in Asks, ReadRoles(r, ask)
        PROVE  TenancyInv'
    <3>1. /\ InTx(r) /\ UNCHANGED conn
          /\ \/ req' = [req EXCEPT ![r].pc = "decided", ![r].ask = ask]
             \/ req' = [req EXCEPT ![r].pc = "roles", ![r].ask = ask, ![r].read = roles[ask.owner]]
      BY <2>6 DEF ReadRoles, InTx
    <3>2. \A q \in Requests : /\ DOMAIN req'[q] = Fields
                              /\ req'[q].org = req[q].org /\ req'[q].claim = req[q].claim
                              /\ InTx(q) => InTx(q)'
      BY <1>1, <3>1 DEF Fields, InTx
    <3>3. DOMAIN req' = Requests
      BY <1>1, <3>1
    <3> QED  BY <3>1, <3>2, <3>3, TenancyStays
  <2>7. CASE ReadAssignments(r) \/ ReadFails(r)
    <3>1. PICK granted : /\ UNCHANGED conn
                         /\ req' = [req EXCEPT ![r].pc = "decided", ![r].read = <<>>,
                                               ![r].granted = granted]
      BY <2>7, Zenon DEF ReadAssignments, ReadFails
    <3>2. \A q \in Requests : /\ DOMAIN req'[q] = Fields
                              /\ req'[q].org = req[q].org /\ req'[q].claim = req[q].claim
                              /\ InTx(q) => InTx(q)'
      BY <1>1, <3>1 DEF Fields, InTx
    <3>3. DOMAIN req' = Requests
      BY <1>1, <3>1
    <3> QED  BY <3>1, <3>2, <3>3, TenancyStays
  <2> QED  BY <1>4, <2>1, <2>2, <2>3, <2>4, <2>5, <2>6, <2>7 DEF RequestNext
<1> QED  BY <1>2, <1>3, <1>4 DEF Next

LEMMA TenancyAlways == Spec => []TenancyInv
<1>1. Init => TenancyInv
  <2> SUFFICES ASSUME Init PROVE TenancyInv
    OBVIOUS
  <2>1. DOMAIN None = Fields /\ None.org = NoOrg
    BY DEF None, Fields
  <2> QED  BY <2>1 DEF Init, TenancyInv, ConnRecords
<1> QED  BY <1>1, TenancyKept, PTL DEF Spec

\* The setting that row-level security filters by never outlives the transaction
\* it was made in and never names another organization than the request's, for
\* any number of requests that share any number of connections.
THEOREM SettingIsTheRequests == Spec => []SettingFollowsRequest
<1>1. TenancyInv => SettingFollowsRequest
  <2> SUFFICES ASSUME TenancyInv, NEW c \in Conns, conn[c].local # NoOrg
               PROVE  \E r \in conn[c].by :
                        \/ conn[c].local = req[r].claim
                        \/ req[r].claim = NoOrg /\ conn[c].local = FallbackOrg
    BY DEF TenancyInv, SettingFollowsRequest
  <2>1. PICK r \in conn[c].by : conn[c].local = req[r].org
    BY DEF TenancyInv
  <2>2. r \in Requests
    BY DEF TenancyInv, ConnRecords
  <2> QED  BY <2>1, <2>2, Resolved DEF TenancyInv
<1> QED  BY <1>1, TenancyAlways, PTL
-----------------------------------------------------------------------------
(***************************************************************************)
(* A Check between its two reads.  Unless both lists have changed, what it *)
(* would answer now from the roles it has read is an answer that was right *)
(* at some instant since it began.                                         *)
(***************************************************************************)
Parts == {"roles", "assignments"}

Pending(r) ==
  Granted(req[r].read, assigned[req[r].org][req[r].subject], req[r].ask.permission,
          req[r].ask.scopes)

CheckInv ==
  /\ DOMAIN watch = Requests
  /\ \A r \in Requests :
       /\ DOMAIN watch[r] = {"truths", "changed"} /\ watch[r].changed \subseteq Parts
       /\ req[r].pc # "decided" => req[r].granted = FALSE
       /\ req[r].pc \in {"none", "handler", "tx"} \/ req[r].org # NoOrg
       /\ req[r].pc = "roles" =>
            /\ req[r].ask.owner = req[r].org
            /\ "roles" \notin watch[r].changed => req[r].read = roles[req[r].org]
            /\ watch[r].changed = Parts \/ Pending(r) \in watch[r].truths
       /\ req[r].pc = "decided" =>
            /\ watch[r].changed = Parts \/ req[r].granted \in watch[r].truths
            /\ req[r].granted => req[r].ask.owner = req[r].org

\* A change of one list while the Check of r is between its reads.
LEMMA WatchedCheck ==
  ASSUME CheckInv, TenancyInv, NEW part \in Parts, Watched(part),
         part = "roles" => UNCHANGED assigned,
         part = "assignments" => UNCHANGED roles
  PROVE  CheckInv'
<1>1. /\ UNCHANGED req
      /\ watch' = [r \in Requests |->
                     IF req[r].pc # "roles" THEN watch[r]
                     ELSE [truths |-> watch[r].truths \cup {MayUse(req[r], roles', assigned')},
                           changed |-> watch[r].changed \cup {part}]]
  BY DEF Watched
<1>2. SUFFICES ASSUME NEW r \in Requests, req[r].pc = "roles"
               PROVE  /\ watch'[r].changed \subseteq Parts
                      /\ "roles" \notin watch'[r].changed => req[r].read = roles'[req[r].org]
                      /\ watch'[r].changed = Parts \/ Pending(r)' \in watch'[r].truths
  BY <1>1 DEF CheckInv
<1>3. /\ watch'[r].truths = watch[r].truths \cup {MayUse(req[r], roles', assigned')}
      /\ watch'[r].changed = watch[r].changed \cup {part}
  BY <1>1, <1>2
<1>4. /\ watch[r].changed \subseteq Parts /\ req[r].ask.owner = req[r].org
      /\ "roles" \notin watch[r].changed => req[r].read = roles[req[r].org]
      /\ watch[r].changed = Parts \/ Pending(r) \in watch[r].truths
  BY <1>2 DEF CheckInv
<1>5. CASE part = "roles"
  <2>1. Pending(r)' = Pending(r)
    BY <1>1, <1>5 DEF Pending
  <2> QED  BY <1>3, <1>4, <1>5, <2>1 DEF Parts
<1>6. CASE part = "assignments"
  <2>1. CASE "roles" \in watch[r].changed
    BY <1>3, <1>4, <1>6, <2>1 DEF Parts
  <2>2. CASE "roles" \notin watch[r].changed
    <3>1. req[r].read = roles'[req[r].org]
      BY <1>4, <1>6, <2>2
    <3>2. Pending(r)' = MayUse(req[r], roles', assigned')
      BY <1>1, <1>4, <3>1 DEF Pending, MayUse, Granted
    <3> QED  BY <1>3, <1>4, <1>6, <3>1, <3>2 DEF Parts
  <2> QED  BY <2>1, <2>2
<1> QED  BY <1>5, <1>6 DEF Parts

\* The request's own steps: ReadRoles starts to watch, ReadAssignments decides.
LEMMA RequestCheck ==
  ASSUME CheckInv, TenancyInv, NEW r \in Requests, RequestNext(r)
  PROVE  CheckInv'
<1>1. /\ DOMAIN req = Requests /\ \A q \in Requests : DOMAIN req[q] = Fields
      /\ DOMAIN watch = Requests
      /\ \A q \in Requests : DOMAIN watch[q] = {"truths", "changed"}
  BY DEF TenancyInv, CheckInv
<1>2. UNCHANGED <<roles, assigned>>
  BY Zenon DEF RequestNext, RequireOrg, Unguarded, BeginTx, SetLocalOrg, EndTx, ReadRoles,
         ReadAssignments, ReadFails, storeVars
<1> DEFINE Kept(q) ==
      /\ DOMAIN watch[q] = {"truths", "changed"} /\ watch[q].changed \subseteq Parts
      /\ req[q].pc # "decided" => req[q].granted = FALSE
      /\ req[q].pc \in {"none", "handler", "tx"} \/ req[q].org # NoOrg
      /\ req[q].pc = "roles" =>
           /\ req[q].ask.owner = req[q].org
           /\ "roles" \notin watch[q].changed => req[q].read = roles[req[q].org]
           /\ watch[q].changed = Parts \/ Pending(q) \in watch[q].truths
      /\ req[q].pc = "decided" =>
           /\ watch[q].changed = Parts \/ req[q].granted \in watch[q].truths
           /\ req[q].granted => req[q].ask.owner = req[q].org
<1>3. \A q \in Requests : Kept(q)
  BY DEF CheckInv
<1>4. \A q \in Requests : q # r => req'[q] = req[q] /\ watch'[q] = watch[q]
  BY ZenonT(60), <1>1 DEF RequestNext, RequireOrg, Unguarded, BeginTx, SetLocalOrg, EndTx, ReadRoles,
              ReadAssignments, ReadFails
<1>5. DOMAIN watch' = Requests
  BY Zenon, <1>1 DEF RequestNext, RequireOrg, Unguarded, BeginTx, SetLocalOrg, EndTx, ReadRoles,
              ReadAssignments, ReadFails
<1>6. \A q \in Requests : q # r => Kept(q)'
  BY <1>2, <1>3, <1>4 DEF Pending
<1>7. ASSUME req'[r].pc \in {"none", "handler", "tx", "scoped"}, req'[r].granted = FALSE,
             req'[r].pc = "scoped" => req'[r].org # NoOrg,
             watch'[r] = watch[r] \/ watch'[r] = NoWatch
      PROVE  Kept(r)'
  <2>1. DOMAIN NoWatch = {"truths", "changed"} /\ NoWatch.changed = {}
    BY DEF NoWatch
  <2> QED  BY <1>3, <1>7, <2>1
<1>8. ASSUME NEW s \in Subjects, (\E claim \in Claims : RequireOrg(r, claim, s)) \/ Unguarded(r, s)
      PROVE  Kept(r)'
  <2>1. /\ req[r] = None /\ UNCHANGED watch
        /\ req'[r].pc = "handler" /\ req'[r].granted = req[r].granted
    <3>1. CASE Unguarded(r, s)
      BY <1>1, <3>1 DEF Unguarded, Fields
    <3>2. ASSUME NEW claim \in Claims, RequireOrg(r, claim, s)
          PROVE  /\ req[r] = None /\ UNCHANGED watch
                 /\ req'[r].pc = "handler" /\ req'[r].granted = req[r].granted
      BY <1>1, <3>2 DEF RequireOrg, Fields
    <3> QED  BY <1>8, <3>1, <3>2
  <2>2. None.granted = FALSE
    BY DEF None
  <2> QED  BY Zenon, <1>7, <2>1, <2>2
<1>9. ASSUME NEW c \in Conns, BeginTx(r, c) \/ SetLocalOrg(r, c)
      PROVE  Kept(r)'
  <2>1. /\ req[r].pc \in {"handler", "tx"} /\ UNCHANGED watch
        /\ req'[r].pc = "tx" \/ (req'[r].pc = "scoped" /\ req[r].org # NoOrg)
        /\ req'[r].granted = req[r].granted /\ req'[r].org = req[r].org
    BY <1>1, <1>9 DEF BeginTx, SetLocalOrg, Fields
  <2> QED  BY <1>3, <1>7, <2>1
<1>10. ASSUME NEW c \in Conns, EndTx(r, c)
       PROVE  Kept(r)'
  <2>1. req'[r] = None /\ watch'[r] = NoWatch
    BY <1>1, <1>10 DEF EndTx
  <2>2. None.pc = "none" /\ None.granted = FALSE
    BY DEF None
  <2> QED  BY Zenon, <1>7, <2>1, <2>2
<1>11. ASSUME NEW ask \in Asks, ReadRoles(r, ask)
       PROVE  Kept(r)'
  <2>1. /\ req[r].pc = "scoped" /\ req[r].org # NoOrg /\ req[r].granted = FALSE
        /\ watch[r].changed \subseteq Parts
    BY <1>3, <1>11 DEF ReadRoles
  <2>2. /\ watch'[r].truths = {MayUse(req'[r], roles, assigned)}
        /\ watch'[r].changed = watch[r].changed
        /\ DOMAIN watch'[r] = {"truths", "changed"}
    BY <1>1, <1>11 DEF ReadRoles
  <2>3. /\ req'[r].ask = ask /\ req'[r].org = req[r].org /\ req'[r].granted = FALSE
        /\ req'[r].subject = req[r].subject
    BY <1>1, <1>11, <2>1 DEF ReadRoles, Fields
  <2>4. CASE req'[r].pc = "decided"
    <3>1. ask.owner # req[r].org \/ ask.permission \notin Catalog
      BY <1>1, <1>11, <2>4 DEF ReadRoles, Fields
    <3>2. MayUse(req'[r], roles, assigned) = FALSE
      BY <2>3, <3>1 DEF MayUse, Granted
    <3> QED  BY Zenon, <2>1, <2>2, <2>3, <2>4, <3>2
  <2>5. CASE req'[r].pc = "roles"
    <3>1. ask.owner = req[r].org /\ req'[r].read = roles[req[r].org]
      BY <1>1, <1>11, <2>5 DEF ReadRoles, Fields
    <3>2. Pending(r)' = MayUse(req'[r], roles, assigned)
      BY <1>2, <2>3, <3>1 DEF Pending, MayUse, Granted
    <3> QED  BY <1>2, <2>1, <2>2, <2>3, <2>5, <3>1, <3>2
  <2>6. req'[r].pc = "decided" \/ req'[r].pc = "roles"
    BY <1>1, <1>11 DEF ReadRoles, Fields
  <2> QED  BY Zenon, <2>4, <2>5, <2>6
<1>12. ASSUME ReadAssignments(r) PROVE Kept(r)'
  <2>1. /\ req[r].pc = "roles" /\ UNCHANGED watch
        /\ req' = [req EXCEPT ![r].pc = "decided", ![r].read = <<>>, ![r].granted = Pending(r)]
    BY <1>12 DEF ReadAssignments, Pending
  <2>2. /\ req'[r].pc = "decided" /\ req'[r].granted = Pending(r)
        /\ req'[r].ask = req[r].ask /\ req'[r].org = req[r].org
    BY <1>1, <2>1 DEF Fields
  <2> QED  BY <1>3, <2>1, <2>2
<1>13. ASSUME ReadFails(r) PROVE Kept(r)'
  <2>1. /\ req[r].pc = "roles"
        /\ req' = [req EXCEPT ![r].pc = "decided", ![r].read = <<>>, ![r].granted = FALSE]
        /\ watch' = [watch EXCEPT ![r].truths = @ \cup {FALSE}]
    BY <1>13 DEF ReadFails
  <2>2. /\ req'[r].pc = "decided" /\ req'[r].granted = FALSE /\ req'[r].org = req[r].org
        /\ FALSE \in watch'[r].truths /\ watch'[r].changed = watch[r].changed
        /\ DOMAIN watch'[r] = {"truths", "changed"}
    BY <1>1, <2>1 DEF Fields
  <2> QED  BY Zenon, <1>3, <2>1, <2>2
<1>14. Kept(r)'
  BY Zenon, <1>8, <1>9, <1>10, <1>11, <1>12, <1>13 DEF RequestNext
<1> QED  BY <1>5, <1>6, <1>14 DEF CheckInv

\* Check's answer is right at some instant of the call unless both lists have
\* changed in between, and grants only resources of the organization in the
\* claims, with any number of requests and changes under way.
THEOREM DecisionsHold == Spec => []DecisionOfSomeInstant
<1>1. Init => CheckInv
  <2> SUFFICES ASSUME Init PROVE CheckInv
    OBVIOUS
  <2>1. None.pc = "none" /\ None.granted = FALSE
    BY DEF None
  <2>2. DOMAIN NoWatch = {"truths", "changed"} /\ NoWatch.changed = {}
    BY DEF NoWatch
  <2> QED  BY Zenon, <2>1, <2>2 DEF Init, CheckInv
<1>2. CheckInv /\ TenancyInv /\ [Next]_vars => CheckInv'
  <2> SUFFICES ASSUME CheckInv, TenancyInv, [Next]_vars PROVE CheckInv'
    OBVIOUS
  <2>1. CASE UNCHANGED vars
    BY <2>1 DEF CheckInv, Pending, vars
  <2>2. CASE RolesNext
    <3>1. Watched("roles") /\ UNCHANGED assigned
      BY <2>2, Zenon DEF RolesNext, SetRoles, AddRole
    <3> QED  BY <3>1, WatchedCheck DEF Parts
  <2>3. CASE AssignmentsNext
    <3>1. Watched("assignments") /\ UNCHANGED roles
      BY <2>3, Zenon DEF AssignmentsNext, SetAssignments, AddAssignment, Grant
    <3> QED  BY <3>1, WatchedCheck DEF Parts
  <2> QED  BY <2>1, <2>2, <2>3, RequestCheck DEF Next
<1>3. CheckInv /\ TenancyInv => DecisionOfSomeInstant
  BY DEF CheckInv, TenancyInv, DecisionOfSomeInstant, Parts
<1> QED  BY <1>1, <1>2, <1>3, TenancyAlways, PTL DEF Spec
-----------------------------------------------------------------------------
(***************************************************************************)
(* API tokens.  The inductive invariant: what a call of ValidateApiToken    *)
(* under way still knows of the table.                                      *)
(***************************************************************************)
Calls == [pc : {"none", "find", "compare"}, token : Tokens \cup {NoToken},
          found : Tokens \cup {NoToken}, row : Rows \cup {NoRow}, live : BOOLEAN]

\* All that a row keeps once it is stored.
SameRow(r, s) == r.owner = s.owner /\ r.prefix = s.prefix /\ r.expires = s.expires /\ r.created = s.created

\* Between the read of a row and its comparison the row can be revoked, and nothing
\* else of it changes; what was live when the call read it was live when it began.
CallOK(k) ==
  /\ k.pc # "none" => k.token \in Stored /\ (k.token \in Live => k.live)
  /\ k.pc = "compare" =>
       /\ k.found \in Stored /\ ~ k.row.revoked /\ SameRow(k.row, table[k.found])
       /\ k.row.prefix = table[k.token].prefix
       /\ k.found = k.token => k.live
       /\ k.token \in Live => k.row.created >= table[k.token].created

Known ==
  /\ clock \in 0 .. MaxClock
  /\ table \in [Tokens -> Rows \cup {NoRow}]
  /\ call \in [Callers -> Calls]
  /\ \A c \in Callers : CallOK(call[c])

LEMMA NoCallOK == NoCall \in Calls /\ CallOK(NoCall)
BY DEF NoCall, Calls, CallOK

LEMMA KnownInit == TokenInit => Known
<1> SUFFICES ASSUME TokenInit PROVE Known
  OBVIOUS
<1> HIDE DEF NoCall, NoRow
<1> QED
  BY NoCallOK, ClockAssumption DEF TokenInit, Known

(***************************************************************************)
(* Rows change only from nothing to a row, and from live to revoked         *)
(***************************************************************************)
RowKept(t) ==
  table[t] # NoRow =>
    table'[t] # NoRow /\ SameRow(table'[t], table[t]) /\ (table[t].revoked => table'[t].revoked)

LEMMA RowsKept == ASSUME Known, [TokenNext]_tokenVars PROVE \A t \in Tokens : RowKept(t)
<1> SUFFICES ASSUME NEW t \in Tokens, table[t] # NoRow PROVE RowKept(t)
  BY DEF RowKept
<1>1. table[t] \in Rows
  BY DEF Known
<1>2. CASE UNCHANGED table
  BY <1>2 DEF RowKept, SameRow
<1>3. ASSUME NEW u \in Users, NEW s \in Tokens, NEW prefix \in Prefixes,
             NEW expires \in 0 .. NoExpiry, CreateApiToken(u, s, prefix, expires)
      PROVE  RowKept(t)
  <2>1. s # t /\ table'[t] = table[t]
    BY <1>3 DEF CreateApiToken, Known
  <2> QED
    BY <2>1 DEF RowKept, SameRow
<1>4. ASSUME NEW u \in Users, NEW s \in Tokens, RevokeApiToken(u, s)
      PROVE  RowKept(t)
  <2>1. CASE s # t
    <3>1. table'[t] = table[t]
      BY <1>4, <2>1 DEF RevokeApiToken, Known
    <3> QED
      BY <3>1 DEF RowKept, SameRow
  <2>2. CASE s = t
    <3>1. table'[t] = [table[t] EXCEPT !.revoked = TRUE]
      BY <1>4, <2>2 DEF RevokeApiToken, Known
    <3> QED
      BY <1>1, <3>1 DEF RowKept, SameRow, Rows, NoRow
  <2> QED
    BY <2>1, <2>2
<1>5. CASE Tick \/ UNCHANGED tokenVars
  BY <1>2, <1>5 DEF Tick, tokenVars
<1>6. ASSUME NEW c \in Callers, (\E s \in Tokens : Validate(c, s)) \/ FindByPrefix(c) \/ CompareHash(c)
      PROVE  RowKept(t)
  BY Zenon, <1>2, <1>6 DEF Validate, FindByPrefix, CompareHash
<1> QED
  BY <1>3, <1>4, <1>5, <1>6 DEF TokenNext

\* A call that a step leaves alone keeps what it knows.
LEMMA CallKept ==
  ASSUME Known, \A t \in Tokens : RowKept(t), NEW c \in Callers, call'[c] = call[c]
  PROVE  CallOK(call[c])'
<1> DEFINE k == call[c]
<1>1. k \in Calls /\ CallOK(k)
  BY DEF Known
<1>2. ASSUME NEW t \in Stored PROVE t \in Stored' /\ (t \in Live' => t \in Live) /\ SameRow(table'[t], table[t])
  BY DEF RowKept, Stored, Live
<1> HIDE DEF k
<1>3. k' = k
  BY DEF k
<1>4. CallOK(k)'
  BY <1>1, <1>2, <1>3 DEF CallOK, SameRow
<1> QED
  BY <1>4 DEF k

LEMMA KnownNext == ASSUME Known, [TokenNext]_tokenVars PROVE Known'
<1>0. \A t \in Tokens : RowKept(t)
  BY RowsKept
<1>1. ASSUME UNCHANGED call PROVE \A c \in Callers : CallOK(call[c])'
  BY <1>0, <1>1, CallKept
<1>2. ASSUME NEW c \in Callers, NEW k \in Calls, call' = [call EXCEPT ![c] = k], CallOK(k)'
      PROVE  call' \in [Callers -> Calls] /\ \A b \in Callers : CallOK(call[b])'
  <2>1. call' \in [Callers -> Calls] /\ call'[c] = k
    BY <1>2 DEF Known
  <2>2. ASSUME NEW b \in Callers, b # c PROVE CallOK(call[b])'
    <3>1. call'[b] = call[b]
      BY <1>2, <2>2 DEF Known
    <3> QED
      BY <1>0, <3>1, CallKept
  <2>3. CallOK(call[c])'
    BY <1>2, <2>1 DEF CallOK, SameRow
  <2> QED
    BY <2>1, <2>2, <2>3
<1>3. CASE UNCHANGED tokenVars
  BY <1>1, <1>3 DEF Known, tokenVars
<1>4. CASE Tick
  BY <1>1, <1>4, ClockAssumption DEF Known, Tick
<1>5. ASSUME NEW u \in Users, NEW t \in Tokens, NEW prefix \in Prefixes,
             NEW expires \in 0 .. NoExpiry, CreateApiToken(u, t, prefix, expires)
      PROVE  Known'
  <2>1. table' \in [Tokens -> Rows \cup {NoRow}]
    BY <1>5 DEF Known, CreateApiToken, Rows
  <2> QED
    BY <1>1, <1>5, <2>1 DEF Known, CreateApiToken
<1>6. ASSUME NEW u \in Users, NEW t \in Tokens, RevokeApiToken(u, t)
      PROVE  Known'
  <2> DEFINE row == [table[t] EXCEPT !.revoked = TRUE]
  <2>1. row \in Rows
    BY Zenon, <1>6 DEF RevokeApiToken, Live, Stored, Known, Rows
  <2>2. table' = [table EXCEPT ![t] = row]
    BY <1>6 DEF RevokeApiToken, Known
  <2> HIDE DEF row
  <2>3. table' \in [Tokens -> Rows \cup {NoRow}]
    BY <2>1, <2>2 DEF Known
  <2> QED
    BY <1>1, <1>6, <2>3 DEF Known, RevokeApiToken
<1>7. ASSUME NEW c \in Callers, NEW t \in Tokens, Validate(c, t)
      PROVE  Known'
  <2>1. PICK k : k = [NoCall EXCEPT !.pc = "find", !.token = t, !.live = t \in Live]
    OBVIOUS
  <2>2. call' = [call EXCEPT ![c] = k]
    BY <1>7, <2>1 DEF Validate
  <2>3. k = [pc |-> "find", token |-> t, found |-> NoToken, row |-> NoRow, live |-> t \in Live]
    BY <2>1, Zenon DEF NoCall
  <2>4. (t \in Live) \in BOOLEAN
    OBVIOUS
  <2>5. k \in Calls
    BY <2>3, <2>4, Zenon DEF Calls
  <2>6. k.pc = "find" /\ k.token = t /\ k.live = (t \in Live)
    BY <2>3, Zenon
  <2>7. CallOK(k)'
    BY Zenon, <1>7, <2>6 DEF CallOK, Validate, Stored, Live
  <2> QED
    BY Zenon, <1>2, <1>7, <2>2, <2>5, <2>7 DEF Known, Validate
<1>8. ASSUME NEW c \in Callers, call' = [call EXCEPT ![c] = NoCall], UNCHANGED <<clock, table>>
      PROVE  Known'
  <2>1. NoCall \in Calls /\ CallOK(NoCall)'
    BY NoCallOK DEF NoCall, CallOK
  <2> QED
    BY ZenonT(60), <1>2, <1>8, <2>1 DEF Known
<1>9. ASSUME NEW c \in Callers, FindByPrefix(c)
      PROVE  Known'
  <2>1. CASE \E result, user : Return(c, result, user)
    BY ZenonT(60), <1>8, <1>9, <2>1 DEF Return, FindByPrefix
  <2>2. ASSUME NEW t \in Newest(table[call[c].token].prefix),
               call' = [call EXCEPT ![c].pc = "compare", ![c].found = t, ![c].row = table[t]]
        PROVE  Known'
    <3>0. PICK k : k = [call[c] EXCEPT !.pc = "compare", !.found = t, !.row = table[t]]
      OBVIOUS
    <3>1. call[c] \in Calls /\ CallOK(call[c]) /\ call[c].pc = "find"
      BY Zenon, <1>9 DEF FindByPrefix, Known
    <3>2. /\ t \in Live /\ table[t].prefix = table[call[c].token].prefix
          /\ call[c].token \in Live => table[call[c].token].created <= table[t].created
      BY <2>2, <3>1 DEF Newest, Live
    <3>3. table[t] \in Rows
      BY <3>2 DEF Live, Stored, Known
    <3>4. /\ k \in Calls /\ k.pc = "compare" /\ k.found = t /\ k.row = table[t]
          /\ k.token = call[c].token /\ k.live = call[c].live
      BY Zenon, <3>0, <3>1, <3>2, <3>3 DEF Calls, Live, Stored
    <3>5. call' = [call EXCEPT ![c] = k]
      BY ZenonT(60), <2>2, <3>0 DEF Known
    <3>6. table[call[c].token] \in Rows
      BY <3>1 DEF CallOK, Stored, Known
    <3>7. CallOK(k)
      BY <3>1, <3>2, <3>3, <3>4, <3>6 DEF CallOK, Stored, Live, SameRow, Rows
    <3>8. CallOK(k)'
      BY ZenonT(60), <1>9, <3>7 DEF FindByPrefix, CallOK, Stored, Live, SameRow
    <3> QED
      BY Zenon, <1>2, <1>9, <3>4, <3>5, <3>8 DEF Known, FindByPrefix
  <2> QED
    BY ZenonT(60), <1>9, <2>1, <2>2 DEF FindByPrefix
<1>10. ASSUME NEW c \in Callers, CompareHash(c)
      PROVE  Known'
  BY Zenon, <1>8, <1>10 DEF CompareHash, Return
<1> QED
  BY <1>3, <1>4, <1>5, <1>6, <1>7, <1>9, <1>10 DEF TokenNext

LEMMA KnownAlways == TokenSpec => []Known
<1>1. Known /\ [TokenNext]_tokenVars => Known'
  BY KnownNext
<1> QED
  BY <1>1, KnownInit, PTL DEF TokenSpec

(***************************************************************************)
(* ORDER BY created_at DESC LIMIT 1 finds a row where there is one          *)
(***************************************************************************)
\* The intervals x .. MaxClock are finite, so one of them is least; its x is greatest.
LEMMA Greatest ==
  ASSUME NEW S \in SUBSET (0 .. MaxClock), S # {}
  PROVE  \E x \in S : \A y \in S : y <= x
<1> DEFINE R == {ss \in Nat \X Nat : ss[1] < ss[2]}
           T == {MaxClock - x : x \in S}
<1>1. IsWellFoundedOn(R, Nat)
  BY NatLessThanWellFounded DEF OpToRel
<1>2. T \subseteq Nat /\ T # {}
  BY ClockAssumption
<1>3. PICK d \in T : \A e \in T : ~ (<<e, d>> \in R)
  <2> HIDE DEF R, T
  <2> QED
    BY Zenon, <1>1, <1>2, WFMin
<1>4. ASSUME NEW e \in T PROVE ~ (e < d)
  <2>1. e \in Nat /\ d \in Nat
    BY <1>2, <1>3
  <2>2. e < d => <<e, d>> \in R
    BY <2>1
  <2> QED
    BY <1>3, <2>2
<1>5. PICK x \in S : d = MaxClock - x
  BY <1>3
<1>6. ASSUME NEW y \in S PROVE y <= x
  <2>1. ~ (MaxClock - y < d)
    BY <1>4
  <2>2. x \in 0 .. MaxClock /\ y \in 0 .. MaxClock
    BY Zenon
  <2> HIDE DEF R, T
  <2> QED
    BY <1>5, <2>1, <2>2, ClockAssumption
<1> QED
  BY <1>6

LEMMA NewestExists ==
  ASSUME Known, NEW t \in Live PROVE Newest(table[t].prefix) # {}
<1> DEFINE same == {s \in Live : table[s].prefix = table[t].prefix}
           C == {table[s].created : s \in same}
<1>1. t \in same
  OBVIOUS
<1>2. \A s \in same : table[s].created \in 0 .. MaxClock
  BY DEF Live, Stored, Known, Rows
<1>3. C \in SUBSET (0 .. MaxClock) /\ C # {}
  BY <1>1, <1>2
<1>4. PICK x \in C : \A y \in C : y <= x
  BY Zenon, <1>3, Greatest
<1>5. PICK s \in same : x = table[s].created
  BY <1>4
<1> QED
  BY <1>4, <1>5 DEF Newest

(***************************************************************************)
(* The answers                                                              *)
(***************************************************************************)
\* What the step that answers knows of the row it answers from.
LEMMA AnswersNext ==
  ASSUME Known, AcceptedIsOwners, RefusedHasReason, [TokenNext]_tokenVars
  PROVE  AcceptedIsOwners' /\ RefusedHasReason'
<1>1. CASE UNCHANGED tokenVars
  BY <1>1 DEF tokenVars, AcceptedIsOwners, RefusedHasReason, ListApiTokens, Live, Stored
<1>2. CASE verdict' = NoVerdict
  BY <1>2 DEF NoVerdict, AcceptedIsOwners, RefusedHasReason
<1>3. ASSUME NEW c \in Callers, FindByPrefix(c), Newest(table[call[c].token].prefix) = {},
             Return(c, "invalid", {})
      PROVE  AcceptedIsOwners' /\ RefusedHasReason'
  <2>1. call[c].token \notin Live
    BY <1>3, NewestExists
  <2>2. verdict'.result = "invalid" /\ verdict'.token = call[c].token /\ UNCHANGED table
    BY <1>3 DEF Return, FindByPrefix
  <2> QED
    BY <2>1, <2>2 DEF AcceptedIsOwners, RefusedHasReason, ListApiTokens, Live, Stored
<1>4. ASSUME NEW c \in Callers, CompareHash(c)
      PROVE  AcceptedIsOwners' /\ RefusedHasReason'
  <2> DEFINE k == call[c]
  <2>1. k \in Calls /\ CallOK(k) /\ k.pc = "compare" /\ UNCHANGED <<clock, table>>
    BY <1>4 DEF CompareHash, Known
  <2>2. /\ verdict'.token = k.token /\ verdict'.live = k.live /\ verdict'.by = {k.found}
        /\ IF clock > k.row.expires \/ k.found # k.token
             THEN verdict'.result = "invalid"
             ELSE verdict'.result = "valid" /\ verdict'.user = k.row.owner
    <3>1. ~ k.row.revoked /\ {k.found} \cap Tokens = {k.found}
      BY <2>1 DEF CallOK, Stored
    <3>2. CASE clock > k.row.expires \/ k.found # k.token
      BY <1>4, <3>1, <3>2 DEF CompareHash, Return
    <3>3. CASE ~ (clock > k.row.expires \/ k.found # k.token)
      BY <1>4, <3>1, <3>3 DEF CompareHash, Return
    <3> QED
      BY <3>2, <3>3
  <2>3. table[k.found] \in Rows /\ table[k.token] \in Rows /\ clock \in 0 .. MaxClock
    BY <2>1 DEF CallOK, Stored, Known
  <2> HIDE DEF k
  <2>4. AcceptedIsOwners'
    BY <2>1, <2>2, <2>3, ClockAssumption DEF AcceptedIsOwners, CallOK, SameRow, Rows, NoExpiry
  <2>5. RefusedHasReason'
    BY <2>1, <2>2, <2>3, ClockAssumption
       DEF RefusedHasReason, CallOK, SameRow, Rows, NoExpiry, ListApiTokens, Live, Stored
  <2> QED
    BY <2>4, <2>5
<1> QED
  BY Zenon, <1>1, <1>2, <1>3, <1>4
     DEF TokenNext, Tick, CreateApiToken, RevokeApiToken, Validate, FindByPrefix

LEMMA AnswersAlways == TokenSpec => [](AcceptedIsOwners /\ RefusedHasReason)
<1>1. TokenInit => AcceptedIsOwners /\ RefusedHasReason
  BY DEF TokenInit, NoVerdict, AcceptedIsOwners, RefusedHasReason
<1>2. Known /\ AcceptedIsOwners /\ RefusedHasReason /\ [TokenNext]_tokenVars => (AcceptedIsOwners /\ RefusedHasReason)'
  BY AnswersNext
<1> QED
  BY <1>1, <1>2, KnownAlways, PTL DEF TokenSpec

\* The rows stay whole, and the row that a call compares with is the stored one but for
\* the revocation it may have missed.
THEOREM ApiTokensTypeCorrect == TokenSpec => []TokenTypeOK
<1>1. Known => TokenTypeOK
  <2> SUFFICES ASSUME Known, NEW c \in Callers, call[c].pc = "compare"
               PROVE  call[c].row = [table[call[c].found] EXCEPT !.revoked = call[c].row.revoked]
    BY DEF Known, TokenTypeOK, Calls, CallOK
  <2> DEFINE k == call[c]  r == table[k.found]
  <2>1. k.row \in Rows \cup {NoRow} /\ r \in Rows /\ SameRow(k.row, r) /\ ~ k.row.revoked
    BY DEF Known, CallOK, Calls, Stored
  <2> HIDE DEF k, r
  <2>2. k.row = [r EXCEPT !.revoked = k.row.revoked]
    BY <2>1 DEF SameRow, Rows, NoRow
  <2> QED
    BY <2>2 DEF k, r
<1> QED
  BY <1>1, KnownAlways, PTL

\* ValidateApiToken accepts a secret for the user who created it only, although it finds
\* rows by a prefix that tokens of other users may share; never once it has expired; and
\* once it is revoked only for a call that had begun before.
THEOREM AcceptedForOwner == TokenSpec => []AcceptedIsOwners
BY AnswersAlways, PTL

\* A token on its owner's list is refused only because it expired, or because FindByPrefix
\* found a live token with the same prefix that is not older.
THEOREM RefusalsExplained == TokenSpec => []RefusedHasReason
BY AnswersAlways, PTL
===============================================================================
