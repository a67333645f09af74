------------------------------- MODULE Access -------------------------------
(***************************************************************************)
(* A product's request, from its verified claims to an authorization       *)
(* decision: package tenancy finds the organization of the request and     *)
(* sets it on the transaction, package authorization decides.  Requests    *)
(* run concurrently, with each other and with changes of the store, and    *)
(* share a pool of database connections.                                   *)
(***************************************************************************)
EXTENDS Authorization

CONSTANTS Requests, Conns,
          FallbackOrg,   \* WithFallbackOrg, NoOrg without one
          Malformed      \* an org claim that is no UUID

ASSUME FallbackAssumption == FallbackOrg \in Orgs \cup {NoOrg}
ASSUME MalformedAssumption == Malformed \notin Orgs \cup {NoOrg}

VARIABLES
  req,    \* the requests that a handler works on
  conn,   \* the connections: whose transaction is on it, and app.org_id there
  watch   \* history: what a Check could be told since it began

vars == <<roles, assigned, changes, req, conn, watch>>

Claims == Orgs \cup {NoOrg, Malformed}

Asks == [permission : Permissions, owner : Orgs, scopes : SUBSET ScopeIDs]

None == [pc |-> "none", claim |-> NoOrg, org |-> NoOrg, subject |-> {}, ask |-> {},
         read |-> <<>>, granted |-> FALSE]
NoWatch == [truths |-> {}, changed |-> {}]

\* The store, the requests and the connections hold proper values; a connection
\* that is taken belongs to a request that has a transaction open.
TypeOK ==
  /\ StoreTypeOK
  /\ \A r \in Requests :
       /\ req[r].pc \in {"none", "handler", "tx", "scoped", "roles", "decided"}
       /\ req[r].claim \in Claims /\ req[r].org \in Orgs \cup {NoOrg}
       /\ req[r].pc \in {"roles", "decided"} => req[r].ask \in Asks
  /\ conn \in [Conns -> [by : SUBSET Requests, session : Orgs \cup {NoOrg},
                         local : Orgs \cup {NoOrg}]]
  /\ \A r \in Requests :
       Cardinality({c \in Conns : r \in conn[c].by}) =
         IF req[r].pc \in {"none", "handler"} THEN 0 ELSE 1

\* The store after its set-up, with one grant at most.
Init ==
  /\ roles \in [Orgs -> {[k \in RoleKeys |-> Catalog]}]
  /\ \E o \in Orgs, s \in Subjects, A \in {{}} \cup {{g} : g \in Grants} :
       assigned = [org \in Orgs |-> [subject \in Subjects |->
                     IF org = o /\ subject = s THEN A ELSE {}]]
  /\ changes = 0
  /\ req = [r \in Requests |-> None]
  /\ conn = [c \in Conns |-> [by |-> {}, session |-> NoOrg, local |-> NoOrg]]
  /\ watch = [r \in Requests |-> NoWatch]
-----------------------------------------------------------------------------
(***************************************************************************)
(* Package tenancy.                                                        *)
(***************************************************************************)
\* The organization of the claims, NoOrg where the request is refused.
resolveOrg(claim) ==
  CASE claim \in Orgs -> claim
    [] claim = NoOrg -> FallbackOrg
    [] claim = Malformed -> NoOrg

\* RequireOrg and UnaryServerInterceptor, for verified claims: the handler runs
\* with the organization in its context, or the request is answered 401 or 403.
RequireOrg(r, claim, s) ==
  /\ req[r] = None
  /\ resolveOrg(claim) # NoOrg
  /\ req' = [req EXCEPT ![r].pc = "handler", ![r].claim = claim, ![r].subject = s,
                         ![r].org = resolveOrg(claim)]
  /\ UNCHANGED <<storeVars, conn, watch>>

\* A code path of the product that the middleware does not guard.
Unguarded(r, s) ==
  /\ req[r] = None
  /\ req' = [req EXCEPT ![r].pc = "handler", ![r].subject = s]
  /\ UNCHANGED <<storeVars, conn, watch>>

BeginTx(r, c) ==
  /\ req[r].pc = "handler" /\ conn[c].by = {}
  /\ conn' = [conn EXCEPT ![c].by = {r}]
  /\ req' = [req EXCEPT ![r].pc = "tx"]
  /\ UNCHANGED <<storeVars, watch>>

\* The bug of set_config for the session: is_local is false.
SetLocalOrgSession(r, c) ==
  /\ req[r].pc = "tx" /\ r \in conn[c].by
  /\ req[r].org # NoOrg
  /\ conn' = [conn EXCEPT ![c].session = req[r].org]
  /\ req' = [req EXCEPT ![r].pc = "scoped"]
  /\ UNCHANGED <<storeVars, watch>>

\* Without an organization in the context it returns ErrOrgRequired, and the
\* handler can only end its transaction.
SetLocalOrg(r, c) ==
  /\ req[r].pc = "tx" /\ r \in conn[c].by
  /\ req[r].org # NoOrg
  /\ conn' = [conn EXCEPT ![c].local = req[r].org]
  /\ req' = [req EXCEPT ![r].pc = "scoped"]
  /\ UNCHANGED <<storeVars, watch>>

\* Commit or rollback, at any point of the handler: what was set for the
\* transaction is gone, and the connection returns to the pool.
EndTx(r, c) ==
  /\ req[r].pc \notin {"none", "handler"} /\ r \in conn[c].by
  /\ conn' = [conn EXCEPT ![c].by = {}, ![c].local = NoOrg]
  /\ req' = [req EXCEPT ![r] = None]
  /\ watch' = [watch EXCEPT ![r] = NoWatch]
  /\ UNCHANGED storeVars
-----------------------------------------------------------------------------
(***************************************************************************)
(* Check: the refusals that need no store, then two reads of the store.    *)
(***************************************************************************)
\* What request q may be told of its ask on a store.
MayUse(q, R, A) ==
  /\ q.ask.owner = q.org
  /\ Granted(R[q.org], A[q.org][q.subject], q.ask.permission, q.ask.scopes)

\* The bug of a resource's organization that is not compared.
ReadRolesAnyOwner(r, ask) ==
  /\ req[r].pc = "scoped"
  /\ \/ /\ ask.permission \notin Catalog
        /\ req' = [req EXCEPT ![r].pc = "decided", ![r].ask = ask]
     \/ /\ ask.permission \in Catalog
        /\ req' = [req EXCEPT ![r].pc = "roles", ![r].ask = ask, ![r].read = roles[req[r].org]]
  /\ watch' = [watch EXCEPT ![r].truths = {MayUse(req'[r], roles, assigned)}]
  /\ UNCHANGED <<storeVars, conn>>

ReadRoles(r, ask) ==
  /\ req[r].pc = "scoped"
  /\ \/ /\ ask.owner # req[r].org \/ ask.permission \notin Catalog
        /\ req' = [req EXCEPT ![r].pc = "decided", ![r].ask = ask]
     \/ /\ ask.owner = req[r].org /\ ask.permission \in Catalog
        /\ req' = [req EXCEPT ![r].pc = "roles", ![r].ask = ask, ![r].read = roles[ask.owner]]
  /\ watch' = [watch EXCEPT ![r].truths = {MayUse(req'[r], roles, assigned)}]
  /\ UNCHANGED <<storeVars, conn>>

ReadAssignments(r) ==
  /\ req[r].pc = "roles"
  /\ LET q == req[r]
     IN req' = [req EXCEPT ![r].pc = "decided", ![r].read = <<>>, ![r].granted =
                  Granted(q.read, assigned[q.org][q.subject], q.ask.permission, q.ask.scopes)]
  /\ UNCHANGED <<storeVars, conn, watch>>

\* Either read fails, with the context or the product's database: an error, and
\* a decision that denies.
ReadFails(r) ==
  /\ req[r].pc = "roles"
  /\ req' = [req EXCEPT ![r].pc = "decided", ![r].read = <<>>, ![r].granted = FALSE]
  /\ watch' = [watch EXCEPT ![r].truths = @ \cup {FALSE}]
  /\ UNCHANGED <<storeVars, conn>>
-----------------------------------------------------------------------------
\* A change of the store while Checks are under way.
Watched(part) ==
  /\ watch' = [r \in Requests |->
                 IF req[r].pc # "roles" THEN watch[r]
                 ELSE [truths |-> watch[r].truths \cup {MayUse(req[r], roles', assigned')},
                       changed |-> watch[r].changed \cup {part}]]
  /\ UNCHANGED <<req, conn>>

\* Lists of one role or grant are enough to replace a list by: the others are
\* made of them by AddRole and AddAssignment.
AtMostOne(S) == Cardinality(S) <= 1

RolesNext ==
  /\ \E o \in Orgs :
       \/ \E R \in RoleMaps : AtMostOne(DOMAIN R) /\ SetRoles(o, R)
       \/ \E k \in RoleKeys, permissions \in SUBSET Permissions : AddRole(o, k, permissions)
  /\ Watched("roles")

AssignmentsNext ==
  /\ \E o \in Orgs, s \in Subjects :
       \/ \E A \in SUBSET Grants : AtMostOne(A) /\ SetAssignments(o, s, A)
       \/ \E g \in Grants : AddAssignment(o, s, g)
       \/ \E g \in Grants, granter \in Subjects : Grant(o, granter, s, g)
  /\ Watched("assignments")

RequestNext(r) ==
  \/ \E s \in Subjects : \/ \E claim \in Claims : RequireOrg(r, claim, s)
                         \/ Unguarded(r, s)
  \/ \E c \in Conns : BeginTx(r, c) \/ SetLocalOrg(r, c) \/ EndTx(r, c)
  \/ \E ask \in Asks : ReadRoles(r, ask)
  \/ ReadAssignments(r) \/ ReadFails(r)

Next == RolesNext \/ AssignmentsNext \/ \E r \in Requests : RequestNext(r)

Spec == Init /\ [][Next]_vars
-----------------------------------------------------------------------------
\* app.org_id, by which row-level security filters, is set on a connection only
\* during a transaction of a request, to the organization its claims name (or,
\* where they name none, to the fallback): no request or job sees the setting of
\* another one that used the connection before.
SettingFollowsRequest ==
  \A c \in Conns :
    LET setting == IF conn[c].local # NoOrg THEN conn[c].local ELSE conn[c].session
    IN setting # NoOrg =>
         \E r \in conn[c].by :
           \/ setting = req[r].claim
           \/ req[r].claim = NoOrg /\ setting = FallbackOrg

\* Check reads roles and assignments one after the other.  Its answer is right
\* at some instant of the call, unless both were changed in between; and only a
\* resource of the organization in the claims is ever granted.
DecisionOfSomeInstant ==
  \A r \in Requests : req[r].pc = "decided" =>
    /\ req[r].granted \in watch[r].truths \/ watch[r].changed = {"roles", "assignments"}
    /\ req[r].granted => resolveOrg(req[r].claim) = req[r].ask.owner

\* AllowedScopes lists a scope exactly when Check grants a resource of it.
AllowedScopesAgree ==
  \A o \in Orgs, s \in Subjects, p \in Permissions, i \in ScopeIDs :
    LET found == AllowedScopes(roles[o], assigned[o][s], p)
    IN (found.all \/ i \in found.ids) <=> Granted(roles[o], assigned[o][s], p, {i})

\* Whatever a user can do after a grant that CanGrant lets through, on a resource
\* of any scopes, the user or the granter could do before: a chain of grants
\* hands on permissions and never widens them.
NoAmplification ==
  [][\A o \in Orgs, granter, s \in Subjects : \A g \in assigned'[o][s] \ assigned[o][s] :
       Grant(o, granter, s, g) =>
         \A p \in Permissions, scopes \in SUBSET ScopeIDs :
           Applying(roles[o], assigned'[o][s], p, scopes) # {} =>
             \E u \in {s, granter} : Applying(roles[o], assigned[o][u], p, scopes) # {}]_vars

\* Where a role map is a policy for the deprecated Evaluator, it allows what
\* Check grants on the whole organization for the same roles: any declared
\* permission, and any permission at all if ValidateRoles accepts the roles.
EvaluatorAgrees ==
  \A o \in Orgs, s \in Subjects, p \in Permissions :
    NewEvaluator(roles[o]) /\ (p \in Catalog \/ ValidateRoles(roles[o])) =>
      LET orgWide == {g \in assigned[o][s] : g.scope = OrgWide}
      IN Allows(roles[o], {g.role : g \in orgWide}, p)
           <=> Granted(roles[o], assigned[o][s], p, {})
=============================================================================
