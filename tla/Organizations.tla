---------------------------- MODULE Organizations ----------------------------
(***************************************************************************)
(* Organizations, memberships and invitations of orbit-auth: the OrgService *)
(* handlers and the sign-up paths that write memberships, as requests of    *)
(* concurrent workers over the Postgres tables.                             *)
(*                                                                          *)
(* A request reads before its transaction (the gate and the service checks) *)
(* and then runs a READ COMMITTED transaction.  A transaction that decides  *)
(* from what it reads has two steps: one takes the organization row lock    *)
(* and reads, the other writes and commits.  One that only writes is one    *)
(* step.  A request that a check refuses ends without a trace; a refusal of *)
(* the first read is no step at all.                                        *)
(***************************************************************************)
EXTENDS Naturals, FiniteSets

CONSTANTS
  Users,      \* user ids
  Orgs,       \* organization ids
  Invites,    \* invitation ids; each is created at most once
  Workers,    \* goroutines serving requests
  Addresses,  \* email addresses as stored
  AddressOf,  \* the address of a user id, None for a mobile-only account
  Lower,      \* lower-casing of an address
  Ops,        \* the requests clients send
  None        \* SQL NULL and "no value"

AllOps == {"CreateOrg", "AddMember", "SuspendMember", "RemoveMember",
           "InviteMember", "RevokeInvite", "AcceptInvite", "Register"}

ASSUME ConstantsAssumption ==
  /\ IsFiniteSet(Users)
  /\ AddressOf \in [Users -> Addresses \cup {None}]
  /\ Lower \in [Addresses -> Addresses]
  /\ None \notin Users \cup Orgs \cup Invites \cup Workers \cup Addresses
  /\ Ops \subseteq AllOps

VARIABLES
  account,    \* users.status; "absent" before the insert, "purged" after the delete
  orgs,       \* "live" while an organization has its row, "deleted" after
  members,    \* organization_memberships.status, "none" without a row
  invites,    \* organization_invites rows, and whether the mail was delivered
  announced,  \* memberships as a consumer of the outbox events knows them
  lock,       \* holder of an organization's row lock
  req         \* the request each worker is serving

vars == <<account, orgs, members, invites, announced, lock, req>>

(***************************************************************************)
(* Rows and requests                                                        *)
(***************************************************************************)
MemberStatus == {"none", "invited", "active", "suspended"}

Pcs == {"idle", "check", "lock", "commit", "notify", "revoke", "create", "reissue"}

InviteRow ==
  [status    : {"none", "pending", "accepted", "revoked", "deleted"},
   org       : Orgs \cup {None},
   email     : Addresses \cup {None},
   expired   : BOOLEAN,
   delivered : BOOLEAN]

Request ==
  [op       : AllOps \cup {"none"},
   pc       : Pcs,
   caller   : Users \cup {None},
   org      : Orgs \cup {None},
   user     : Users \cup {None},
   email    : Addresses \cup {None},
   invite   : Invites \cup {None},
   status   : MemberStatus,        \* the target's status read under the lock
   revoking : SUBSET Invites]      \* pending invitations the UPDATE has matched

NoInvite ==
  [status |-> "none", org |-> None, email |-> None,
   expired |-> FALSE, delivered |-> FALSE]

NoRequest ==
  [op |-> "none", pc |-> "idle", caller |-> None, org |-> None, user |-> None,
   email |-> None, invite |-> None, status |-> "none", revoking |-> {}]

\* The database state and every request are well formed.
TypeOK ==
  /\ account \in [Users -> {"absent", "signup_pending", "active", "purged"}]
  /\ orgs \in [Orgs -> {"absent", "live", "deleted"}]
  /\ members \in [Orgs -> [Users -> MemberStatus]]
  /\ invites \in [Invites -> InviteRow]
  /\ announced \in [Orgs -> [Users -> MemberStatus]]
  /\ lock \in [Orgs -> Workers \cup {None}]
  /\ req \in [Workers -> Request]

Init ==
  /\ account = [u \in Users |-> "absent"]
  /\ orgs = [o \in Orgs |-> "absent"]
  /\ members = [o \in Orgs |-> [u \in Users |-> "none"]]
  /\ invites = [i \in Invites |-> NoInvite]
  /\ announced = [o \in Orgs |-> [u \in Users |-> "none"]]
  /\ lock = [o \in Orgs |-> None]
  /\ req = [w \in Workers |-> NoRequest]

Exists(u) == account[u] \in {"signup_pending", "active"}
OrgExists(o) == orgs[o] = "live"
IsActiveMember(o, u) == members[o][u] = "active"
CountActive(o) == Cardinality({u \in Users : members[o][u] = "active"})

\* Only an active account ever holds the access token the interceptor asks for.
HasSession(u) == account[u] = "active"

\* users.email is unique as stored; two spellings of one address may coexist.
AddressTaken(a) == \E u \in Users : Exists(u) /\ AddressOf[u] = a

\* strings.EqualFold and lower(email)
SameAddress(a, b) == a # None /\ b # None /\ Lower[a] = Lower[b]

PendingFor(o, a) ==
  {i \in Invites : /\ invites[i].status = "pending"
                   /\ invites[i].org = o
                   /\ SameAddress(invites[i].email, a)}

At(w, op, pc) == req[w].op = op /\ req[w].pc = pc
Begin(w, r) == req[w].pc = "idle" /\ r.op \in Ops /\ req' = [req EXCEPT ![w] = r]
Goto(w, pc) == req' = [req EXCEPT ![w].pc = pc]
Finish(w) == req' = [req EXCEPT ![w] = NoRequest]

\* Mutant: the transaction stays open.
UnlockForgotten(w) == UNCHANGED lock
Unlock(w) == lock' = [lock EXCEPT ![req[w].org] = None]

\* INSERT ... ON CONFLICT DO NOTHING, and the upsert of an accepted invitation.
\* Mutant: the upsert lost its WHERE.
UpsertedAlways(row) == "active"
Inserted(row, status) == IF row = "none" THEN status ELSE row
Upserted(row) == IF row \in {"none", "invited"} THEN "active" ELSE row

\* Mutant: the event is written outside the transaction and lost.
AnnounceLost(o, u, status) == UNCHANGED announced
Announce(o, u, status) == announced' = [announced EXCEPT ![o][u] = status]

(***************************************************************************)
(* Accounts, as far as memberships depend on them                           *)
(***************************************************************************)
\* First OTP login or demo seed: an account that is active from the start.
CreateAccount(u) ==
  /\ account[u] = "absent"
  /\ AddressOf[u] # None => ~AddressTaken(AddressOf[u])
  /\ account' = [account EXCEPT ![u] = "active"]
  /\ UNCHANGED <<orgs, members, invites, announced, lock, req>>

VerifySignup(u) ==
  /\ account[u] = "signup_pending"
  /\ account' = [account EXCEPT ![u] = "active"]
  /\ UNCHANGED <<orgs, members, invites, announced, lock, req>>

(***************************************************************************)
(* Gates and service checks: reads that precede the transaction             *)
(***************************************************************************)
RequireActiveMember(c, o) == HasSession(c) /\ IsActiveMember(o, c)

StartMemberOp(w) ==
  \E op \in {"AddMember", "SuspendMember", "RemoveMember"},
     c \in Users, o \in Orgs, u \in Users :
    /\ RequireActiveMember(c, o)
    /\ Begin(w, [NoRequest EXCEPT !.op = op, !.pc = "check",
                                  !.caller = c, !.org = o, !.user = u])
    /\ UNCHANGED <<account, orgs, members, invites, announced, lock>>

\* The id of an invitation about to be created is generated, so nobody has it.
StartInvite(w) ==
  \E c \in Users, o \in Orgs, a \in Addresses, i \in Invites :
    /\ RequireActiveMember(c, o)
    /\ invites[i].status = "none" /\ \A v \in Workers : req[v].invite # i
    /\ Begin(w, [NoRequest EXCEPT !.op = "InviteMember", !.pc = "check", !.caller = c,
                                  !.org = o, !.email = Lower[a], !.invite = i])
    /\ UNCHANGED <<account, orgs, members, invites, announced, lock>>

StartRevoke(w) ==
  \E c \in Users, o \in Orgs, i \in Invites :
    /\ RequireActiveMember(c, o)
    /\ invites[i].status # "none"
    /\ Begin(w, [NoRequest EXCEPT !.op = "RevokeInvite", !.pc = "check", !.caller = c,
                                  !.org = o, !.invite = i])
    /\ UNCHANGED <<account, orgs, members, invites, announced, lock>>

\* What the service requires of the target (or, for invitations, again of the
\* caller) before it calls the store.
Checked(r) ==
  \/ r.op = "AddMember" /\ Exists(r.user) /\ OrgExists(r.org)
  \/ r.op = "SuspendMember" /\ Exists(r.user) /\ IsActiveMember(r.org, r.user)
  \/ r.op = "RemoveMember" /\ Exists(r.user) /\ members[r.org][r.user] # "none"
  \/ r.op = "InviteMember" /\ IsActiveMember(r.org, r.caller) /\ OrgExists(r.org)
  \/ r.op = "RevokeInvite" /\ IsActiveMember(r.org, r.caller)

Check(w) ==
  /\ req[w].pc = "check"
  /\ IF Checked(req[w])
       THEN Goto(w, IF req[w].op = "RevokeInvite" THEN "revoke" ELSE "lock")
       ELSE Finish(w)
  /\ UNCHANGED <<account, orgs, members, invites, announced, lock>>

RecipientMatches(u, i) ==
  account[u] = "active" /\ SameAddress(AddressOf[u], invites[i].email)

Acceptable(i) == invites[i].status = "pending" /\ ~invites[i].expired

StartAccept(w) ==
  \E u \in Users, i \in Invites :
    /\ HasSession(u) /\ Acceptable(i) /\ RecipientMatches(u, i)
    /\ Begin(w, [NoRequest EXCEPT !.op = "AcceptInvite", !.pc = "lock", !.user = u,
                                  !.org = invites[i].org, !.invite = i])
    /\ UNCHANGED <<account, orgs, members, invites, announced, lock>>

\* RegisterWithEmail normalises the address and validates the token, if any.
\* An address whose only ids were purged is out of fresh ids (a bound).
StartRegister(w) ==
  \E a \in Addresses, i \in Invites \cup {None} :
    /\ Lower[a] = a
    /\ \E u \in Users : AddressOf[u] = a /\ account[u] # "purged"
    /\ i # None => Acceptable(i) /\ SameAddress(invites[i].email, a)
    /\ Begin(w, [NoRequest EXCEPT !.op = "Register", !.pc = "create", !.email = a,
                                  !.invite = i,
                                  !.org = IF i = None THEN None ELSE invites[i].org])
    /\ UNCHANGED <<account, orgs, members, invites, announced, lock>>

(***************************************************************************)
(* Transactions under the organization row lock                             *)
(***************************************************************************)
\* Mutant: SELECT without FOR UPDATE.
LockFreeIgnored(o) == TRUE
LockFree(o) == lock[o] = None

\* The last-active-member rule of UpdateMemberStatus and RemoveMember.
DemotionAllowed(o, u) ==
  /\ members[o][u] # "none"
  /\ members[o][u] = "active" => CountActive(o) > 1

\* What a transaction requires once it holds the lock.
Admitted(r) ==
  \/ r.op = "AddMember" /\ members[r.org][r.user] = "none"
  \/ r.op \in {"SuspendMember", "RemoveMember"} /\ DemotionAllowed(r.org, r.user)
  \/ r.op = "InviteMember"
  \/ r.op = "AcceptInvite" /\ members[r.org][r.user] # "suspended"

\* SELECT ... FOR UPDATE and the reads after it; a refusal rolls back at once.
LockOrganization(w) ==
  LET r == req[w] IN
  /\ r.pc = "lock" /\ LockFree(r.org)
  /\ IF OrgExists(r.org) /\ Admitted(r)
       THEN /\ lock' = [lock EXCEPT ![r.org] = w]
            /\ req' = [req EXCEPT
                 ![w].pc = "commit",
                 ![w].status = IF r.user = None THEN "none" ELSE members[r.org][r.user],
                 ![w].revoking = IF r.op = "InviteMember"
                                   THEN PendingFor(r.org, r.email) ELSE {}]
       ELSE Finish(w) /\ UNCHANGED lock
  /\ UNCHANGED <<account, orgs, members, invites, announced>>

\* The row UPDATE ... SET status = ... WHERE status = 'pending' still matches.
\* Mutant: the UPDATE goes by id alone.
StillPendingByID(i) == TRUE
StillPending(i) == invites[i].status = "pending"

\* organization_memberships.user_id REFERENCES users.  Mutant: it does not.
ForeignKeyMissing(u) == TRUE
ForeignKeyHolds(u) == Exists(u)

AddMember(w) ==
  LET o == req[w].org  u == req[w].user IN
  /\ At(w, "AddMember", "commit")
  /\ IF ForeignKeyHolds(u)
       THEN /\ members' = [members EXCEPT ![o][u] = Inserted(@, "active")]
            /\ Announce(o, u, "active")
       ELSE UNCHANGED <<members, announced>>
  /\ Finish(w) /\ Unlock(w)
  /\ UNCHANGED <<account, orgs, invites>>

UpdateMemberStatus(w) ==
  LET o == req[w].org  u == req[w].user IN
  /\ At(w, "SuspendMember", "commit")
  /\ members' = [members EXCEPT ![o][u] = IF @ = "none" THEN "none" ELSE "suspended"]
  /\ IF req[w].status # "suspended"
       THEN Announce(o, u, "suspended") ELSE UNCHANGED announced
  /\ Finish(w) /\ Unlock(w)
  /\ UNCHANGED <<account, orgs, invites>>

RemoveMember(w) ==
  LET o == req[w].org  u == req[w].user IN
  /\ At(w, "RemoveMember", "commit")
  /\ members' = [members EXCEPT ![o][u] = "none"]
  /\ Announce(o, u, "none")
  /\ Finish(w) /\ Unlock(w)
  /\ UNCHANGED <<account, orgs, invites>>

\* The partial unique index admits one pending row per organization and address.
CreateInvite(w) ==
  LET r == req[w] IN
  /\ At(w, "InviteMember", "commit")
  /\ IF PendingFor(r.org, r.email) \subseteq r.revoking
       THEN /\ invites' = [i \in Invites |->
                 IF i = r.invite
                   THEN [NoInvite EXCEPT !.status = "pending", !.org = r.org,
                                         !.email = r.email]
                 ELSE IF i \in r.revoking /\ invites[i].status = "pending"
                   THEN [invites[i] EXCEPT !.status = "revoked"]
                 ELSE invites[i]]
            /\ Goto(w, "notify")
       ELSE Finish(w) /\ UNCHANGED invites
  /\ Unlock(w)
  /\ UNCHANGED <<account, orgs, members, announced>>

\* The conditional UPDATE is the single-use gate.
AcceptInvite(w) ==
  LET o == req[w].org  u == req[w].user  i == req[w].invite IN
  /\ At(w, "AcceptInvite", "commit")
  /\ IF StillPending(i)
       THEN /\ invites' = [invites EXCEPT ![i].status = "accepted"]
            /\ members' = [members EXCEPT ![o][u] = Upserted(@)]
            /\ Announce(o, u, "active")
       ELSE UNCHANGED <<invites, members, announced>>
  /\ Finish(w) /\ Unlock(w)
  /\ UNCHANGED <<account, orgs>>

(***************************************************************************)
(* The rest of InviteMember and RevokeInvite                                *)
(***************************************************************************)
\* Mutant: a failed notification leaves the invitation pending.
SendOrgInviteNoCleanup(w) ==
  /\ At(w, "InviteMember", "notify")
  /\ \/ invites' = [invites EXCEPT ![req[w].invite].delivered = TRUE]
     \/ UNCHANGED invites
  /\ Finish(w)
  /\ UNCHANGED <<account, orgs, members, announced, lock>>

\* orbit-notifications answers, fails, or fails after it has delivered.
SendOrgInvite(w) ==
  LET i == req[w].invite IN
  /\ At(w, "InviteMember", "notify")
  /\ \/ invites' = [invites EXCEPT ![i].delivered = TRUE] /\ Finish(w)
     \/ invites' = [invites EXCEPT ![i].delivered = TRUE] /\ Goto(w, "revoke")
     \/ UNCHANGED invites /\ Goto(w, "revoke")
  /\ UNCHANGED <<account, orgs, members, announced, lock>>

\* No organization lock: one conditional UPDATE by id.
RevokeInvite(w) ==
  LET i == req[w].invite IN
  /\ req[w].pc = "revoke"
  /\ IF StillPending(i) /\ invites[i].org = req[w].org
       THEN invites' = [invites EXCEPT ![i].status = "revoked"]
       ELSE UNCHANGED invites
  /\ Finish(w)
  /\ UNCHANGED <<account, orgs, members, announced, lock>>

(***************************************************************************)
(* Organizations and sign-up                                                *)
(***************************************************************************)
CreateOrg(c, o) ==
  /\ "CreateOrg" \in Ops /\ HasSession(c) /\ orgs[o] = "absent"
  /\ orgs' = [orgs EXCEPT ![o] = "live"]
  /\ members' = [members EXCEPT ![o][c] = Inserted(@, "active")]
  /\ Announce(o, c, "active")
  /\ UNCHANGED <<account, invites, lock, req>>

\* INSERT ... ON CONFLICT (email) DO NOTHING inserted no row: a retry.
SignupConflict(w) ==
  /\ At(w, "Register", "create") /\ AddressTaken(req[w].email)
  /\ IF req[w].invite # None THEN Goto(w, "reissue") ELSE Finish(w)
  /\ UNCHANGED <<account, orgs, members, invites, announced, lock>>

\* A new account without an invitation is pending and may own a new organization.
SignupPending(w) ==
  /\ At(w, "Register", "create") /\ ~AddressTaken(req[w].email) /\ req[w].invite = None
  /\ \E u \in Users :
       /\ account[u] = "absent" /\ AddressOf[u] = req[w].email
       /\ account' = [account EXCEPT ![u] = "signup_pending"]
       /\ \/ UNCHANGED <<orgs, members, announced>>
          \/ \E o \in Orgs :
               /\ orgs[o] = "absent"
               /\ orgs' = [orgs EXCEPT ![o] = "live"]
               /\ members' = [members EXCEPT ![o][u] = Inserted(@, "active")]
               /\ Announce(o, u, "active")
  /\ Finish(w)
  /\ UNCHANGED <<invites, lock>>

\* The tail CreateSignupUser and ReissuePendingSignup share: u becomes active and
\* joins, or everything rolls back because the organization or the pending
\* invitation is gone.
JoinByInvite(w, u) ==
  LET o == req[w].org  i == req[w].invite IN
  /\ OrgExists(o) => LockFree(o)
  /\ IF OrgExists(o) /\ StillPending(i)
       THEN /\ account' = [account EXCEPT ![u] = "active"]
            /\ invites' = [invites EXCEPT ![i].status = "accepted"]
            /\ members' = [members EXCEPT ![o][u] = Upserted(@)]
            /\ Announce(o, u, "active")
       ELSE UNCHANGED <<account, invites, members, announced>>
  /\ Finish(w)
  /\ UNCHANGED <<orgs, lock>>

SignupWithInvite(w) ==
  /\ At(w, "Register", "create") /\ ~AddressTaken(req[w].email) /\ req[w].invite # None
  /\ \E u \in Users :
       account[u] = "absent" /\ AddressOf[u] = req[w].email /\ JoinByInvite(w, u)

\* Only a row that is still signup_pending is updated.
ReissuePendingSignup(w) ==
  /\ At(w, "Register", "reissue")
  /\ \/ \E u \in Users : /\ account[u] = "signup_pending"
                         /\ AddressOf[u] = req[w].email
                         /\ JoinByInvite(w, u)
     \/ /\ ~\E u \in Users : account[u] = "signup_pending" /\ AddressOf[u] = req[w].email
        /\ Finish(w)
        /\ UNCHANGED <<account, orgs, members, invites, announced, lock>>

(***************************************************************************)
(* Time, failures and the operator's purge                                  *)
(***************************************************************************)
ExpireInvite(i) ==
  /\ Acceptable(i)
  /\ invites' = [invites EXCEPT ![i].expired = TRUE]
  /\ UNCHANGED <<account, orgs, members, announced, lock, req>>

\* A cancelled context, a lost connection or a crash: the open transaction rolls
\* back and nothing after the last commit happens.
Abort(w) ==
  /\ req[w].pc # "idle"
  /\ lock' = [o \in Orgs |-> IF lock[o] = w THEN None ELSE lock[o]]
  /\ Finish(w)
  /\ UNCHANGED <<account, orgs, members, invites, announced>>

\* Mutant: the DELETE goes by age alone.
PurgeableByAge(u) == Exists(u)
Purgeable(u) == account[u] = "signup_pending"

\* Deletes the pending accounts older than a cutoff, their memberships, and every
\* organization then without a member row, with its invitations.  No event.
PurgeUnverifiedSignups ==
  \E S \in (SUBSET {u \in Users : Purgeable(u)}) \ {{}} :
    LET Empty == {o \in Orgs : OrgExists(o) /\
                    \A u \in Users \ S : members[o][u] = "none"}
    IN /\ \A o \in Empty : LockFree(o)
       /\ account' = [u \in Users |-> IF u \in S THEN "purged" ELSE account[u]]
       /\ members' = [o \in Orgs |-> [u \in Users |->
                        IF u \in S THEN "none" ELSE members[o][u]]]
       /\ orgs' = [o \in Orgs |-> IF o \in Empty THEN "deleted" ELSE orgs[o]]
       /\ invites' = [i \in Invites |->
                        IF invites[i].org \in Empty
                          THEN [NoInvite EXCEPT !.status = "deleted"] ELSE invites[i]]
       /\ UNCHANGED <<announced, lock, req>>

Serve(w) ==
  \/ Check(w) \/ LockOrganization(w)
  \/ AddMember(w) \/ UpdateMemberStatus(w) \/ RemoveMember(w)
  \/ CreateInvite(w) \/ SendOrgInvite(w) \/ RevokeInvite(w) \/ AcceptInvite(w)
  \/ SignupConflict(w) \/ SignupPending(w) \/ SignupWithInvite(w)
  \/ ReissuePendingSignup(w)

Start(w) ==
  StartMemberOp(w) \/ StartInvite(w) \/ StartRevoke(w) \/ StartAccept(w) \/ StartRegister(w)

\* The service as deployed: nothing schedules the purge.
Next ==
  \/ \E u \in Users : CreateAccount(u) \/ VerifySignup(u)
  \/ \E c \in Users, o \in Orgs : CreateOrg(c, o)
  \/ \E w \in Workers : Start(w) \/ Serve(w) \/ Abort(w)
  \/ \E i \in Invites : ExpireInvite(i)

Spec == Init /\ [][Next]_vars

\* The service with an operator who calls the purge.
OperatorNext == Next \/ PurgeUnverifiedSignups

OperatorSpec == Init /\ [][OperatorNext]_vars

\* No crash, and every request is scheduled; Postgres queues the waiters of a row
\* lock, so one that keeps waiting gets it in the end.
SteadyNext ==
  \/ \E u \in Users : CreateAccount(u) \/ VerifySignup(u)
  \/ \E c \in Users, o \in Orgs : CreateOrg(c, o)
  \/ \E w \in Workers : Start(w) \/ Serve(w)
  \/ \E i \in Invites : ExpireInvite(i)

FairSpec == Init /\ [][SteadyNext]_vars /\ \A w \in Workers : SF_vars(Serve(w))

(***************************************************************************)
(* Properties                                                               *)
(***************************************************************************)
\* Every organization has an active member, however suspensions and removals
\* interleave: the row lock makes the count that UpdateMemberStatus and
\* RemoveMember compare still true when they write (ErrLastActiveMember).
LastActiveKept == \A o \in Orgs : OrgExists(o) => \E u \in Users : IsActiveMember(o, u)

\* The outbox events, replayed, name exactly the members of every organization,
\* and every active member as active: events commit with the change they tell of.
MembersAnnounced ==
  \A o \in Orgs, u \in Users :
    /\ announced[o][u] = "none" <=> members[o][u] = "none"
    /\ members[o][u] = "active" => announced[o][u] = "active"

\* No request turns a suspended membership active, whatever the upsert of
\* AcceptInvite, AddMember and the sign-up paths finds.
SuspendedStays ==
  [][\A o \in Orgs, u \in Users :
       members[o][u] = "suspended" => members'[o][u] # "active"]_vars

\* Joining an existing organization takes an AddMember call or uses up, in the
\* same commit, an invitation to that organization and to the joiner's address:
\* one that was revoked or accepted since the handler read it is of no use.
JoinsUseUpInvites ==
  [][\A o \in Orgs, u \in Users :
       OrgExists(o) /\ members[o][u] = "none" /\ members'[o][u] # "none" =>
         \/ \E w \in Workers : /\ At(w, "AddMember", "commit")
                               /\ req[w].org = o /\ req[w].user = u
         \/ \E i \in Invites : /\ invites[i].status = "pending"
                               /\ invites'[i].status = "accepted"
                               /\ invites[i].org = o
                               /\ SameAddress(AddressOf[u], invites[i].email)]_vars

\* When CreateInvite inserts, the pending rows it has revoked are still all there
\* are for that organization and address, so the partial unique index never fires:
\* the row lock serialises re-invitations.
IndexNeverFires ==
  \A w \in Workers :
    At(w, "InviteMember", "commit") =>
      PendingFor(req[w].org, req[w].email) \subseteq req[w].revoking

\* An invitation that was accepted or revoked stays so (until its organization is
\* deleted), although RevokeInvite takes no lock and races acceptance.
InvitesAreFinal ==
  [][\A i \in Invites :
       invites[i].status \in {"accepted", "revoked"} =>
         invites'[i].status \in {invites[i].status, "deleted"}]_vars

\* The purge takes no membership from an account that verified its address; only
\* RemoveMember does.
VerifiedMembersKept ==
  [][\A o \in Orgs, u \in Users :
       account[u] = "active" /\ members[o][u] # "none" /\ members'[o][u] = "none" =>
         \E w \in Workers : /\ At(w, "RemoveMember", "commit")
                            /\ req[w].org = o /\ req[w].user = u]_vars

\* A membership row always has its user and its organization, although AddMember
\* looks the user up before its transaction and the purge may run in between.
NoOrphanMembership ==
  \A o \in Orgs, u \in Users :
    members[o][u] # "none" => Exists(u) /\ OrgExists(o)

\* Every request ends: each error path rolls back and gives the row lock up.
RequestsFinish == \A w \in Workers : req[w].pc # "idle" ~> req[w].pc = "idle"

\* Without crashes, a pending invitation nobody received does not last: InviteMember
\* delivers it or revokes it.
UndeliveredIsRevoked ==
  \A i \in Invites :
    invites[i].status = "pending" ~> invites[i].delivered \/ invites[i].status # "pending"

(***************************************************************************)
(* A statement of the sources that the code does not keep                   *)
(***************************************************************************)
\* "A suspended member cannot use an invitation to reactivate themselves.  The
\* invitation stays pending for an admin to resolve." (AcceptInvite)
SuspendedInviteStaysPending ==
  [][\A i \in Invites :
       invites[i].status = "pending" /\ invites'[i].status = "accepted" =>
         \E u \in Users : /\ SameAddress(AddressOf[u], invites[i].email)
                          /\ members'[invites[i].org][u] = "active"]_vars
=============================================================================
