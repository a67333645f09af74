------------------------- MODULE OrganizationsProofs -------------------------
(***************************************************************************)
(* Proofs about Organizations, for any users, organizations, invitations,   *)
(* workers and addresses: type correctness, the row lock, the last-active-  *)
(* member rule and the truth of the outbox.  OrganizationsInvites goes on   *)
(* with invitations, joins and what the operator's purge leaves behind.     *)
(***************************************************************************)
EXTENDS Organizations, TLAPS

(***************************************************************************)
(* Shape: types, and which fields of a request its operation fills in       *)
(***************************************************************************)
TargetOps == {"AddMember", "SuspendMember", "RemoveMember", "AcceptInvite"}
InviteOps == {"InviteMember", "RevokeInvite", "AcceptInvite"}

RequestOK(r) ==
  /\ r.op \in TargetOps => r.user \in Users
  /\ r.op \in TargetOps \cup InviteOps => r.org \in Orgs
  /\ r.op \in InviteOps => r.invite \in Invites
  /\ r.op = "InviteMember" => r.email \in Addresses
  /\ r.op = "Register" => r.email \in Addresses /\ (r.invite # None => r.org \in Orgs)
  /\ r.pc = "idle" <=> r.op = "none"
  /\ r.pc \in {"check", "lock", "commit"} => r.op \in TargetOps \cup InviteOps
  /\ r.pc = "revoke" => r.op \in {"InviteMember", "RevokeInvite"}
  /\ r.pc = "reissue" => r.op = "Register" /\ r.invite # None

InviteOK(i) == invites[i].status = "pending" => invites[i].org \in Orgs /\ invites[i].email \in Addresses

Shape ==
  /\ TypeOK
  /\ \A w \in Workers : RequestOK(req[w])
  /\ \A i \in Invites : InviteOK(i)

LEMMA ShapeInit == Init => Shape
<1> SUFFICES ASSUME Init PROVE Shape
  OBVIOUS
<1>1. NoRequest \in Request
  BY ConstantsAssumption DEF NoRequest, Request, AllOps, Pcs, MemberStatus
<1>2. NoInvite \in InviteRow
  BY DEF NoInvite, InviteRow
<1>3. TypeOK
  BY <1>1, <1>2 DEF Init, TypeOK, MemberStatus
<1>4. ASSUME NEW w \in Workers PROVE RequestOK(req[w])
  BY DEF Init, RequestOK, NoRequest, TargetOps, InviteOps
<1>5. ASSUME NEW i \in Invites PROVE InviteOK(i)
  BY DEF Init, InviteOK, NoInvite
<1> QED
  BY <1>3, <1>4, <1>5 DEF Shape

\* A step that only rewrites the request of one worker.
LEMMA ShapeRequest ==
  ASSUME Shape, NEW w \in Workers, NEW r \in Request, RequestOK(r),
         req' = [req EXCEPT ![w] = r],
         UNCHANGED <<account, orgs, members, invites, announced, lock>>
  PROVE  Shape'
BY DEF Shape, TypeOK, RequestOK, InviteOK

LEMMA NoRequestOK == NoRequest \in Request /\ RequestOK(NoRequest)
BY ConstantsAssumption DEF NoRequest, Request, AllOps, Pcs, MemberStatus, RequestOK, TargetOps, InviteOps

\* A request starts well formed, before any transaction.
LEMMA StartBegins ==
  ASSUME Shape, NEW w \in Workers, Start(w)
  PROVE  /\ UNCHANGED <<account, orgs, members, invites, announced, lock>>
         /\ \E r \in Request : /\ RequestOK(r) /\ r.pc \in {"check", "lock", "create"}
                               /\ req' = [req EXCEPT ![w] = r]
<1> USE ConstantsAssumption
<1>1. CASE StartMemberOp(w)
  <2>1. PICK op \in {"AddMember", "SuspendMember", "RemoveMember"},
             c \in Users, o \in Orgs, u \in Users :
               /\ Begin(w, [NoRequest EXCEPT !.op = op, !.pc = "check",
                                             !.caller = c, !.org = o, !.user = u])
               /\ UNCHANGED <<account, orgs, members, invites, announced, lock>>
    BY Zenon, <1>1 DEF StartMemberOp
  <2> DEFINE r == [NoRequest EXCEPT !.op = op, !.pc = "check", !.caller = c, !.org = o, !.user = u]
  <2>2. r \in Request /\ RequestOK(r) /\ r.pc \in {"check", "lock", "create"}
    BY Zenon DEF Request, AllOps, Pcs, MemberStatus, RequestOK, TargetOps, InviteOps, NoRequest
  <2>3. req' = [req EXCEPT ![w] = r]
    BY <2>1 DEF Begin
  <2> HIDE DEF r
  <2> QED
    BY Zenon, <2>1, <2>2, <2>3
<1>2. CASE StartInvite(w)
  <2>1. PICK c \in Users, o \in Orgs, a \in Addresses, i \in Invites :
          /\ Begin(w, [NoRequest EXCEPT !.op = "InviteMember", !.pc = "check", !.caller = c,
                                  !.org = o, !.email = Lower[a], !.invite = i])
          /\ UNCHANGED <<account, orgs, members, invites, announced, lock>>
    BY Zenon, <1>2 DEF StartInvite
  <2> DEFINE r == [NoRequest EXCEPT !.op = "InviteMember", !.pc = "check", !.caller = c,
                                  !.org = o, !.email = Lower[a], !.invite = i]
  <2>2. r \in Request /\ RequestOK(r) /\ r.pc \in {"check", "lock", "create"}
    BY ZenonT(60) DEF Request, AllOps, Pcs, MemberStatus, RequestOK, TargetOps, InviteOps, NoRequest
  <2>3. req' = [req EXCEPT ![w] = r]
    BY <2>1 DEF Begin
  <2> HIDE DEF r
  <2> QED
    BY ZenonT(60), <2>1, <2>2, <2>3
<1>3. CASE StartRevoke(w)
  <2>1. PICK c \in Users, o \in Orgs, i \in Invites :
          /\ Begin(w, [NoRequest EXCEPT !.op = "RevokeInvite", !.pc = "check", !.caller = c,
                                  !.org = o, !.invite = i])
          /\ UNCHANGED <<account, orgs, members, invites, announced, lock>>
    BY Zenon, <1>3 DEF StartRevoke
  <2> DEFINE r == [NoRequest EXCEPT !.op = "RevokeInvite", !.pc = "check", !.caller = c,
                                  !.org = o, !.invite = i]
  <2>2. r \in Request /\ RequestOK(r) /\ r.pc \in {"check", "lock", "create"}
    BY ZenonT(60) DEF Request, AllOps, Pcs, MemberStatus, RequestOK, TargetOps, InviteOps, NoRequest
  <2>3. req' = [req EXCEPT ![w] = r]
    BY <2>1 DEF Begin
  <2> HIDE DEF r
  <2> QED
    BY Zenon, <2>1, <2>2, <2>3
<1>4. CASE StartAccept(w)
  <2>1. PICK u \in Users, i \in Invites :
          /\ Acceptable(i)
          /\ Begin(w, [NoRequest EXCEPT !.op = "AcceptInvite", !.pc = "lock", !.user = u,
                                  !.org = invites[i].org, !.invite = i])
          /\ UNCHANGED <<account, orgs, members, invites, announced, lock>>
    BY Zenon, <1>4 DEF StartAccept
  <2> DEFINE r == [NoRequest EXCEPT !.op = "AcceptInvite", !.pc = "lock", !.user = u,
                                  !.org = invites[i].org, !.invite = i]
  <2>2. invites[i].org \in Orgs
    BY <2>1 DEF Acceptable, Shape, InviteOK
  <2>3. r \in Request /\ RequestOK(r) /\ r.pc \in {"check", "lock", "create"}
    BY ZenonT(60), <2>2 DEF Request, AllOps, Pcs, MemberStatus, RequestOK, TargetOps, InviteOps, NoRequest
  <2>4. req' = [req EXCEPT ![w] = r]
    BY <2>1 DEF Begin
  <2> HIDE DEF r
  <2> QED
    BY Zenon, <2>1, <2>3, <2>4
<1>5. CASE StartRegister(w)
  <2>1. PICK a \in Addresses, i \in Invites \cup {None} :
          /\ i # None => Acceptable(i)
          /\ Begin(w, [NoRequest EXCEPT !.op = "Register", !.pc = "create", !.email = a,
                                  !.invite = i,
                                  !.org = IF i = None THEN None ELSE invites[i].org])
          /\ UNCHANGED <<account, orgs, members, invites, announced, lock>>
    BY Zenon, <1>5 DEF StartRegister
  <2> DEFINE o == IF i = None THEN None ELSE invites[i].org
             r == [NoRequest EXCEPT !.op = "Register", !.pc = "create", !.email = a,
                                    !.invite = i, !.org = o]
  <2>2. o \in Orgs \cup {None} /\ (i # None => o \in Orgs)
    BY <2>1 DEF Acceptable, Shape, InviteOK
  <2>3. req' = [req EXCEPT ![w] = r]
    BY <2>1 DEF Begin
  <2> HIDE DEF o
  <2>4. r \in Request /\ RequestOK(r) /\ r.pc \in {"check", "lock", "create"}
    BY Zenon, <2>2 DEF Request, AllOps, Pcs, MemberStatus, RequestOK, TargetOps, InviteOps, NoRequest
  <2> HIDE DEF r
  <2> QED
    BY Zenon, <2>1, <2>3, <2>4
<1> QED
  BY <1>1, <1>2, <1>3, <1>4, <1>5 DEF Start

LEMMA ShapeStart == ASSUME Shape, NEW w \in Workers, Start(w) PROVE Shape'
BY StartBegins, ShapeRequest

\* Goto and Finish keep requests well formed.
LEMMA GotoOK ==
  ASSUME Shape, NEW w \in Workers, NEW pc \in Pcs, Goto(w, pc), req[w].pc # "idle",
         pc # "idle",
         pc \in {"check", "lock", "commit"} => req[w].op \in TargetOps \cup InviteOps,
         pc = "revoke" => req[w].op \in {"InviteMember", "RevokeInvite"},
         pc = "reissue" => req[w].op = "Register" /\ req[w].invite # None
  PROVE  req' \in [Workers -> Request] /\ \A v \in Workers : RequestOK(req'[v])
<1>1. req \in [Workers -> Request] /\ \A v \in Workers : RequestOK(req[v])
  BY DEF Shape, TypeOK
<1> DEFINE r == [req[w] EXCEPT !.pc = pc]
<1>2. req' = [req EXCEPT ![w] = r]
  BY <1>1 DEF Goto
<1>3. r \in Request /\ RequestOK(r)
  BY <1>1 DEF Request, RequestOK
<1> HIDE DEF r
<1> QED
  BY <1>1, <1>2, <1>3

LEMMA FinishOK ==
  ASSUME Shape, NEW w \in Workers, Finish(w)
  PROVE  req' \in [Workers -> Request] /\ \A v \in Workers : RequestOK(req'[v])
BY NoRequestOK DEF Shape, TypeOK, Finish

\* The lock of an organization only ever holds None or a worker.
LEMMA UnlockOK ==
  ASSUME Shape, NEW w \in Workers, Unlock(w)
  PROVE  lock' \in [Orgs -> Workers \cup {None}]
BY Zenon DEF Shape, TypeOK, Unlock

LEMMA ShapeCheck == ASSUME Shape, NEW w \in Workers, Check(w) PROVE Shape'
<1>1. UNCHANGED <<account, orgs, members, invites, announced, lock>> /\ req[w].pc = "check"
  BY DEF Check
<1>2. req[w].op \in TargetOps \cup InviteOps
  BY <1>1 DEF Shape, RequestOK
<1>3. req' \in [Workers -> Request] /\ \A v \in Workers : RequestOK(req'[v])
  <2>1. CASE Checked(req[w]) /\ req[w].op = "RevokeInvite"
    BY <2>1, <1>1, <1>2, GotoOK DEF Check, Pcs
  <2>2. CASE Checked(req[w]) /\ req[w].op # "RevokeInvite"
    BY <2>2, <1>1, <1>2, GotoOK DEF Check, Pcs
  <2>3. CASE ~Checked(req[w])
    BY <2>3, FinishOK DEF Check
  <2> QED
    BY <2>1, <2>2, <2>3
<1> QED
  BY <1>1, <1>3 DEF Shape, TypeOK, InviteOK

LEMMA ShapeLock == ASSUME Shape, NEW w \in Workers, LockOrganization(w) PROVE Shape'
<1>1. UNCHANGED <<account, orgs, members, invites, announced>> /\ req[w].pc = "lock"
  BY DEF LockOrganization
<1>2. /\ req \in [Workers -> Request] /\ \A v \in Workers : RequestOK(req[v])
      /\ lock \in [Orgs -> Workers \cup {None}]
  BY DEF Shape, TypeOK
<1>3. CASE OrgExists(req[w].org) /\ Admitted(req[w])
  <2> DEFINE st == IF req[w].user = None THEN "none" ELSE members[req[w].org][req[w].user]
             rv == IF req[w].op = "InviteMember"
                     THEN PendingFor(req[w].org, req[w].email) ELSE {}
             r == [req[w] EXCEPT !.pc = "commit", !.status = st, !.revoking = rv]
  <2>1. req' = [req EXCEPT ![w] = r] /\ lock' = [lock EXCEPT ![req[w].org] = w]
    BY Zenon, <1>2, <1>3 DEF LockOrganization
  <2>2. req[w].org \in Orgs /\ req[w].op \in TargetOps \cup InviteOps
    BY <1>1, <1>2 DEF RequestOK
  <2>3. st \in MemberStatus
    <3>1. req[w].user \in Users \cup {None}
      BY <1>2 DEF Request
    <3> QED
      BY <2>2, <3>1 DEF Shape, TypeOK, MemberStatus
  <2>4. rv \in SUBSET Invites
    BY DEF PendingFor
  <2> HIDE DEF st, rv
  <2>5. r \in Request /\ RequestOK(r)
    <3>1. r \in Request
      BY ZenonT(60), <1>2, <2>3, <2>4 DEF Request, Pcs
    <3>2. /\ r.op = req[w].op /\ r.user = req[w].user /\ r.org = req[w].org
          /\ r.invite = req[w].invite /\ r.email = req[w].email /\ r.pc = "commit"
      BY <1>2 DEF Request
    <3>3. RequestOK(req[w])
      BY <1>2
    <3> HIDE DEF r
    <3> QED
      BY <1>1, <2>2, <3>1, <3>2, <3>3 DEF RequestOK
  <2> HIDE DEF r
  <2>6. req' \in [Workers -> Request] /\ \A v \in Workers : RequestOK(req'[v])
    BY <1>2, <2>1, <2>5
  <2>7. lock' \in [Orgs -> Workers \cup {None}]
    BY Zenon, <1>2, <2>1
  <2> QED
    BY <1>1, <2>6, <2>7 DEF Shape, TypeOK, InviteOK
<1>4. CASE ~(OrgExists(req[w].org) /\ Admitted(req[w]))
  <2>1. Finish(w) /\ UNCHANGED lock
    BY <1>4 DEF LockOrganization
  <2> QED
    BY <1>1, <2>1, FinishOK DEF Shape, TypeOK, InviteOK
<1> QED
  BY <1>3, <1>4

LEMMA ShapeMembers ==
  ASSUME Shape, NEW w \in Workers, AddMember(w) \/ UpdateMemberStatus(w) \/ RemoveMember(w)
  PROVE  Shape'
<1> DEFINE o == req[w].org
           u == req[w].user
<1>1. Finish(w) /\ Unlock(w) /\ UNCHANGED <<account, orgs, invites>>
  BY DEF AddMember, UpdateMemberStatus, RemoveMember
<1>2. o \in Orgs /\ u \in Users
  BY DEF AddMember, UpdateMemberStatus, RemoveMember, At, Shape, RequestOK, TargetOps
<1>3. /\ members \in [Orgs -> [Users -> MemberStatus]]
      /\ announced \in [Orgs -> [Users -> MemberStatus]]
      /\ members[o][u] \in MemberStatus
  BY <1>2 DEF Shape, TypeOK
<1>4. members' \in [Orgs -> [Users -> MemberStatus]]
  <2>1. CASE AddMember(w)
    <3>1. CASE ForeignKeyHolds(u)
      <4>1. members' = [members EXCEPT ![o][u] = Inserted(members[o][u], "active")]
        BY <2>1, <3>1, <1>2, <1>3 DEF AddMember
      <4>2. Inserted(members[o][u], "active") \in MemberStatus
        BY <1>3 DEF Inserted, MemberStatus
      <4> QED
        BY <1>2, <1>3, <4>1, <4>2
    <3>2. CASE ~ForeignKeyHolds(u)
      BY <1>3, <2>1, <3>2 DEF AddMember
    <3> QED
      BY <3>1, <3>2
  <2>2. CASE UpdateMemberStatus(w)
    BY <1>2, <1>3, <2>2 DEF UpdateMemberStatus, MemberStatus
  <2>3. CASE RemoveMember(w)
    BY <1>2, <1>3, <2>3 DEF RemoveMember, MemberStatus
  <2> QED
    BY <2>1, <2>2, <2>3
<1>5. announced' \in [Orgs -> [Users -> MemberStatus]]
  <2>1. PICK s \in MemberStatus : UNCHANGED announced \/ Announce(o, u, s)
    BY DEF AddMember, UpdateMemberStatus, RemoveMember, MemberStatus
  <2>2. CASE UNCHANGED announced
    BY <1>3, <2>2
  <2>3. CASE Announce(o, u, s)
    BY <1>2, <1>3, <2>3 DEF Announce
  <2> QED
    BY <2>1, <2>2, <2>3
<1> QED
  BY <1>1, <1>4, <1>5, FinishOK, UnlockOK DEF Shape, TypeOK, InviteOK

LEMMA InviteRowOK ==
  ASSUME Shape, NEW i \in Invites, NEW row \in InviteRow,
         row.status = "pending" => row.org \in Orgs /\ row.email \in Addresses,
         invites' = [invites EXCEPT ![i] = row]
  PROVE  invites' \in [Invites -> InviteRow] /\ (\A j \in Invites : InviteOK(j))'
BY DEF Shape, TypeOK, InviteOK

LEMMA ShapeInvites ==
  ASSUME Shape, NEW w \in Workers, CreateInvite(w) \/ SendOrgInvite(w) \/ RevokeInvite(w)
  PROVE  Shape'
<1> DEFINE r == req[w]
           i == req[w].invite
<1>1. UNCHANGED <<account, orgs, members, announced>>
  BY DEF CreateInvite, SendOrgInvite, RevokeInvite
<1>2. r \in Request /\ RequestOK(r) /\ r.pc # "idle" /\ r.op \in {"InviteMember", "RevokeInvite"}
  BY DEF CreateInvite, SendOrgInvite, RevokeInvite, At, Shape, TypeOK, RequestOK
<1>3. lock' \in [Orgs -> Workers \cup {None}]
  BY UnlockOK DEF CreateInvite, SendOrgInvite, RevokeInvite, Shape, TypeOK
<1>4. req' \in [Workers -> Request] /\ \A v \in Workers : RequestOK(req'[v])
  <2>1. CASE Finish(w)
    BY <2>1, FinishOK
  <2>2. CASE Goto(w, "notify")
    BY <1>2, <2>2, GotoOK DEF Pcs
  <2>3. CASE Goto(w, "revoke")
    BY <1>2, <2>3, GotoOK DEF Pcs
  <2> QED
    BY <2>1, <2>2, <2>3 DEF CreateInvite, SendOrgInvite, RevokeInvite
<1>5. invites \in [Invites -> InviteRow] /\ \A j \in Invites : InviteOK(j)
  BY DEF Shape, TypeOK
<1>6. invites' \in [Invites -> InviteRow] /\ (\A j \in Invites : InviteOK(j))'
  <2>1. CASE CreateInvite(w)
    <3>1. r.org \in Orgs /\ r.email \in Addresses
      BY <1>2, <2>1 DEF CreateInvite, At, RequestOK, InviteOps
    <3> DEFINE new == [NoInvite EXCEPT !.status = "pending", !.org = r.org, !.email = r.email]
    <3>2. new \in InviteRow /\ new.org \in Orgs /\ new.email \in Addresses
      BY Zenon, <3>1 DEF NoInvite, InviteRow
    <3>3. ASSUME NEW j \in Invites
          PROVE  /\ [invites[j] EXCEPT !.status = "revoked"] \in InviteRow
                 /\ [invites[j] EXCEPT !.status = "revoked"].status = "revoked"
      BY <1>5 DEF InviteRow
    <3>4. \/ UNCHANGED invites
          \/ /\ DOMAIN invites' = Invites
             /\ invites' = [j \in Invites |-> invites'[j]]
             /\ \A j \in Invites : \/ invites'[j] = new
                                  \/ invites'[j] = [invites[j] EXCEPT !.status = "revoked"]
                                  \/ invites'[j] = invites[j]
      BY <2>1 DEF CreateInvite
    <3> HIDE DEF new
    <3> QED
      BY Zenon, <1>5, <3>2, <3>3, <3>4 DEF InviteOK
  <2>2. CASE SendOrgInvite(w)
    <3>1. UNCHANGED invites \/ invites' = [invites EXCEPT ![i].delivered = TRUE]
      BY <2>2 DEF SendOrgInvite
    <3>2. i \in Invites
      BY <1>2 DEF RequestOK, InviteOps
    <3> DEFINE row == [invites[i] EXCEPT !.delivered = TRUE]
    <3>3. row \in InviteRow /\ (row.status = "pending" => row.org \in Orgs /\ row.email \in Addresses)
      BY ZenonT(60), <1>5, <3>2 DEF InviteRow, InviteOK
    <3>4. UNCHANGED invites \/ invites' = [invites EXCEPT ![i] = row]
      BY <1>5, <3>1, <3>2
    <3> HIDE DEF row
    <3> QED
      BY <1>5, <3>2, <3>3, <3>4, InviteRowOK DEF InviteOK
  <2>3. CASE RevokeInvite(w)
    <3>1. UNCHANGED invites \/ invites' = [invites EXCEPT ![i].status = "revoked"]
      BY <2>3 DEF RevokeInvite
    <3> QED
      BY <1>5, <3>1 DEF InviteRow, InviteOK
  <2> QED
    BY <2>1, <2>2, <2>3
<1> QED
  BY <1>1, <1>3, <1>4, <1>6 DEF Shape, TypeOK

\* What an acceptance writes, in AcceptInvite and in the sign-up paths alike.
LEMMA AcceptedOK ==
  ASSUME Shape, NEW o \in Orgs, NEW u \in Users, NEW i \in Invites,
         invites' = [invites EXCEPT ![i].status = "accepted"],
         members' = [members EXCEPT ![o][u] = Upserted(@)],
         Announce(o, u, "active")
  PROVE  /\ invites' \in [Invites -> InviteRow] /\ (\A j \in Invites : InviteOK(j))'
         /\ members' \in [Orgs -> [Users -> MemberStatus]]
         /\ announced' \in [Orgs -> [Users -> MemberStatus]]
<1>1. invites' \in [Invites -> InviteRow] /\ (\A j \in Invites : InviteOK(j))'
  <2> DEFINE row == [invites[i] EXCEPT !.status = "accepted"]
  <2>1. row \in InviteRow /\ row.status = "accepted"
    BY Zenon DEF Shape, TypeOK, InviteRow
  <2>2. invites' = [invites EXCEPT ![i] = row]
    BY DEF Shape, TypeOK
  <2> HIDE DEF row
  <2> QED
    BY Zenon, <2>1, <2>2, InviteRowOK
<1>2. Upserted(members[o][u]) \in MemberStatus
  BY DEF Shape, TypeOK, Upserted, MemberStatus
<1>3. members' = [members EXCEPT ![o][u] = Upserted(members[o][u])]
  BY DEF Shape, TypeOK
<1> QED
  BY <1>1, <1>2, <1>3 DEF Shape, TypeOK, Announce, MemberStatus

LEMMA ShapeAccept == ASSUME Shape, NEW w \in Workers, AcceptInvite(w) PROVE Shape'
<1>1. Finish(w) /\ Unlock(w) /\ UNCHANGED <<account, orgs>>
  BY DEF AcceptInvite
<1>2. req[w].org \in Orgs /\ req[w].user \in Users /\ req[w].invite \in Invites
  BY DEF AcceptInvite, At, Shape, RequestOK, TargetOps, InviteOps
<1>3. /\ invites' \in [Invites -> InviteRow] /\ (\A j \in Invites : InviteOK(j))'
      /\ members' \in [Orgs -> [Users -> MemberStatus]]
      /\ announced' \in [Orgs -> [Users -> MemberStatus]]
  <2>1. CASE StillPending(req[w].invite)
    BY <1>2, <2>1, AcceptedOK DEF AcceptInvite
  <2>2. CASE ~StillPending(req[w].invite)
    BY <2>2 DEF AcceptInvite, Shape, TypeOK, InviteOK
  <2> QED
    BY <2>1, <2>2
<1> QED
  BY <1>1, <1>3, FinishOK, UnlockOK DEF Shape, TypeOK

LEMMA ShapeJoin ==
  ASSUME Shape, NEW w \in Workers, NEW u \in Users, JoinByInvite(w, u),
         req[w].op = "Register", req[w].invite # None
  PROVE  Shape'
<1>1. Finish(w) /\ UNCHANGED <<orgs, lock>>
  BY DEF JoinByInvite
<1>2. req[w].org \in Orgs /\ req[w].invite \in Invites
  BY DEF Shape, TypeOK, Request, RequestOK
<1>3. /\ invites' \in [Invites -> InviteRow] /\ (\A j \in Invites : InviteOK(j))'
      /\ members' \in [Orgs -> [Users -> MemberStatus]]
      /\ announced' \in [Orgs -> [Users -> MemberStatus]]
      /\ account' \in [Users -> {"absent", "signup_pending", "active", "purged"}]
  <2>1. CASE OrgExists(req[w].org) /\ StillPending(req[w].invite)
    <3>1. account' = [account EXCEPT ![u] = "active"]
      BY <2>1 DEF JoinByInvite
    <3>2. account' \in [Users -> {"absent", "signup_pending", "active", "purged"}]
      BY <3>1 DEF Shape, TypeOK
    <3> QED
      BY <1>2, <2>1, <3>2, AcceptedOK DEF JoinByInvite
  <2>2. CASE ~(OrgExists(req[w].org) /\ StillPending(req[w].invite))
    BY <2>2 DEF JoinByInvite, Shape, TypeOK, InviteOK
  <2> QED
    BY <2>1, <2>2
<1> QED
  BY <1>1, <1>3, FinishOK DEF Shape, TypeOK

LEMMA ShapeSignup ==
  ASSUME Shape, NEW w \in Workers,
         SignupConflict(w) \/ SignupPending(w) \/ SignupWithInvite(w) \/ ReissuePendingSignup(w)
  PROVE  Shape'
<1>1. CASE SignupConflict(w)
  <2>1. /\ UNCHANGED <<account, orgs, members, invites, announced, lock>>
        /\ \/ Finish(w)
           \/ /\ Goto(w, "reissue")
              /\ req[w].pc = "create" /\ req[w].op = "Register" /\ req[w].invite # None
    BY <1>1 DEF SignupConflict, At
  <2>2. req' \in [Workers -> Request] /\ \A v \in Workers : RequestOK(req'[v])
    BY <2>1, FinishOK, GotoOK DEF Pcs
  <2> QED
    BY <2>1, <2>2 DEF Shape, TypeOK, InviteOK
<1>2. CASE SignupPending(w)
  <2>1. PICK u \in Users :
          /\ account' = [account EXCEPT ![u] = "signup_pending"]
          /\ \/ UNCHANGED <<orgs, members, announced>>
             \/ \E o \in Orgs :
                  /\ orgs' = [orgs EXCEPT ![o] = "live"]
                  /\ members' = [members EXCEPT ![o][u] = Inserted(@, "active")]
                  /\ Announce(o, u, "active")
    BY Zenon, <1>2 DEF SignupPending
  <2>2. Finish(w) /\ UNCHANGED <<invites, lock>>
    BY <1>2 DEF SignupPending
  <2>3. /\ orgs' \in [Orgs -> {"absent", "live", "deleted"}]
        /\ members' \in [Orgs -> [Users -> MemberStatus]]
        /\ announced' \in [Orgs -> [Users -> MemberStatus]]
    <3>1. CASE UNCHANGED <<orgs, members, announced>>
      BY <3>1 DEF Shape, TypeOK
    <3>2. ASSUME NEW o \in Orgs,
                 orgs' = [orgs EXCEPT ![o] = "live"],
                 members' = [members EXCEPT ![o][u] = Inserted(@, "active")],
                 Announce(o, u, "active")
          PROVE  <2>3!1 /\ <2>3!2 /\ <2>3!3
      <4>1. Inserted(members[o][u], "active") \in MemberStatus
        BY DEF Shape, TypeOK, Inserted, MemberStatus
      <4>2. members' = [members EXCEPT ![o][u] = Inserted(members[o][u], "active")]
        BY <3>2 DEF Shape, TypeOK
      <4> QED
        BY <3>2, <4>1, <4>2 DEF Shape, TypeOK, Announce, MemberStatus
    <3> QED
      BY <2>1, <3>1, <3>2
  <2>4. account' \in [Users -> {"absent", "signup_pending", "active", "purged"}]
    BY <2>1 DEF Shape, TypeOK
  <2> QED
    BY <2>2, <2>3, <2>4, FinishOK DEF Shape, TypeOK, InviteOK
<1>3. CASE SignupWithInvite(w)
  BY <1>3, ShapeJoin DEF SignupWithInvite, At
<1>4. CASE ReissuePendingSignup(w)
  <2>1. CASE Finish(w) /\ UNCHANGED <<account, orgs, members, invites, announced, lock>>
    BY <2>1, FinishOK DEF Shape, TypeOK, InviteOK
  <2>2. CASE \E u \in Users : JoinByInvite(w, u)
    <3>1. req[w].op = "Register" /\ req[w].invite # None
      BY <1>4 DEF ReissuePendingSignup, At, Shape, RequestOK
    <3> QED
      BY <2>2, <3>1, ShapeJoin
  <2> QED
    BY <1>4, <2>1, <2>2 DEF ReissuePendingSignup
<1> QED
  BY <1>1, <1>2, <1>3, <1>4

LEMMA ShapeRest ==
  ASSUME Shape,
         \/ \E u \in Users : CreateAccount(u) \/ VerifySignup(u)
         \/ \E c \in Users, o \in Orgs : CreateOrg(c, o)
         \/ \E w \in Workers : Abort(w)
         \/ \E i \in Invites : ExpireInvite(i)
  PROVE  Shape'
<1>1. ASSUME NEW u \in Users, CreateAccount(u) \/ VerifySignup(u) PROVE Shape'
  BY <1>1 DEF CreateAccount, VerifySignup, Shape, TypeOK, InviteOK
<1>2. ASSUME NEW c \in Users, NEW o \in Orgs, CreateOrg(c, o) PROVE Shape'
  <2>1. Inserted(members[o][c], "active") \in MemberStatus
    BY DEF Shape, TypeOK, Inserted, MemberStatus
  <2>2. members' = [members EXCEPT ![o][c] = Inserted(members[o][c], "active")]
    BY <1>2 DEF CreateOrg, Shape, TypeOK
  <2>3. members' \in [Orgs -> [Users -> MemberStatus]]
    BY <2>1, <2>2 DEF Shape, TypeOK
  <2>4. announced' \in [Orgs -> [Users -> MemberStatus]]
    BY <1>2 DEF CreateOrg, Shape, TypeOK, Announce, MemberStatus
  <2> QED
    BY <1>2, <2>3, <2>4 DEF CreateOrg, Shape, TypeOK, InviteOK
<1>3. ASSUME NEW w \in Workers, Abort(w) PROVE Shape'
  <2>1. lock' \in [Orgs -> Workers \cup {None}]
    BY <1>3 DEF Abort, Shape, TypeOK
  <2> QED
    BY <1>3, <2>1, FinishOK DEF Abort, Shape, TypeOK, InviteOK
<1>4. ASSUME NEW i \in Invites, ExpireInvite(i) PROVE Shape'
  <2> DEFINE row == [invites[i] EXCEPT !.expired = TRUE]
  <2>1. row \in InviteRow /\ (row.status = "pending" => row.org \in Orgs /\ row.email \in Addresses)
    BY ZenonT(60) DEF Shape, TypeOK, InviteRow, InviteOK
  <2>2. invites' = [invites EXCEPT ![i] = row]
    BY <1>4 DEF ExpireInvite, Shape, TypeOK
  <2> HIDE DEF row
  <2> QED
    BY Zenon, <1>4, <2>1, <2>2, InviteRowOK DEF ExpireInvite, Shape, TypeOK
<1> QED
  BY <1>1, <1>2, <1>3, <1>4

LEMMA ShapeNext == ASSUME Shape, [Next]_vars PROVE Shape'
<1>1. CASE \E w \in Workers : Start(w) \/ Serve(w)
  BY <1>1, ShapeStart, ShapeCheck, ShapeLock, ShapeMembers, ShapeInvites, ShapeAccept, ShapeSignup
     DEF Serve
<1>2. CASE UNCHANGED vars
  BY <1>2 DEF vars, Shape, TypeOK, InviteOK
<1> QED
  BY <1>1, <1>2, ShapeRest DEF Next

(***************************************************************************)
(* The purge: S are the accounts it deletes, E the organizations             *)
(***************************************************************************)
Purges(S, E) ==
  /\ \A u \in S : Purgeable(u)
  /\ \A o \in E : OrgExists(o) /\ LockFree(o) /\ \A u \in Users \ S : members[o][u] = "none"
  /\ account' = [u \in Users |-> IF u \in S THEN "purged" ELSE account[u]]
  /\ members' = [o \in Orgs |-> [u \in Users |-> IF u \in S THEN "none" ELSE members[o][u]]]
  /\ orgs' = [o \in Orgs |-> IF o \in E THEN "deleted" ELSE orgs[o]]
  /\ invites' = [i \in Invites |->
                   IF invites[i].org \in E
                     THEN [NoInvite EXCEPT !.status = "deleted"] ELSE invites[i]]
  /\ UNCHANGED <<announced, lock, req>>

LEMMA PurgeEffect ==
  ASSUME PurgeUnverifiedSignups
  PROVE  \E S \in SUBSET Users, E \in SUBSET Orgs : Purges(S, E)
<1>1. PICK S \in (SUBSET {u \in Users : Purgeable(u)}) \ {{}} :
    LET Empty == {o \in Orgs : OrgExists(o) /\
                    \A u \in Users \ S : members[o][u] = "none"}
    IN /\ \A o \in Empty : LockFree(o)
       /\ account' = [u \in Users |-> IF u \in S THEN "purged" ELSE account[u]]
       /\ members' = [o \in Orgs |-> [u \in Users |->
                        IF u \in S THEN "none" ELSE members[o][u]]]
       /\ orgs' = [o \in Orgs |-> IF o \in Empty THEN "deleted" ELSE orgs[o]]
       /\ invites' = [i \in Invites |->
                        IF invites[i].org \in Empty
                          THEN [NoInvite EXCEPT !.status = "deleted"] ELSE invites[i]]
       /\ UNCHANGED <<announced, lock, req>>
  BY Zenon DEF PurgeUnverifiedSignups
<1> DEFINE E == {o \in Orgs : OrgExists(o) /\ \A u \in Users \ S : members[o][u] = "none"}
<1>2. E \in SUBSET Orgs /\ S \in SUBSET Users /\ \A u \in S : Purgeable(u)
  BY <1>1
<1>3. \A o \in E : OrgExists(o) /\ \A u \in Users \ S : members[o][u] = "none"
  OBVIOUS
<1>4. /\ \A o \in E : LockFree(o)
      /\ account' = [u \in Users |-> IF u \in S THEN "purged" ELSE account[u]]
      /\ members' = [o \in Orgs |-> [u \in Users |-> IF u \in S THEN "none" ELSE members[o][u]]]
      /\ orgs' = [o \in Orgs |-> IF o \in E THEN "deleted" ELSE orgs[o]]
      /\ invites' = [i \in Invites |->
                       IF invites[i].org \in E
                         THEN [NoInvite EXCEPT !.status = "deleted"] ELSE invites[i]]
      /\ UNCHANGED <<announced, lock, req>>
  BY Zenon, <1>1
<1> HIDE DEF E
<1>5. Purges(S, E)
  BY Zenon, <1>2, <1>3, <1>4 DEF Purges
<1> QED
  BY Zenon, <1>2, <1>5

\* The purge deletes rows whole.
LEMMA ShapePurge == ASSUME Shape, PurgeUnverifiedSignups PROVE Shape'
<1>0. PICK S \in SUBSET Users, E \in SUBSET Orgs : Purges(S, E)
  BY PurgeEffect
<1>1. /\ account' = [u \in Users |-> IF u \in S THEN "purged" ELSE account[u]]
      /\ members' = [o \in Orgs |-> [u \in Users |-> IF u \in S THEN "none" ELSE members[o][u]]]
      /\ orgs' = [o \in Orgs |-> IF o \in E THEN "deleted" ELSE orgs[o]]
      /\ invites' = [i \in Invites |->
                       IF invites[i].org \in E
                         THEN [NoInvite EXCEPT !.status = "deleted"] ELSE invites[i]]
      /\ UNCHANGED <<announced, lock, req>>
  BY <1>0 DEF Purges
<1>2. account' \in [Users -> {"absent", "signup_pending", "active", "purged"}]
  BY <1>1 DEF Shape, TypeOK
<1>3. orgs' \in [Orgs -> {"absent", "live", "deleted"}]
  BY <1>1 DEF Shape, TypeOK
<1>4. members' \in [Orgs -> [Users -> MemberStatus]]
  BY <1>1 DEF Shape, TypeOK, MemberStatus
<1> DEFINE gone == [NoInvite EXCEPT !.status = "deleted"]
<1>5. gone \in InviteRow /\ gone.status = "deleted"
  BY Zenon DEF NoInvite, InviteRow
<1>6. invites' = [i \in Invites |-> IF invites[i].org \in E THEN gone ELSE invites[i]]
  BY <1>1
<1> HIDE DEF gone
<1>7. invites' \in [Invites -> InviteRow] /\ \A i \in Invites : InviteOK(i)'
  BY <1>5, <1>6 DEF Shape, TypeOK, InviteOK
<1> QED
  <2>1. UNCHANGED <<announced, lock, req>>
    BY <1>1
  <2>2. TypeOK'
    BY <1>2, <1>3, <1>4, <1>7, <2>1 DEF Shape, TypeOK
  <2>3. \A w \in Workers : RequestOK(req[w])'
    BY <2>1 DEF Shape
  <2> QED
    BY Zenon, <1>7, <2>2, <2>3 DEF Shape

LEMMA ShapeAlways == OperatorSpec => []Shape
<1>1. Shape /\ [OperatorNext]_vars => Shape'
  BY ShapeNext, ShapePurge DEF OperatorNext
<1> QED
  BY <1>1, ShapeInit, PTL DEF OperatorSpec

\* An operator who never calls the purge.
LEMMA SpecIsOperated == Spec => OperatorSpec
<1>1. [Next]_vars => [OperatorNext]_vars
  BY DEF OperatorNext
<1> QED
  BY <1>1, PTL DEF Spec, OperatorSpec

\* TypeOK holds in every reachable state, with the purge and without: requests carry the
\* fields their operation needs, so no transaction writes a row or an event outside the
\* tables.
THEOREM TypeCorrect == OperatorSpec => []TypeOK
<1>1. Shape => TypeOK
  BY DEF Shape
<1> QED
  BY <1>1, ShapeAlways, PTL

(***************************************************************************)
(* The row lock: a transaction past SELECT ... FOR UPDATE holds the lock    *)
(***************************************************************************)
LockHeld ==
  \A w \in Workers :
    req[w].pc = "commit" => lock[req[w].org] = w /\ OrgExists(req[w].org)

Acts(w) == Start(w) \/ Serve(w) \/ Abort(w)

LEMMA OthersKept ==
  ASSUME Shape, NEW w \in Workers, Acts(w)
  PROVE  \A v \in Workers \ {w} : req'[v] = req[v]
<1> SUFFICES ASSUME NEW v \in Workers, v # w PROVE req'[v] = req[v]
  OBVIOUS
<1>1. req \in [Workers -> Request]
  BY DEF Shape, TypeOK
<1>2. CASE Finish(w)
  BY <1>1, <1>2 DEF Finish
<1>3. CASE \E pc \in Pcs : Goto(w, pc)
  BY <1>1, <1>3 DEF Goto
<1>4. CASE Start(w)
  BY <1>1, <1>4, StartBegins
<1>5. CASE LockOrganization(w)
  BY <1>1, <1>2, <1>5 DEF LockOrganization
<1>6. CASE Check(w)
  BY SMTT(60), <1>2, <1>3, <1>6 DEF Check, Pcs
<1>7. CASE AddMember(w) \/ UpdateMemberStatus(w) \/ RemoveMember(w) \/ AcceptInvite(w)
  BY <1>2, <1>7 DEF AddMember, UpdateMemberStatus, RemoveMember, AcceptInvite
<1>8. CASE CreateInvite(w) \/ SendOrgInvite(w) \/ RevokeInvite(w)
  BY <1>2, <1>3, <1>8 DEF CreateInvite, SendOrgInvite, RevokeInvite, Pcs
<1>9. CASE SignupConflict(w)
  BY SMTT(60), <1>2, <1>3, <1>9 DEF SignupConflict, Pcs
<1>10. CASE SignupPending(w) \/ SignupWithInvite(w) \/ ReissuePendingSignup(w) \/ Abort(w)
  BY Zenon, <1>2, <1>10 DEF SignupPending, SignupWithInvite, ReissuePendingSignup, JoinByInvite, Abort
<1> QED
  BY <1>4, <1>5, <1>6, <1>7, <1>8, <1>9, <1>10 DEF Acts, Serve

\* Only LockOrganization takes a request to its commit.
LEMMA CommitTakesLock ==
  ASSUME Shape, NEW w \in Workers, Acts(w), req'[w].pc = "commit"
  PROVE  LockOrganization(w)
<1>1. req \in [Workers -> Request]
  BY DEF Shape, TypeOK
<1>2. ~Finish(w)
  BY <1>1 DEF Finish, NoRequest
<1>3. ASSUME NEW pc \in Pcs \ {"commit"} PROVE ~Goto(w, pc)
  <2>1. req[w] \in Request
    BY <1>1
  <2> QED
    BY <1>1, <2>1 DEF Goto, Request
<1>4. ~Start(w)
  BY <1>1, StartBegins
<1>5. ~Check(w)
  BY <1>2, <1>3 DEF Check, Pcs
<1>6. ~(AddMember(w) \/ UpdateMemberStatus(w) \/ RemoveMember(w) \/ AcceptInvite(w))
  BY <1>2 DEF AddMember, UpdateMemberStatus, RemoveMember, AcceptInvite
<1>7. ~(CreateInvite(w) \/ SendOrgInvite(w) \/ RevokeInvite(w))
  BY <1>2, <1>3 DEF CreateInvite, SendOrgInvite, RevokeInvite, Pcs
<1>8. ~SignupConflict(w)
  BY SMTT(60), <1>2, <1>3 DEF SignupConflict, Pcs
<1>9. ~(SignupPending(w) \/ SignupWithInvite(w) \/ ReissuePendingSignup(w) \/ Abort(w))
  BY ZenonT(60), <1>2 DEF SignupPending, SignupWithInvite, ReissuePendingSignup, JoinByInvite, Abort
<1> QED
  BY <1>4, <1>5, <1>6, <1>7, <1>8, <1>9 DEF Acts, Serve

\* A step of w leaves the locks of the other workers alone.
LEMMA OtherLocksKept ==
  ASSUME Shape, LockHeld, NEW w \in Workers, Acts(w),
         NEW o \in Orgs, lock[o] # None, lock[o] # w
  PROVE  lock'[o] = lock[o]
<1>1. lock \in [Orgs -> Workers \cup {None}]
  BY DEF Shape, TypeOK
<1>2. CASE UNCHANGED lock
  BY <1>2
<1>3. CASE Unlock(w) /\ req[w].pc = "commit"
  BY <1>1, <1>3 DEF Unlock, LockHeld
<1>4. CASE LockOrganization(w)
  BY <1>1, <1>4 DEF LockOrganization, LockFree
<1>5. CASE Abort(w)
  BY <1>1, <1>5 DEF Abort
<1>6. CASE Start(w)
  BY SMTT(60), <1>2, <1>6, StartBegins
<1>7. CASE \/ AddMember(w) \/ UpdateMemberStatus(w) \/ RemoveMember(w)
           \/ CreateInvite(w) \/ AcceptInvite(w)
  BY SMTT(60), <1>3, <1>7 DEF AddMember, UpdateMemberStatus, RemoveMember, CreateInvite, AcceptInvite, At
<1>8. CASE \/ Check(w) \/ SendOrgInvite(w) \/ RevokeInvite(w) \/ SignupConflict(w)
           \/ SignupPending(w) \/ SignupWithInvite(w) \/ ReissuePendingSignup(w)
  BY Zenon, <1>2, <1>8 DEF Check, SendOrgInvite, RevokeInvite, SignupConflict, SignupPending,
                    SignupWithInvite, ReissuePendingSignup, JoinByInvite
<1> QED
  BY <1>4, <1>5, <1>6, <1>7, <1>8 DEF Acts, Serve

LEMMA OrgsStay ==
  ASSUME Shape, Next, NEW o \in Orgs, OrgExists(o) PROVE orgs'[o] = "live"
<1>1. CASE UNCHANGED orgs
  BY <1>1 DEF OrgExists
<1>2. ASSUME NEW c \in Users, NEW p \in Orgs, CreateOrg(c, p) PROVE orgs'[o] = "live"
  BY <1>2 DEF CreateOrg, OrgExists, Shape, TypeOK
<1>3. ASSUME NEW w \in Workers, SignupPending(w) PROVE orgs'[o] = "live"
  BY <1>3 DEF SignupPending, OrgExists, Shape, TypeOK
<1>4. ASSUME NEW w \in Workers, Start(w) PROVE orgs'[o] = "live"
  BY SMTT(60), <1>1, <1>4, StartBegins
<1>5. ASSUME NEW w \in Workers, Serve(w) \/ Abort(w), ~SignupPending(w) PROVE UNCHANGED orgs
  BY Zenon, <1>5 DEF Serve, Abort, Check, LockOrganization, AddMember, UpdateMemberStatus, RemoveMember,
              CreateInvite, SendOrgInvite, RevokeInvite, AcceptInvite, SignupConflict,
              SignupWithInvite, ReissuePendingSignup, JoinByInvite
<1>6. CASE (\E u \in Users : CreateAccount(u) \/ VerifySignup(u)) \/ \E i \in Invites : ExpireInvite(i)
  BY <1>1, <1>6 DEF CreateAccount, VerifySignup, ExpireInvite
<1> QED
  BY <1>1, <1>2, <1>3, <1>4, <1>5, <1>6 DEF Next

\* A step that no worker takes leaves locks and requests alone.
LEMMA NobodyActs ==
  ASSUME \/ \E u \in Users : CreateAccount(u) \/ VerifySignup(u)
         \/ \E c \in Users, o \in Orgs : CreateOrg(c, o)
         \/ \E i \in Invites : ExpireInvite(i)
  PROVE  UNCHANGED <<lock, req>>
BY DEF CreateAccount, VerifySignup, CreateOrg, ExpireInvite

LEMMA LockHeldNext == ASSUME Shape, LockHeld, [Next]_vars PROVE LockHeld'
<1>1. CASE UNCHANGED vars
  BY <1>1 DEF vars, LockHeld, OrgExists
<1>2. ASSUME Next, UNCHANGED <<lock, req>> PROVE LockHeld'
  <2>1. ASSUME NEW v \in Workers, req[v].pc = "commit"
        PROVE  req[v].org \in Orgs
    BY <2>1 DEF Shape, RequestOK
  <2> QED
    BY <1>2, <2>1, OrgsStay DEF LockHeld, OrgExists
<1>3. ASSUME Next, NEW w \in Workers, Acts(w) PROVE LockHeld'
  <2> SUFFICES ASSUME NEW v \in Workers, req'[v].pc = "commit"
               PROVE  lock'[req'[v].org] = v /\ orgs'[req'[v].org] = "live"
    BY DEF LockHeld, OrgExists
  <2>1. CASE v = w
    <3>1. LockOrganization(w)
      BY <1>3, <2>1, CommitTakesLock
    <3>2. req[w] \in Request /\ req[w].org \in Orgs
      BY <3>1 DEF LockOrganization, Shape, TypeOK, RequestOK
    <3>3. ~Finish(w)
      BY <2>1 DEF Finish, NoRequest, Shape, TypeOK
    <3>4. OrgExists(req[w].org) /\ lock' = [lock EXCEPT ![req[w].org] = w] /\ UNCHANGED orgs
      BY <3>1, <3>3 DEF LockOrganization
    <3>5. req'[w].org = req[w].org
      BY <3>1, <3>2, <3>3 DEF LockOrganization, Request, Shape, TypeOK
    <3> QED
      BY <2>1, <3>2, <3>4, <3>5 DEF OrgExists, Shape, TypeOK
  <2>2. CASE v # w
    <3>1. req'[v] = req[v]
      BY <1>3, <2>2, OthersKept
    <3>2. req[v].org \in Orgs
      BY <3>1 DEF Shape, RequestOK
    <3>3. lock[req[v].org] = v /\ OrgExists(req[v].org)
      BY <3>1 DEF LockHeld
    <3>4. v # None
      BY ConstantsAssumption
    <3> QED
      BY <1>3, <2>2, <3>1, <3>2, <3>3, <3>4, OtherLocksKept, OrgsStay
  <2> QED
    BY <2>1, <2>2
<1> QED
  BY <1>1, <1>2, <1>3, NobodyActs DEF Next, Acts

\* The purge waits for the row lock of an organization it deletes.
LEMMA LockHeldPurge == ASSUME Shape, LockHeld, PurgeUnverifiedSignups PROVE LockHeld'
<1>1. PICK S \in SUBSET Users, E \in SUBSET Orgs : Purges(S, E)
  BY PurgeEffect
<1> SUFFICES ASSUME NEW w \in Workers, req[w].pc = "commit"
             PROVE  orgs'[req[w].org] = "live"
  BY <1>1 DEF LockHeld, OrgExists, Purges
<1>2. req[w].org \in Orgs /\ lock[req[w].org] = w /\ OrgExists(req[w].org) /\ w # None
  BY ConstantsAssumption DEF LockHeld, Shape, RequestOK
<1>3. req[w].org \notin E
  BY <1>1, <1>2 DEF Purges, LockFree
<1> QED
  BY <1>1, <1>2, <1>3 DEF Purges, OrgExists

\* Memberships change only in organizations that exist afterwards.
LEMMA ChangesInOrgs ==
  ASSUME Shape, LockHeld, Next, NEW o \in Orgs, NEW u \in Users, members'[o][u] # members[o][u]
  PROVE  orgs'[o] = "live"
<1>1. members \in [Orgs -> [Users -> MemberStatus]] /\ orgs \in [Orgs -> {"absent", "live", "deleted"}]
  BY DEF Shape, TypeOK
<1>2. CASE UNCHANGED members
  BY <1>2
<1>3. ASSUME NEW c \in Users, NEW p \in Orgs, CreateOrg(c, p) PROVE orgs'[o] = "live"
  BY <1>1, <1>3 DEF CreateOrg
<1>4. ASSUME NEW w \in Workers, SignupPending(w) PROVE orgs'[o] = "live"
  BY <1>1, <1>4 DEF SignupPending
<1>5. ASSUME NEW w \in Workers,
             AddMember(w) \/ UpdateMemberStatus(w) \/ RemoveMember(w) \/ AcceptInvite(w)
      PROVE  orgs'[o] = "live"
  <2>1. UNCHANGED orgs /\ OrgExists(req[w].org)
    BY SMTT(60), <1>5 DEF AddMember, UpdateMemberStatus, RemoveMember, AcceptInvite, At, LockHeld
  <2>2. req[w].org = o
    BY <1>1, <1>5 DEF AddMember, UpdateMemberStatus, RemoveMember, AcceptInvite
  <2> QED
    BY SMTT(60), <2>1, <2>2 DEF OrgExists
<1>6. ASSUME NEW w \in Workers, NEW v \in Users, JoinByInvite(w, v) PROVE orgs'[o] = "live"
  BY <1>1, <1>6 DEF JoinByInvite, OrgExists
<1>7. ASSUME NEW w \in Workers, Start(w) PROVE UNCHANGED members
  BY SMTT(60), ZenonT(30), SMTT(30), <1>7, StartBegins
<1>8. ASSUME NEW w \in Workers,
             \/ Check(w) \/ LockOrganization(w) \/ CreateInvite(w) \/ SendOrgInvite(w)
             \/ RevokeInvite(w) \/ SignupConflict(w) \/ Abort(w)
      PROVE  UNCHANGED members
  BY SMTT(60), ZenonT(30), SMTT(30), <1>8 DEF Check, LockOrganization, CreateInvite, SendOrgInvite, RevokeInvite, SignupConflict, Abort
<1>9. ASSUME NEW w \in Workers, SignupWithInvite(w) \/ ReissuePendingSignup(w)
      PROVE  UNCHANGED members \/ \E v \in Users : JoinByInvite(w, v)
  BY <1>9 DEF SignupWithInvite, ReissuePendingSignup
<1>10. CASE (\E v \in Users : CreateAccount(v) \/ VerifySignup(v)) \/ \E i \in Invites : ExpireInvite(i)
  BY <1>2, <1>10 DEF CreateAccount, VerifySignup, ExpireInvite
<1> QED
  BY Zenon, <1>2, <1>3, <1>4, <1>5, <1>6, <1>7, <1>8, <1>9, <1>10 DEF Next, Serve

MembersHaveOrgs == \A o \in Orgs, u \in Users : members[o][u] # "none" => OrgExists(o)

LEMMA MembersHaveOrgsNext ==
  ASSUME Shape, LockHeld, MembersHaveOrgs, [Next]_vars PROVE MembersHaveOrgs'
<1>1. CASE UNCHANGED vars
  BY <1>1 DEF vars, MembersHaveOrgs, OrgExists
<1>2. CASE Next
  <2> SUFFICES ASSUME NEW o \in Orgs, NEW u \in Users, members'[o][u] # "none"
               PROVE  orgs'[o] = "live"
    BY DEF MembersHaveOrgs, OrgExists
  <2> QED
    BY <1>2, ChangesInOrgs, OrgsStay DEF MembersHaveOrgs
<1> QED
  BY <1>1, <1>2

(***************************************************************************)
(* Rows: what a demotion has checked under the lock is still so when it     *)
(* writes, every organization keeps an active member, and the events agree  *)
(***************************************************************************)
DemotionSafe(w) ==
  /\ members[req[w].org][req[w].user] # "none"
  /\ \E v \in Users \ {req[w].user} : members[req[w].org][v] = "active"

Demoting(w) == req[w].pc = "commit" /\ req[w].op \in {"SuspendMember", "RemoveMember"}

Rows ==
  /\ \A w \in Workers : Demoting(w) => DemotionSafe(w)
  /\ LastActiveKept
  /\ MembersAnnounced

\* COUNT(*) of one row, from the definition of Cardinality.
LEMMA CountOne == ASSUME NEW u PROVE Cardinality({u}) = 1
<1> DEFINE S == {u}
           Counts(f) == f = [T \in SUBSET S |->
                               IF T = {} THEN 0 ELSE 1 + f[T \ {CHOOSE x : x \in T}]]
           g == [T \in SUBSET S |-> IF T = {} THEN 0 ELSE 1]
<1>1. \A T \in SUBSET S : T = {} \/ T = S
  OBVIOUS
<1>2. S \ {CHOOSE x : x \in S} = {}
  OBVIOUS
<1>3. ASSUME NEW T \in SUBSET S
      PROVE  g[T] = IF T = {} THEN 0 ELSE 1 + g[T \ {CHOOSE x : x \in T}]
  <2>1. g[{}] = 0 /\ g[S] = 1
    OBVIOUS
  <2> QED
    BY <1>1, <1>2, <2>1
<1>4. Counts(g)
  BY <1>3
<1>5. PICK c : c = (CHOOSE f : Counts(f))
  OBVIOUS
<1>6. Counts(c)
  <2> HIDE DEF Counts, g
  <2> QED
    BY <1>4, <1>5
<1>7. c[{}] = 0 /\ c[S] = 1 + c[S \ {CHOOSE x : x \in S}]
  BY <1>6
<1>8. c[S] = 1
  BY <1>2, <1>7
<1>9. Cardinality(S) = (CHOOSE f : Counts(f))[S]
  BY DEF Cardinality
<1> HIDE DEF Counts
<1> QED
  BY <1>5, <1>8, <1>9

LEMMA TwoActive ==
  ASSUME NEW o \in Orgs, NEW u \in Users, members[o][u] = "active", CountActive(o) > 1
  PROVE  \E v \in Users \ {u} : members[o][v] = "active"
<1> DEFINE S == {v \in Users : members[o][v] = "active"}
<1> SUFFICES ASSUME ~\E v \in Users \ {u} : members[o][v] = "active" PROVE FALSE
  OBVIOUS
<1>1. S = {u}
  OBVIOUS
<1>2. Cardinality(S) = 1
  BY Zenon, <1>1, CountOne
<1> QED
  BY <1>2 DEF CountActive

\* A step that changes no membership and starts no demotion.
LEMMA RowsQuiet ==
  ASSUME Rows, UNCHANGED <<members, announced>>,
         \A o \in Orgs : orgs'[o] = "live" => OrgExists(o),
         \A v \in Workers : req'[v].pc = "commit" => req'[v] = req[v]
  PROVE  Rows'
<1>1. LastActiveKept' /\ MembersAnnounced'
  BY DEF Rows, LastActiveKept, MembersAnnounced, OrgExists, IsActiveMember
<1>2. ASSUME NEW v \in Workers, Demoting(v)' PROVE DemotionSafe(v)'
  BY <1>2 DEF Rows, Demoting, DemotionSafe
<1> QED
  BY <1>1, <1>2 DEF Rows

\* A step that changes one membership u of an organization o no demotion is about.
LEMMA RowsOne ==
  ASSUME Shape, Rows, NEW o \in Orgs, NEW u \in Users, NEW s \in MemberStatus,
         members' = [members EXCEPT ![o][u] = s],
         announced' \in [Orgs -> [Users -> MemberStatus]],
         \A p \in Orgs, v \in Users : p # o \/ v # u => announced'[p][v] = announced[p][v],
         announced'[o][u] = "none" <=> s = "none",
         s = "active" => announced'[o][u] = "active",
         \E v \in Users : members'[o][v] = "active",
         \A p \in Orgs : p # o /\ orgs'[p] = "live" => OrgExists(p),
         \A v \in Workers : req'[v].pc = "commit" => req'[v] = req[v] /\ req[v].org # o
  PROVE  Rows'
<1>0. members \in [Orgs -> [Users -> MemberStatus]]
  BY DEF Shape, TypeOK
<1>1. /\ \A p \in Orgs, v \in Users : p # o \/ v # u => members'[p][v] = members[p][v]
      /\ members'[o][u] = s
  BY <1>0
<1>2. LastActiveKept'
  <2> SUFFICES ASSUME NEW p \in Orgs, orgs'[p] = "live"
               PROVE  \E v \in Users : members'[p][v] = "active"
    BY DEF LastActiveKept, OrgExists, IsActiveMember
  <2>1. CASE p = o
    BY <2>1
  <2>2. CASE p # o
    BY <1>1, <2>2 DEF Rows, LastActiveKept, IsActiveMember
  <2> QED
    BY <2>1, <2>2
<1>3. MembersAnnounced'
  BY <1>1 DEF Rows, MembersAnnounced
<1>4. ASSUME NEW v \in Workers, Demoting(v)' PROVE DemotionSafe(v)'
  <2>1. req'[v] = req[v] /\ req[v].org # o /\ DemotionSafe(v)
    BY <1>4 DEF Demoting, Rows
  <2>2. req[v].org \in Orgs /\ req[v].user \in Users
    BY <1>4, <2>1 DEF Demoting, Shape, RequestOK, TargetOps
  <2> QED
    BY <1>1, <2>1, <2>2 DEF DemotionSafe
<1> QED
  BY <1>2, <1>3, <1>4 DEF Rows

\* Under the lock of o, no other request is about to commit on o.
LEMMA Alone ==
  ASSUME Shape, LockHeld, NEW w \in Workers, Acts(w), ~LockOrganization(w),
         NEW o, lock[o] \in {w, None}, NEW v \in Workers, req'[v].pc = "commit"
  PROVE  req'[v] = req[v] /\ req[v].org # o
<1>1. v # w
  BY CommitTakesLock
<1>2. req'[v] = req[v]
  BY <1>1, OthersKept
<1>3. v # None
  BY ConstantsAssumption
<1> QED
  BY <1>1, <1>2, <1>3 DEF LockHeld

LEMMA RowsLock ==
  ASSUME Shape, Rows, NEW w \in Workers, LockOrganization(w) PROVE Rows'
<1>1. UNCHANGED <<orgs, members, announced>> /\ req[w].pc = "lock"
  BY DEF LockOrganization
<1>2. LastActiveKept' /\ MembersAnnounced'
  BY <1>1 DEF Rows, LastActiveKept, MembersAnnounced, OrgExists, IsActiveMember
<1>3. ASSUME NEW v \in Workers, Demoting(v)' PROVE DemotionSafe(v)'
  <2>1. CASE v # w
    <3>1. req'[v] = req[v]
      BY <2>1, OthersKept DEF Acts, Serve
    <3> QED
      BY <1>1, <1>3, <3>1 DEF Rows, Demoting, DemotionSafe
  <2>2. CASE v = w
    <3> DEFINE o == req[w].org
               u == req[w].user
    <3>1. ~Finish(w)
      BY <1>3, <2>2 DEF Finish, NoRequest, Shape, TypeOK, Demoting
    <3>2. OrgExists(o) /\ Admitted(req[w])
      BY <3>1 DEF LockOrganization
    <3>3. req[w] \in Request
      BY DEF Shape, TypeOK
    <3>4. req'[w].op = req[w].op /\ req'[w].org = o /\ req'[w].user = u
      BY <3>1, <3>3 DEF LockOrganization, Request, Shape, TypeOK
    <3>5. req[w].op \in {"SuspendMember", "RemoveMember"}
      BY <1>3, <2>2, <3>4 DEF Demoting
    <3>6. o \in Orgs /\ u \in Users
      BY <3>5 DEF Shape, RequestOK, TargetOps
    <3>7. DemotionAllowed(o, u)
      BY <3>2, <3>5 DEF Admitted
    <3>8. \E x \in Users \ {u} : members[o][x] = "active"
      <4>1. CASE members[o][u] = "active"
        BY <3>6, <3>7, <4>1, TwoActive DEF DemotionAllowed
      <4>2. CASE members[o][u] # "active"
        BY <3>2, <3>6, <4>2 DEF Rows, LastActiveKept, IsActiveMember
      <4> QED
        BY <4>1, <4>2
    <3> QED
      BY <1>1, <2>2, <3>4, <3>7, <3>8 DEF DemotionSafe, DemotionAllowed
  <2> QED
    BY <2>1, <2>2
<1> QED
  BY <1>2, <1>3 DEF Rows

LEMMA RowsMembers ==
  ASSUME Shape, LockHeld, Rows, NEW w \in Workers,
         AddMember(w) \/ UpdateMemberStatus(w) \/ RemoveMember(w) \/ AcceptInvite(w)
  PROVE  Rows'
<1> DEFINE o == req[w].org
           u == req[w].user
<1>1. o \in Orgs /\ u \in Users /\ lock[o] = w /\ OrgExists(o) /\ req[w].pc = "commit"
  BY DEF AddMember, UpdateMemberStatus, RemoveMember, AcceptInvite, At, Shape, RequestOK,
         TargetOps, LockHeld
<1>2. Acts(w) /\ ~LockOrganization(w)
  BY <1>1 DEF Acts, Serve, LockOrganization
<1>3. \A v \in Workers : req'[v].pc = "commit" => req'[v] = req[v] /\ req[v].org # o
  BY SMTT(60), <1>1, <1>2, Alone
<1>4. UNCHANGED orgs
  BY DEF AddMember, UpdateMemberStatus, RemoveMember, AcceptInvite
<1>5. /\ members \in [Orgs -> [Users -> MemberStatus]] /\ members[o][u] \in MemberStatus
      /\ announced \in [Orgs -> [Users -> MemberStatus]] /\ announced[o][u] \in MemberStatus
  BY <1>1 DEF Shape, TypeOK
<1>6. PICK x \in Users : members[o][x] = "active" /\ (Demoting(w) => x # u)
  BY <1>1 DEF Rows, LastActiveKept, IsActiveMember, DemotionSafe
<1>7. announced[o][u] = "none" <=> members[o][u] = "none"
  BY <1>1 DEF Rows, MembersAnnounced
<1>8. CASE UNCHANGED <<members, announced>>
  BY SMTT(60), <1>3, <1>4, <1>8, RowsQuiet DEF OrgExists
<1>9. ASSUME NEW s \in MemberStatus, NEW t \in MemberStatus,
             members' = [members EXCEPT ![o][u] = s],
             \/ announced' = [announced EXCEPT ![o][u] = t]
             \/ UNCHANGED announced /\ announced[o][u] = t,
             t = "none" <=> s = "none", s = "active" => t = "active",
             s = "active" \/ x # u
      PROVE  Rows'
  <2>1. /\ announced' \in [Orgs -> [Users -> MemberStatus]] /\ announced'[o][u] = t
        /\ \A p \in Orgs, v \in Users : p # o \/ v # u => announced'[p][v] = announced[p][v]
    <3>1. CASE announced' = [announced EXCEPT ![o][u] = t]
      <4> HIDE DEF o, u
      <4> QED
        BY <1>1, <1>5, <3>1
    <3>2. CASE UNCHANGED announced /\ announced[o][u] = t
      BY SMTT(60), <1>5, <3>2
    <3> QED
      BY <1>9, <3>1, <3>2
  <2>2. \E v \in Users : members'[o][v] = "active"
    <3>1. CASE s = "active"
      <4>1. members'[o][u] = "active"
        BY <1>1, <1>5, <1>9, <3>1
      <4> QED
        BY SMTT(60), <1>1, <4>1
    <3>2. CASE x # u
      <4>1. members'[o][x] = "active"
        BY <1>1, <1>5, <1>6, <1>9, <3>2
      <4> QED
        BY SMTT(60), <4>1
    <3> QED
      BY SMTT(60), <1>9, <3>1, <3>2
  <2>3. \A p \in Orgs : p # o /\ orgs'[p] = "live" => OrgExists(p)
    BY <1>4 DEF OrgExists
  <2>4. (announced'[o][u] = "none" <=> s = "none") /\ (s = "active" => announced'[o][u] = "active")
    BY SMTT(60), <1>9, <2>1
  <2> HIDE DEF o, u
  <2> QED
    BY Zenon, <1>1, <1>3, <1>9, <2>1, <2>2, <2>3, <2>4, RowsOne
<1>10. CASE AddMember(w)
  <2>1. CASE ForeignKeyHolds(u)
    <3> DEFINE s == Inserted(members[o][u], "active")
    <3>1. members' = [members EXCEPT ![o][u] = s] /\ announced' = [announced EXCEPT ![o][u] = "active"]
      <4>1. /\ members' = [members EXCEPT ![o][u] = Inserted(@, "active")]
            /\ announced' = [announced EXCEPT ![o][u] = "active"]
        BY Zenon, <1>10, <2>1 DEF AddMember, Announce
      <4> QED
        BY <1>1, <1>5, <4>1
    <3>2. s \in MemberStatus /\ s # "none" /\ (members[o][u] # "none" => s = members[o][u])
      BY SMTT(60), <1>5 DEF Inserted, MemberStatus
    <3>3. s = "active" \/ x # u
      BY SMTT(60), <1>5, <1>6, <3>2 DEF Inserted
    <3> HIDE DEF s
    <3> QED
      BY ZenonT(60), <1>9, <3>1, <3>2, <3>3 DEF MemberStatus
  <2> QED
    BY SMTT(60), <1>8, <1>10, <2>1 DEF AddMember
<1>11. CASE UpdateMemberStatus(w)
  <2>1. Demoting(w) /\ DemotionSafe(w)
    BY SMTT(60), <1>1, <1>11 DEF UpdateMemberStatus, At, Demoting, Rows
  <2>2. members[o][u] # "none"
    BY SMTT(60), ZenonT(30), SMTT(30), <2>1 DEF DemotionSafe
  <2>3. members' = [members EXCEPT ![o][u] = "suspended"]
    BY SMTT(60), ZenonT(30), SMTT(30), <1>1, <1>5, <1>11, <2>2 DEF UpdateMemberStatus
  <2>4. \/ announced' = [announced EXCEPT ![o][u] = "suspended"]
        \/ UNCHANGED announced /\ announced[o][u] # "none"
    BY SMTT(60), ZenonT(30), SMTT(30), <1>7, <1>11, <2>2 DEF UpdateMemberStatus, Announce
  <2> QED
    BY ZenonT(60), <1>6, <1>9, <2>1, <2>3, <2>4, <1>5 DEF MemberStatus
<1>12. CASE RemoveMember(w)
  <2>1. Demoting(w)
    BY <1>1, <1>12 DEF RemoveMember, At, Demoting
  <2>2. /\ members' = [members EXCEPT ![o][u] = "none"]
        /\ announced' = [announced EXCEPT ![o][u] = "none"]
    BY <1>12 DEF RemoveMember, Announce
  <2> QED
    BY SMTT(60), ZenonT(30), SMTT(30), <1>6, <1>9, <2>1, <2>2 DEF MemberStatus
<1>13. CASE AcceptInvite(w)
  <2>1. CASE StillPending(req[w].invite)
    <3> DEFINE s == Upserted(members[o][u])
    <3>1. members' = [members EXCEPT ![o][u] = s] /\ announced' = [announced EXCEPT ![o][u] = "active"]
      BY SMTT(60), <1>1, <1>5, <1>13, <2>1 DEF AcceptInvite, Announce
    <3>2. s \in MemberStatus /\ s # "none" /\ (s = "active" \/ x # u)
      BY <1>5, <1>6 DEF Upserted, MemberStatus
    <3> HIDE DEF s
    <3> QED
      BY ZenonT(60), <1>9, <3>1, <3>2 DEF MemberStatus
  <2> QED
    BY SMTT(60), <1>8, <1>13, <2>1 DEF AcceptInvite
<1> QED
  BY SMTT(60), <1>10, <1>11, <1>12, <1>13

\* A new or a newly joined active member, of an organization nobody is working on.
LEMMA RowsJoin ==
  ASSUME Shape, LockHeld, Rows, NEW o \in Orgs, NEW u \in Users, NEW s \in MemberStatus,
         members' = [members EXCEPT ![o][u] = s],
         Announce(o, u, "active"), s # "none",
         s = "active" \/ (members[o][u] # "active" /\ OrgExists(o)),
         \A p \in Orgs : p # o /\ orgs'[p] = "live" => OrgExists(p),
         \A v \in Workers : req'[v].pc = "commit" => req'[v] = req[v] /\ req[v].org # o
  PROVE  Rows'
<1>1. /\ members \in [Orgs -> [Users -> MemberStatus]]
      /\ announced \in [Orgs -> [Users -> MemberStatus]]
  BY DEF Shape, TypeOK
<1>2. announced' = [announced EXCEPT ![o][u] = "active"]
  BY DEF Announce
<1>3. /\ announced' \in [Orgs -> [Users -> MemberStatus]] /\ announced'[o][u] = "active"
      /\ \A p \in Orgs, v \in Users : p # o \/ v # u => announced'[p][v] = announced[p][v]
  BY <1>1, <1>2 DEF MemberStatus
<1>4. \E v \in Users : members'[o][v] = "active"
  <2>1. CASE s = "active"
    BY <1>1, <2>1
  <2>2. CASE members[o][u] # "active" /\ OrgExists(o)
    <3>1. PICK v \in Users : members[o][v] = "active"
      BY <2>2 DEF Rows, LastActiveKept, IsActiveMember
    <3>2. members'[o][v] = "active"
      BY <1>1, <2>2, <3>1
    <3> QED
      BY <3>2
  <2> QED
    BY <2>1, <2>2
<1> QED
  BY ZenonT(60), <1>3, <1>4, RowsOne

LEMMA RowsJoinByInvite ==
  ASSUME Shape, LockHeld, Rows, NEW w \in Workers, NEW u \in Users, JoinByInvite(w, u),
         req[w].op = "Register", req[w].invite # None, Acts(w), ~LockOrganization(w)
  PROVE  Rows'
<1> DEFINE o == req[w].org
<1>1. o \in Orgs
  BY DEF Shape, TypeOK, Request, RequestOK
<1>2. UNCHANGED orgs
  BY DEF JoinByInvite
<1>3. CASE OrgExists(o) /\ StillPending(req[w].invite)
  <2> DEFINE s == Upserted(members[o][u])
  <2>1. /\ members' = [members EXCEPT ![o][u] = s] /\ Announce(o, u, "active") /\ lock[o] = None
    BY <1>1, <1>3 DEF JoinByInvite, LockFree, Shape, TypeOK
  <2>2. members[o][u] \in MemberStatus
    BY <1>1 DEF Shape, TypeOK
  <2>3. s \in MemberStatus /\ s # "none" /\ (s = "active" \/ members[o][u] # "active")
    BY <2>2 DEF Upserted, MemberStatus
  <2>4. \A v \in Workers : req'[v].pc = "commit" => req'[v] = req[v] /\ req[v].org # o
    BY <2>1, Alone
  <2>5. \A p \in Orgs : p # o /\ orgs'[p] = "live" => OrgExists(p)
    BY <1>2 DEF OrgExists
  <2> HIDE DEF s, o
  <2> QED
    BY Zenon, <1>1, <1>3, <2>1, <2>3, <2>4, <2>5, RowsJoin
<1>4. CASE ~(OrgExists(o) /\ StillPending(req[w].invite))
  <2>1. UNCHANGED <<members, announced>>
    BY <1>4 DEF JoinByInvite
  <2>2. \A v \in Workers : req'[v].pc = "commit" => req'[v] = req[v]
    BY CommitTakesLock, OthersKept
  <2> QED
    BY <1>2, <2>1, <2>2, RowsQuiet DEF OrgExists
<1> QED
  BY <1>3, <1>4

\* Creating an organization with its first member.
LEMMA RowsCreate ==
  ASSUME Shape, LockHeld, MembersHaveOrgs, Rows, NEW o \in Orgs, NEW u \in Users,
         orgs[o] = "absent", NEW how, orgs' = [orgs EXCEPT ![o] = how],
         members' = [members EXCEPT ![o][u] = Inserted(@, "active")], Announce(o, u, "active"),
         \A v \in Workers : req'[v].pc = "commit" => req'[v] = req[v]
  PROVE  Rows'
<1>1. members[o][u] = "none"
  BY DEF MembersHaveOrgs, OrgExists
<1>2. members' = [members EXCEPT ![o][u] = "active"]
  BY <1>1 DEF Inserted, Shape, TypeOK
<1>3. \A v \in Workers : req'[v].pc = "commit" => req'[v] = req[v] /\ req[v].org # o
  BY DEF LockHeld, OrgExists
<1>4. \A p \in Orgs : p # o /\ orgs'[p] = "live" => OrgExists(p)
  BY DEF OrgExists, Shape, TypeOK
<1>5. "active" \in MemberStatus
  BY DEF MemberStatus
<1> QED
  BY Zenon, <1>2, <1>3, <1>4, <1>5, RowsJoin

LEMMA RowsNext == ASSUME Shape, LockHeld, MembersHaveOrgs, Rows, [Next]_vars PROVE Rows'
<1>1. CASE UNCHANGED vars
  BY <1>1, RowsQuiet DEF vars, OrgExists
<1>2. ASSUME NEW c \in Users, NEW o \in Orgs, CreateOrg(c, o) PROVE Rows'
  BY Zenon, <1>2, RowsCreate DEF CreateOrg
<1>3. CASE (\E u \in Users : CreateAccount(u) \/ VerifySignup(u)) \/ \E i \in Invites : ExpireInvite(i)
  BY <1>3, RowsQuiet DEF CreateAccount, VerifySignup, ExpireInvite, OrgExists
<1>4. ASSUME NEW w \in Workers, Acts(w) PROVE Rows'
  <2>1. CASE LockOrganization(w)
    BY <2>1, RowsLock
  <2>2. CASE AddMember(w) \/ UpdateMemberStatus(w) \/ RemoveMember(w) \/ AcceptInvite(w)
    BY <2>2, RowsMembers
  <2> SUFFICES ASSUME ~LockOrganization(w) PROVE Rows'
    BY <2>1
  <2>3. \A v \in Workers : req'[v].pc = "commit" => req'[v] = req[v]
    BY <1>4, CommitTakesLock, OthersKept
  <2>4. CASE Start(w)
    BY <2>3, <2>4, StartBegins, RowsQuiet DEF OrgExists
  <2>5. CASE \/ Check(w) \/ CreateInvite(w) \/ SendOrgInvite(w) \/ RevokeInvite(w)
             \/ SignupConflict(w) \/ Abort(w)
    <3>1. UNCHANGED <<orgs, members, announced>>
      BY <2>5 DEF Check, CreateInvite, SendOrgInvite, RevokeInvite, SignupConflict, Abort
    <3> QED
      BY <2>3, <3>1, RowsQuiet DEF OrgExists
  <2>6. CASE SignupPending(w)
    <3>1. CASE UNCHANGED <<orgs, members, announced>>
      BY <2>3, <3>1, RowsQuiet DEF OrgExists
    <3>2. PICK u \in Users :
            \/ UNCHANGED <<orgs, members, announced>>
            \/ \E o \in Orgs : /\ orgs[o] = "absent" /\ orgs' = [orgs EXCEPT ![o] = "live"]
                               /\ members' = [members EXCEPT ![o][u] = Inserted(@, "active")]
                               /\ Announce(o, u, "active")
      BY <2>6 DEF SignupPending
    <3> QED
      BY <2>3, <3>1, <3>2, RowsCreate
  <2>7. CASE SignupWithInvite(w)
    BY SMTT(60), <1>4, <2>7, RowsJoinByInvite DEF SignupWithInvite, At
  <2>8. CASE ReissuePendingSignup(w)
    <3>1. req[w].op = "Register" /\ req[w].invite # None
      BY <2>8 DEF ReissuePendingSignup, At, Shape, RequestOK
    <3>2. CASE UNCHANGED <<orgs, members, announced>>
      BY <2>3, <3>2, RowsQuiet DEF OrgExists
    <3> QED
      BY SMTT(60), <1>4, <2>8, <3>1, <3>2, RowsJoinByInvite DEF ReissuePendingSignup
  <2> QED
    BY <1>4, <2>2, <2>4, <2>5, <2>6, <2>7, <2>8 DEF Acts, Serve
<1> QED
  BY <1>1, <1>2, <1>3, <1>4 DEF Next, Acts

LEMMA RowsAlways == Spec => [](LockHeld /\ MembersHaveOrgs /\ Rows)
<1>1. Init => LockHeld /\ MembersHaveOrgs /\ Rows
  BY DEF Init, LockHeld, MembersHaveOrgs, Rows, Demoting, LastActiveKept, MembersAnnounced,
         NoRequest, OrgExists
<1>2. Shape /\ LockHeld /\ MembersHaveOrgs /\ Rows /\ [Next]_vars
        => (LockHeld /\ MembersHaveOrgs /\ Rows)'
  BY LockHeldNext, MembersHaveOrgsNext, RowsNext
<1> QED
  BY <1>1, <1>2, SpecIsOperated, ShapeAlways, PTL DEF Spec

\* Every organization keeps an active member under every interleaving of suspensions,
\* removals, acceptances and sign-ups (ErrLastActiveMember, UpdateMemberStatus and
\* RemoveMember): the row lock keeps the count they compared true until they commit.
THEOREM LastActive == Spec => []LastActiveKept
<1>1. Rows => LastActiveKept
  BY DEF Rows
<1> QED
  BY <1>1, RowsAlways, PTL

\* The outbox events, replayed, give the members of every organization, because each
\* transaction writes its event with its row.
THEOREM Announced == Spec => []MembersAnnounced
<1>1. Rows => MembersAnnounced
  BY DEF Rows
<1> QED
  BY <1>1, RowsAlways, PTL
===============================================================================
