------------------------ MODULE OrganizationsInvites -------------------------
(***************************************************************************)
(* Proofs about Organizations, continued: invitations and joins, and what   *)
(* the operator's purge of unverified sign-ups leaves behind.               *)
(***************************************************************************)
EXTENDS OrganizationsProofs

(***************************************************************************)
(* Invitations                                                              *)
(***************************************************************************)
Creating(w) == req[w].op = "InviteMember" /\ req[w].pc \in {"check", "lock", "commit"}

\* An invitation about to be created has no row yet and is no other request's.
Fresh ==
  \A w \in Workers : Creating(w) =>
    /\ invites[req[w].invite].status = "none"
    /\ \A v \in Workers \ {w} : req[v].invite # req[w].invite

\* What one step may do to an invitation row.
RowStep(i) ==
  /\ invites'[i].org = invites[i].org /\ invites'[i].email = invites[i].email
  /\ \/ invites'[i].status = invites[i].status
     \/ invites[i].status = "pending" /\ invites'[i].status \in {"accepted", "revoked"}

LEMMA RowSteps ==
  ASSUME Shape, Next, NEW i \in Invites
  PROVE  \/ RowStep(i)
         \/ \E w \in Workers : /\ CreateInvite(w) /\ req[w].invite = i
                               /\ invites'[i].status = "pending"
                               /\ invites'[i].org = req[w].org /\ invites'[i].email = req[w].email
<1>1. invites \in [Invites -> InviteRow] /\ invites[i] \in InviteRow
  BY DEF Shape, TypeOK
<1>2. ASSUME UNCHANGED invites PROVE RowStep(i)
  BY <1>2 DEF RowStep
<1>3. ASSUME NEW j \in Invites, StillPending(j),
             \/ invites' = [invites EXCEPT ![j].status = "accepted"]
             \/ invites' = [invites EXCEPT ![j].status = "revoked"]
      PROVE  RowStep(i)
  <2>1. CASE i # j
    BY <1>1, <1>3, <2>1 DEF RowStep
  <2>2. CASE i = j
    BY <1>1, <1>3, <2>2 DEF RowStep, StillPending, InviteRow
  <2> QED
    BY <2>1, <2>2
<1>4. ASSUME NEW w \in Workers, Start(w) PROVE UNCHANGED invites
  BY <1>4, StartBegins
<1>5. ASSUME NEW w \in Workers, AcceptInvite(w) PROVE RowStep(i)
  <2>1. req[w].invite \in Invites
    BY <1>5 DEF AcceptInvite, At, Shape, RequestOK, InviteOps
  <2>2. \/ UNCHANGED invites
        \/ /\ StillPending(req[w].invite)
           /\ \/ invites' = [invites EXCEPT ![req[w].invite].status = "accepted"]
              \/ invites' = [invites EXCEPT ![req[w].invite].status = "revoked"]
    BY <1>5 DEF AcceptInvite
  <2> QED
    BY <1>2, <1>3, <2>1, <2>2
<1>6. ASSUME NEW w \in Workers, RevokeInvite(w) PROVE RowStep(i)
  <2>1. req[w].invite \in Invites
    BY <1>6 DEF RevokeInvite, Shape, RequestOK, InviteOps
  <2>2. \/ UNCHANGED invites
        \/ /\ StillPending(req[w].invite)
           /\ \/ invites' = [invites EXCEPT ![req[w].invite].status = "accepted"]
              \/ invites' = [invites EXCEPT ![req[w].invite].status = "revoked"]
    BY <1>6 DEF RevokeInvite
  <2> QED
    BY <1>2, <1>3, <2>1, <2>2
<1>7. ASSUME NEW w \in Workers, NEW u \in Users, JoinByInvite(w, u),
             req[w].op = "Register", req[w].invite # None
      PROVE  RowStep(i)
  <2>1. req[w].invite \in Invites
    BY <1>7 DEF Shape, TypeOK, Request
  <2>2. \/ UNCHANGED invites
        \/ /\ StillPending(req[w].invite)
           /\ \/ invites' = [invites EXCEPT ![req[w].invite].status = "accepted"]
              \/ invites' = [invites EXCEPT ![req[w].invite].status = "revoked"]
    BY <1>7 DEF JoinByInvite
  <2> QED
    BY <1>2, <1>3, <2>1, <2>2
<1>8. ASSUME NEW w \in Workers, SignupWithInvite(w) \/ ReissuePendingSignup(w) PROVE RowStep(i)
  <2>1. CASE UNCHANGED invites
    BY <1>2, <2>1
  <2>2. req[w].op = "Register" /\ req[w].invite # None
    BY <1>8 DEF SignupWithInvite, ReissuePendingSignup, At, Shape, RequestOK
  <2> QED
    BY <1>7, <1>8, <2>1, <2>2 DEF SignupWithInvite, ReissuePendingSignup
<1>9. ASSUME NEW w \in Workers, CreateInvite(w)
      PROVE  RowStep(i) \/ (/\ req[w].invite = i /\ invites'[i].status = "pending"
                            /\ invites'[i].org = req[w].org /\ invites'[i].email = req[w].email)
  <2>1. CASE UNCHANGED invites
    BY <1>2, <2>1
  <2>2. CASE ~UNCHANGED invites
    <3>1. invites' = [j \in Invites |->
                 IF j = req[w].invite
                   THEN [NoInvite EXCEPT !.status = "pending", !.org = req[w].org,
                                         !.email = req[w].email]
                 ELSE IF j \in req[w].revoking /\ invites[j].status = "pending"
                   THEN [invites[j] EXCEPT !.status = "revoked"]
                 ELSE invites[j]]
      BY <1>9, <2>2 DEF CreateInvite
    <3>2. CASE i = req[w].invite
      BY <3>1, <3>2 DEF NoInvite
    <3>3. CASE i # req[w].invite /\ i \in req[w].revoking /\ invites[i].status = "pending"
      BY <1>1, <3>1, <3>3 DEF RowStep, InviteRow
    <3>4. CASE i # req[w].invite /\ ~(i \in req[w].revoking /\ invites[i].status = "pending")
      BY <3>1, <3>4 DEF RowStep
    <3> QED
      BY <3>2, <3>3, <3>4
  <2> QED
    BY <2>1, <2>2
<1>10. ASSUME NEW w \in Workers, SendOrgInvite(w)
       PROVE  RowStep(i)
  <2>1. CASE UNCHANGED invites
    BY <1>2, <2>1
  <2>2. CASE invites' = [invites EXCEPT ![req[w].invite].delivered = TRUE] /\ i # req[w].invite
    BY <1>1, <2>2 DEF RowStep
  <2>3. CASE invites' = [invites EXCEPT ![req[w].invite].delivered = TRUE] /\ i = req[w].invite
    <3>1. /\ invites'[i].org = invites[i].org /\ invites'[i].email = invites[i].email
          /\ invites'[i].status = invites[i].status
      BY <1>1, <2>3 DEF InviteRow
    <3> QED
      BY <2>3, <3>1 DEF RowStep
  <2> QED
    BY <1>10, <2>1, <2>2, <2>3 DEF SendOrgInvite
<1>11. ASSUME NEW j \in Invites, ExpireInvite(j) PROVE RowStep(i)
  <2>1. invites' = [invites EXCEPT ![j].expired = TRUE] /\ invites[j].status = "pending"
    BY <1>11 DEF ExpireInvite, Acceptable
  <2>2. CASE i # j
    BY <1>1, <2>1, <2>2 DEF RowStep
  <2>3. CASE i = j
    <3>1. /\ invites'[i].org = invites[i].org /\ invites'[i].email = invites[i].email
          /\ invites'[i].status = invites[i].status
      BY SMTT(60), ZenonT(30), SMTT(30), <1>1, <2>1, <2>3 DEF InviteRow
    <3> QED
      BY <2>1, <2>3, <3>1 DEF RowStep
  <2> QED
    BY <2>2, <2>3
<1>12. ASSUME NEW w \in Workers,
              \/ Check(w) \/ LockOrganization(w) \/ AddMember(w) \/ UpdateMemberStatus(w)
              \/ RemoveMember(w) \/ SignupConflict(w) \/ SignupPending(w) \/ Abort(w)
       PROVE  UNCHANGED invites
  BY SMTT(60), ZenonT(30), SMTT(30), <1>12 DEF Check, LockOrganization, AddMember, UpdateMemberStatus, RemoveMember,
               SignupConflict, SignupPending, Abort
<1>13. CASE (\E u \in Users : CreateAccount(u) \/ VerifySignup(u)) \/ \E c \in Users, o \in Orgs : CreateOrg(c, o)
  BY <1>2, <1>13 DEF CreateAccount, VerifySignup, CreateOrg
<1> QED
  BY SMTT(60), <1>2, <1>4, <1>5, <1>6, <1>8, <1>9, <1>10, <1>11, <1>12, <1>13 DEF Next, Serve

\* A row that was never written belongs to no organization.
Blank == \A i \in Invites : invites[i].status = "none" => invites[i].org = None

LEMMA BlankNext == ASSUME Shape, Blank, [Next]_vars PROVE Blank'
<1>1. CASE UNCHANGED vars
  BY <1>1 DEF vars, Blank
<1>2. CASE Next
  BY <1>2, RowSteps DEF RowStep, Blank
<1> QED
  BY <1>1, <1>2

\* A request that names an existing invitation named it for its organization and
\* for the address of who is joining, unless the organization is gone.
Addressed(w) ==
  LET r == req[w]  row == invites[req[w].invite] IN
  /\ r.op \in {"RevokeInvite", "AcceptInvite"} \/ (r.op = "Register" /\ r.invite # None) =>
       row.status # "none"
  /\ row.status # "deleted" =>
       /\ r.op = "AcceptInvite" =>
            row.org = r.org /\ SameAddress(AddressOf[r.user], row.email)
       /\ r.op = "Register" /\ r.invite # None =>
            row.org = r.org /\ SameAddress(r.email, row.email)

\* Past its start, a request keeps its fields or ends.
LEMMA FieldsKept ==
  ASSUME Shape, NEW w \in Workers, Serve(w) \/ Abort(w)
  PROVE  \/ req'[w] = NoRequest
         \/ /\ req'[w].op = req[w].op /\ req'[w].org = req[w].org /\ req'[w].user = req[w].user
            /\ req'[w].email = req[w].email /\ req'[w].invite = req[w].invite
            /\ req[w].pc \in {"check", "lock"} \/ req'[w].pc \in {"notify", "revoke", "reissue"}
<1>1. req \in [Workers -> Request] /\ req[w] \in Request
  BY DEF Shape, TypeOK
<1>2. CASE Finish(w)
  BY <1>1, <1>2 DEF Finish
<1>3. ASSUME NEW pc \in Pcs, Goto(w, pc)
      PROVE  /\ req'[w].op = req[w].op /\ req'[w].org = req[w].org /\ req'[w].user = req[w].user
             /\ req'[w].email = req[w].email /\ req'[w].invite = req[w].invite /\ req'[w].pc = pc
  BY <1>1, <1>3 DEF Goto, Request
<1>4. CASE LockOrganization(w)
  <2>1. CASE ~Finish(w)
    BY <1>1, <1>4, <2>1 DEF LockOrganization, Request
  <2> QED
    BY <1>2, <2>1
<1>5. CASE Check(w)
  BY SMTT(60), <1>2, <1>3, <1>5 DEF Check, Pcs
<1>6. CASE AddMember(w) \/ UpdateMemberStatus(w) \/ RemoveMember(w) \/ AcceptInvite(w)
  BY SMTT(60), <1>2, <1>6 DEF AddMember, UpdateMemberStatus, RemoveMember, AcceptInvite
<1>7. CASE CreateInvite(w) \/ SendOrgInvite(w) \/ RevokeInvite(w)
  BY <1>2, <1>3, <1>7 DEF CreateInvite, SendOrgInvite, RevokeInvite, Pcs
<1>8. CASE SignupConflict(w)
  BY SMTT(60), <1>2, <1>3, <1>8 DEF SignupConflict, Pcs
<1>9. CASE SignupPending(w) \/ SignupWithInvite(w) \/ ReissuePendingSignup(w) \/ Abort(w)
  BY ZenonT(60), <1>2, <1>9 DEF SignupPending, SignupWithInvite, ReissuePendingSignup, JoinByInvite, Abort
<1> QED
  BY Zenon, <1>4, <1>5, <1>6, <1>7, <1>8, <1>9 DEF Serve

\* The invitation a starting request names.
LEMMA StartNames ==
  ASSUME Shape, NEW w \in Workers, Start(w)
  PROVE  \/ req'[w].op \in {"AddMember", "SuspendMember", "RemoveMember"} /\ req'[w].invite = None
         \/ req'[w].op = "Register" /\ req'[w].invite = None
         \/ /\ req'[w].op = "InviteMember" /\ invites[req'[w].invite].status = "none"
            /\ \A v \in Workers : req[v].invite # req'[w].invite
         \/ /\ req'[w].op \in {"RevokeInvite", "AcceptInvite", "Register"}
            /\ invites[req'[w].invite].status # "none" /\ Addressed(w)'
            /\ req'[w].op = "AcceptInvite" => HasSession(req'[w].user)
<1>0. req \in [Workers -> Request]
  BY DEF Shape, TypeOK
<1>1. CASE StartMemberOp(w)
  <2>1. PICK op \in {"AddMember", "SuspendMember", "RemoveMember"},
             c \in Users, o \in Orgs, u \in Users :
               Begin(w, [NoRequest EXCEPT !.op = op, !.pc = "check",
                                          !.caller = c, !.org = o, !.user = u])
    BY ZenonT(60), <1>1 DEF StartMemberOp
  <2> QED
    BY <1>0, <2>1 DEF Begin, NoRequest
<1>2. CASE StartInvite(w)
  <2>1. PICK c \in Users, o \in Orgs, a \in Addresses, i \in Invites :
          /\ invites[i].status = "none" /\ \A v \in Workers : req[v].invite # i
          /\ Begin(w, [NoRequest EXCEPT !.op = "InviteMember", !.pc = "check", !.caller = c,
                                  !.org = o, !.email = Lower[a], !.invite = i])
    BY Zenon, <1>2 DEF StartInvite
  <2>2. req'[w].op = "InviteMember" /\ req'[w].invite = i
    BY <1>0, <2>1 DEF Begin, NoRequest
  <2> QED
    BY <2>1, <2>2
<1>3. CASE StartRevoke(w)
  <2>1. PICK c \in Users, o \in Orgs, i \in Invites :
          /\ invites[i].status # "none" /\ UNCHANGED invites
          /\ Begin(w, [NoRequest EXCEPT !.op = "RevokeInvite", !.pc = "check", !.caller = c,
                                  !.org = o, !.invite = i])
    BY Zenon, <1>3 DEF StartRevoke
  <2>2. req'[w].op = "RevokeInvite" /\ req'[w].invite = i
    BY <1>0, <2>1 DEF Begin, NoRequest
  <2> QED
    BY SMTT(60), <2>1, <2>2 DEF Addressed
<1>4. CASE StartAccept(w)
  <2>1. PICK u \in Users, i \in Invites :
          /\ HasSession(u) /\ Acceptable(i) /\ RecipientMatches(u, i) /\ UNCHANGED invites
          /\ Begin(w, [NoRequest EXCEPT !.op = "AcceptInvite", !.pc = "lock", !.user = u,
                                  !.org = invites[i].org, !.invite = i])
    BY Zenon, <1>4 DEF StartAccept
  <2>2. /\ req'[w].op = "AcceptInvite" /\ req'[w].invite = i /\ req'[w].user = u
        /\ req'[w].org = invites[i].org
    BY <1>0, <2>1 DEF Begin, NoRequest
  <2>3. invites[i].status # "none" /\ SameAddress(AddressOf[u], invites[i].email)
    BY <2>1 DEF Acceptable, RecipientMatches
  <2> QED
    BY SMTT(60), <2>1, <2>2, <2>3 DEF Addressed
<1>5. CASE StartRegister(w)
  <2>1. PICK a \in Addresses, i \in Invites \cup {None} :
          /\ i # None => Acceptable(i) /\ SameAddress(invites[i].email, a)
          /\ UNCHANGED invites
          /\ Begin(w, [NoRequest EXCEPT !.op = "Register", !.pc = "create", !.email = a,
                                  !.invite = i,
                                  !.org = IF i = None THEN None ELSE invites[i].org])
    BY Zenon, <1>5 DEF StartRegister
  <2>2. /\ req'[w].op = "Register" /\ req'[w].invite = i /\ req'[w].email = a
        /\ i # None => req'[w].org = invites[i].org
    BY <1>0, <2>1 DEF Begin, NoRequest
  <2>3. CASE i # None
    <3>1. invites[i].status # "none" /\ SameAddress(a, invites[i].email)
      BY <2>1, <2>3 DEF Acceptable, SameAddress
    <3> QED
      BY <2>1, <2>2, <2>3, <3>1 DEF Addressed
  <2> QED
    BY SMTT(60), <2>2, <2>3
<1> QED
  BY Zenon, <1>1, <1>2, <1>3, <1>4, <1>5 DEF Start

LEMMA FreshNext == ASSUME Shape, Fresh, [Next]_vars PROVE Fresh'
<1>1. CASE UNCHANGED vars
  BY <1>1 DEF vars, Fresh, Creating
<1>2. ASSUME NEW v \in Workers, Creating(v) PROVE req[v].invite \in Invites
  BY <1>2 DEF Creating, Shape, RequestOK, InviteOps
<1>3. NoRequest.invite = None /\ NoRequest.pc = "idle" /\ None \notin Invites
  BY ConstantsAssumption DEF NoRequest
<1>4. ASSUME NEW x \in Workers, CreateInvite(x) PROVE Creating(x) /\ Serve(x) /\ ~Creating(x)'
  <2>1. Creating(x) /\ Serve(x) /\ req[x].pc = "commit"
    BY <1>4 DEF CreateInvite, Creating, At, Serve
  <2> QED
    BY <1>3, <2>1, FieldsKept DEF Creating
<1>5. ASSUME Next, UNCHANGED req PROVE Fresh'
  <2> SUFFICES ASSUME NEW v \in Workers, Creating(v)
               PROVE  invites'[req[v].invite].status = "none"
    BY <1>5 DEF Fresh, Creating
  <2>1. ~\E x \in Workers : CreateInvite(x)
    BY <1>4, <1>5 DEF Creating
  <2> QED
    BY <1>2, <1>5, <2>1, RowSteps DEF Fresh, RowStep
<1>6. ASSUME Next, NEW w \in Workers, Acts(w) PROVE Fresh'
  <2>1. \A v \in Workers \ {w} : req'[v] = req[v]
    BY <1>6, OthersKept
  <2>2. ASSUME NEW v \in Workers, Creating(v), Creating(v)'
        PROVE  invites'[req[v].invite].status = "none"
    <3>1. invites[req[v].invite].status = "none" /\ \A x \in Workers \ {v} : req[x].invite # req[v].invite
      BY <2>2 DEF Fresh
    <3>2. ~\E x \in Workers : CreateInvite(x) /\ req[x].invite = req[v].invite
      BY <1>4, <2>2, <3>1
    <3> QED
      BY SMTT(60), <1>2, <1>6, <2>2, <3>1, <3>2, RowSteps DEF RowStep
  <2>3. CASE Start(w)
    <3>1. UNCHANGED invites
      BY <2>3, StartBegins
    <3>2. ASSUME NEW v \in Workers, v # w, Creating(v)' PROVE req'[w].invite # req[v].invite
      <4>1. Creating(v) /\ invites[req[v].invite].status = "none" /\ req[v].invite # None
        BY <1>2, <1>3, <2>1, <3>2 DEF Creating, Fresh
      <4> QED
        BY <2>3, <4>1, StartNames
    <3>3. ASSUME Creating(w)'
          PROVE  /\ invites[req'[w].invite].status = "none"
                 /\ \A v \in Workers : req[v].invite # req'[w].invite
      BY <2>3, <3>3, StartNames DEF Creating
    <3> QED
      BY <2>1, <3>1, <3>2, <3>3 DEF Fresh, Creating
  <2>4. CASE Serve(w) \/ Abort(w)
    <3>1. req'[w].invite \in {req[w].invite, None}
      BY <1>3, <2>4, FieldsKept
    <3>2. ASSUME NEW v \in Workers, Creating(v)' PROVE Creating(v) /\ req'[v].invite = req[v].invite
      <4>1. CASE v = w
        BY SMTT(60), <1>3, <2>4, <3>2, <4>1, FieldsKept DEF Creating
      <4>2. CASE v # w
        BY <2>1, <3>2, <4>2 DEF Creating
      <4> QED
        BY <4>1, <4>2
    <3> SUFFICES ASSUME NEW v \in Workers, Creating(v)'
                 PROVE  /\ invites'[req'[v].invite].status = "none"
                        /\ \A x \in Workers \ {v} : req'[x].invite # req'[v].invite
      BY DEF Fresh
    <3>3. /\ Creating(v) /\ req'[v].invite = req[v].invite /\ req[v].invite # None
          /\ invites'[req[v].invite].status = "none"
      BY <1>2, <1>3, <2>2, <3>2
    <3>4. ASSUME NEW x \in Workers, x # v PROVE req'[x].invite # req[v].invite
      BY <2>1, <3>1, <3>3, <3>4 DEF Fresh
    <3> QED
      BY <3>3, <3>4
  <2> QED
    BY <1>6, <2>3, <2>4 DEF Acts
<1> QED
  BY <1>1, <1>5, <1>6, NobodyActs DEF Next, Acts

\* An invitation row that exists keeps its organization and its address, and leaves
\* "accepted" and "revoked" never.
LEMMA RowKept ==
  ASSUME Shape, Fresh, Next, NEW i \in Invites, invites[i].status # "none"
  PROVE  RowStep(i)
<1>1. ~\E w \in Workers : CreateInvite(w) /\ req[w].invite = i
  BY Zenon DEF CreateInvite, At, Fresh, Creating
<1> QED
  BY SMTT(60), <1>1, RowSteps

LEMMA AddressedNext ==
  ASSUME Shape, Fresh, \A v \in Workers : Addressed(v), [Next]_vars, NEW w \in Workers
  PROVE  Addressed(w)'
<1>1. CASE UNCHANGED vars
  BY <1>1 DEF vars, Addressed
<1>2. ASSUME Next, req'[w].op = req[w].op, req'[w].invite = req[w].invite, req'[w].org = req[w].org,
             req'[w].user = req[w].user, req'[w].email = req[w].email
      PROVE  Addressed(w)'
  <2>1. CASE invites[req[w].invite].status # "none" /\ req[w].invite \in Invites
    BY SMTT(60), <1>2, <2>1, RowKept DEF Addressed, RowStep
  <2>2. CASE ~(invites[req[w].invite].status # "none" /\ req[w].invite \in Invites)
    <3>1. req[w].op \notin {"RevokeInvite", "AcceptInvite"} /\ (req[w].op = "Register" => req[w].invite = None)
      BY Zenon, <2>2 DEF Addressed, Shape, TypeOK, Request, RequestOK, InviteOps
    <3> QED
      BY SMTT(60), <1>2, <3>1 DEF Addressed
  <2> QED
    BY SMTT(60), <2>1, <2>2
<1>3. CASE Next /\ UNCHANGED req
  BY <1>2, <1>3
<1>4. ASSUME Next, NEW x \in Workers, Acts(x) PROVE Addressed(w)'
  <2>1. CASE x # w
    BY SMTT(60), <1>2, <1>4, <2>1, OthersKept
  <2>2. CASE x = w /\ Start(w)
    BY ZenonT(60), <2>2, StartNames DEF Addressed
  <2>3. CASE x = w /\ (Serve(w) \/ Abort(w))
    <3>1. CASE req'[w] = NoRequest
      BY <3>1 DEF Addressed, NoRequest
    <3> QED
      BY SMTT(60), <1>2, <1>4, <2>3, <3>1, FieldsKept
  <2> QED
    BY <1>4, <2>1, <2>2, <2>3 DEF Acts
<1> QED
  BY SMTT(60), <1>1, <1>3, <1>4, NobodyActs DEF Next, Acts

\* Only a CreateInvite of its organization makes an invitation pending.
LEMMA PendingBefore ==
  ASSUME Shape, Next, NEW i \in Invites, invites'[i].status = "pending",
         ~\E x \in Workers : CreateInvite(x) /\ req[x].org = invites'[i].org
  PROVE  /\ invites[i].status = "pending" /\ invites[i].org = invites'[i].org
         /\ invites[i].email = invites'[i].email
<1>1. RowStep(i)
  BY RowSteps
<1> QED
  BY <1>1 DEF RowStep

LEMMA IndexNext ==
  ASSUME Shape, LockHeld, IndexNeverFires, [Next]_vars PROVE IndexNeverFires'
<1>1. CASE UNCHANGED vars
  BY <1>1 DEF vars, IndexNeverFires, At, PendingFor
<1> SUFFICES ASSUME Next, NEW v \in Workers, At(v, "InviteMember", "commit")',
                    NEW i \in Invites, invites'[i].status = "pending",
                    invites'[i].org = req'[v].org, SameAddress(invites'[i].email, req'[v].email)
             PROVE  i \in req'[v].revoking
  BY <1>1 DEF IndexNeverFires, PendingFor
<1>2. CASE req'[v] = req[v]
  <2>1. req[v].op = "InviteMember" /\ req[v].pc = "commit" /\ lock[req[v].org] = v
    BY <1>2 DEF At, LockHeld
  <2>2. ASSUME NEW x \in Workers, CreateInvite(x), req[x].org = req[v].org PROVE FALSE
    <3>1. x = v
      BY <2>1, <2>2 DEF CreateInvite, At, LockHeld
    <3>2. Serve(v)
      BY <2>2, <3>1 DEF Serve
    <3> QED
      BY <1>2, <2>1, <3>2, FieldsKept DEF NoRequest
  <2>3. i \in PendingFor(req[v].org, req[v].email)
    BY <1>2, <2>2, PendingBefore DEF PendingFor
  <2> QED
    BY <1>2, <2>1, <2>3 DEF IndexNeverFires, At
<1>3. CASE LockOrganization(v)
  <2>1. UNCHANGED invites /\ req \in [Workers -> Request] /\ req[v] \in Request
    BY <1>3 DEF LockOrganization, Shape, TypeOK
  <2>2. ~Finish(v)
    BY <2>1 DEF Finish, At, NoRequest
  <2>3. /\ req'[v].op = req[v].op /\ req'[v].org = req[v].org /\ req'[v].email = req[v].email
        /\ req[v].op = "InviteMember" => req'[v].revoking = PendingFor(req[v].org, req[v].email)
    BY SMTT(60), <1>3, <2>1, <2>2 DEF LockOrganization, Request
  <2> QED
    BY <2>1, <2>3 DEF PendingFor, At
<1>4. \/ req'[v] = req[v] \/ LockOrganization(v)
  BY Zenon, NobodyActs, OthersKept, CommitTakesLock DEF Next, Acts, At
<1> QED
  BY SMTT(60), <1>2, <1>3, <1>4

\* The purge deletes the invitations of organizations with a row, and rewrites no other.
LEMMA PurgedRow ==
  ASSUME PurgeUnverifiedSignups, NEW i \in Invites
  PROVE  \/ invites'[i] = invites[i]
         \/ invites[i].org \in Orgs /\ invites'[i].status = "deleted"
<1>1. PICK S \in SUBSET Users, E \in SUBSET Orgs : Purges(S, E)
  BY PurgeEffect
<1>2. invites'[i] = IF invites[i].org \in E THEN [NoInvite EXCEPT !.status = "deleted"] ELSE invites[i]
  BY <1>1 DEF Purges
<1> QED
  BY <1>2 DEF NoInvite

LEMMA PurgeLeavesRequests == ASSUME PurgeUnverifiedSignups PROVE UNCHANGED <<lock, req>>
BY PurgeEffect DEF Purges

LEMMA InvitesPurge ==
  ASSUME Shape, Blank, Fresh, \A w \in Workers : Addressed(w), IndexNeverFires,
         PurgeUnverifiedSignups
  PROVE  Blank' /\ Fresh' /\ (\A w \in Workers : Addressed(w))' /\ IndexNeverFires'
<1>1. UNCHANGED req
  BY PurgeLeavesRequests
<1>2. \A i \in Invites : invites[i].status = "none" => invites'[i] = invites[i]
  BY PurgedRow, ConstantsAssumption DEF Blank
<1>3. Blank'
  BY PurgedRow DEF Blank
<1>4. Fresh'
  <2>1. \A w \in Workers : Creating(w) => req[w].invite \in Invites
    BY DEF Creating, Shape, RequestOK, InviteOps
  <2> QED
    BY <1>1, <1>2, <2>1 DEF Fresh, Creating
<1>5. ASSUME NEW w \in Workers PROVE Addressed(w)'
  <2>1. CASE req[w].invite \in Invites
    <3>1. CASE invites'[req[w].invite] = invites[req[w].invite]
      BY <1>1, <3>1 DEF Addressed
    <3>2. CASE invites'[req[w].invite].status = "deleted"
      BY <1>1, <3>2 DEF Addressed
    <3> QED
      BY <2>1, <3>1, <3>2, PurgedRow
  <2>2. CASE req[w].invite \notin Invites
    <3>1. req[w].invite = None /\ req[w].op \notin {"RevokeInvite", "AcceptInvite"}
      BY <2>2 DEF Shape, TypeOK, Request, RequestOK, InviteOps
    <3> QED
      BY <1>1, <3>1 DEF Addressed
  <2> QED
    BY <2>1, <2>2
<1>6. IndexNeverFires'
  <2> SUFFICES ASSUME NEW w \in Workers, At(w, "InviteMember", "commit"),
                      NEW i \in Invites, invites'[i].status = "pending", invites'[i].org = req[w].org,
                      SameAddress(invites'[i].email, req[w].email)
               PROVE  i \in req[w].revoking
    BY <1>1 DEF IndexNeverFires, At, PendingFor
  <2>1. invites'[i] = invites[i]
    BY PurgedRow
  <2> QED
    BY <2>1 DEF IndexNeverFires, PendingFor
<1> QED
  BY <1>3, <1>4, <1>5, <1>6

InviteInv == LockHeld /\ Blank /\ Fresh /\ (\A w \in Workers : Addressed(w)) /\ IndexNeverFires

LEMMA InvitesAlways == OperatorSpec => []InviteInv
<1>1. Init => InviteInv
  <2> SUFFICES ASSUME Init PROVE InviteInv
    OBVIOUS
  <2>1. \A w \in Workers : req[w] = NoRequest /\ NoRequest.pc = "idle" /\ NoRequest.op = "none"
    BY DEF Init, NoRequest
  <2>2. LockHeld /\ Fresh /\ IndexNeverFires
    BY <2>1 DEF LockHeld, Fresh, Creating, IndexNeverFires, At
  <2>3. \A w \in Workers : Addressed(w)
    BY Zenon, <2>1 DEF Addressed
  <2>4. Blank
    BY DEF Init, Blank, NoInvite
  <2> QED
    BY <2>2, <2>3, <2>4 DEF InviteInv
<1>2. Shape /\ InviteInv /\ [OperatorNext]_vars => InviteInv'
  <2>1. ASSUME Shape, InviteInv, [Next]_vars PROVE InviteInv'
    BY <2>1, LockHeldNext, BlankNext, FreshNext, AddressedNext, IndexNext DEF InviteInv
  <2>2. ASSUME Shape, InviteInv, PurgeUnverifiedSignups PROVE InviteInv'
    BY <2>2, LockHeldPurge, InvitesPurge DEF InviteInv
  <2> QED
    BY <2>1, <2>2 DEF OperatorNext
<1> QED
  BY <1>1, <1>2, ShapeAlways, PTL DEF OperatorSpec

\* The partial unique index of organization_invites never refuses CreateInvite: what it
\* revoked under the row lock is all that is pending for that address.
THEOREM IndexQuiet == OperatorSpec => []IndexNeverFires
<1>1. InviteInv => IndexNeverFires
  BY DEF InviteInv
<1> QED
  BY <1>1, InvitesAlways, PTL

\* Accepted and revoked are final until the purge deletes the organization: every UPDATE
\* of an invitation is conditional on 'pending', and CreateInvite inserts a row nobody
\* has seen.
THEOREM FinalInvites == OperatorSpec => InvitesAreFinal
<1>1. Shape /\ InviteInv /\ [OperatorNext]_vars =>
        [\A i \in Invites : invites[i].status \in {"accepted", "revoked"} =>
           invites'[i].status \in {invites[i].status, "deleted"}]_vars
  <2> SUFFICES ASSUME Shape, InviteInv, OperatorNext, NEW i \in Invites,
                      invites[i].status \in {"accepted", "revoked"}
               PROVE  invites'[i].status \in {invites[i].status, "deleted"}
    OBVIOUS
  <2>1. CASE Next
    <3>1. RowStep(i)
      BY ZenonT(60), <2>1, RowKept DEF InviteInv
    <3> QED
      BY <3>1 DEF RowStep
  <2>2. CASE PurgeUnverifiedSignups
    BY <2>2, PurgedRow
  <2> QED
    BY <2>1, <2>2 DEF OperatorNext
<1> QED
  BY <1>1, ShapeAlways, InvitesAlways, PTL DEF OperatorSpec, InvitesAreFinal

(***************************************************************************)
(* What one step may do to a membership                                     *)
(***************************************************************************)
Joined(o, u) ==
  \E i \in Invites : /\ invites[i].status = "pending" /\ invites'[i].status = "accepted"
                     /\ invites[i].org = o /\ SameAddress(AddressOf[u], invites[i].email)

MemberStep(o, u) ==
  \/ members'[o][u] = members[o][u]
  \/ \E w \in Workers : /\ req[w].pc = "commit" /\ req[w].org = o /\ req[w].user = u
                        /\ \/ /\ req[w].op = "AddMember"
                              /\ members'[o][u] = Inserted(members[o][u], "active")
                           \/ /\ req[w].op = "SuspendMember"
                              /\ members'[o][u] = IF members[o][u] = "none" THEN "none" ELSE "suspended"
                           \/ req[w].op = "RemoveMember" /\ members'[o][u] = "none"
  \/ ~OrgExists(o) /\ members'[o][u] = Inserted(members[o][u], "active")
  \/ Joined(o, u) /\ members'[o][u] = Upserted(members[o][u])

\* A write of one row changes no other.
LEMMA OneRow ==
  ASSUME Shape, NEW o \in Orgs, NEW u \in Users, NEW p \in Orgs, NEW v \in Users, NEW s,
         members' = [members EXCEPT ![p][v] = s]
  PROVE  \/ members'[o][u] = members[o][u]
         \/ o = p /\ u = v /\ members'[o][u] = s
<1>1. members \in [Orgs -> [Users -> MemberStatus]] /\ members[p] \in [Users -> MemberStatus]
  BY DEF Shape, TypeOK
<1>2. CASE o # p
  BY <1>1, <1>2
<1>3. CASE o = p /\ u # v
  BY <1>1, <1>3
<1>4. CASE o = p /\ u = v
  BY SMTT(60), <1>1, <1>4
<1> QED
  BY SMTT(60), <1>2, <1>3, <1>4

LEMMA JoinStep ==
  ASSUME Shape, \A w \in Workers : Addressed(w), NEW w \in Workers, NEW v \in Users,
         JoinByInvite(w, v), req[w].op = "Register", req[w].invite # None,
         AddressOf[v] = req[w].email, NEW o \in Orgs, NEW u \in Users
  PROVE  MemberStep(o, u)
<1> DEFINE p == req[w].org
           i == req[w].invite
<1>1. /\ p \in Orgs /\ i \in Invites
      /\ StillPending(i) => invites[i].org = p /\ SameAddress(AddressOf[v], invites[i].email)
  BY SMTT(60), ZenonT(30), SMTT(30) DEF Shape, TypeOK, Request, RequestOK, Addressed, StillPending
<1>2. CASE OrgExists(p) /\ StillPending(i)
  <2>1. /\ members' = [members EXCEPT ![p][v] = Upserted(members[p][v])]
        /\ invites' = [invites EXCEPT ![i].status = "accepted"]
    BY SMTT(60), <1>1, <1>2 DEF JoinByInvite, Shape, TypeOK
  <2>2. invites'[i].status = "accepted"
    BY SMTT(60), <1>1, <2>1 DEF Shape, TypeOK, InviteRow
  <2>3. Joined(p, v)
    BY Zenon, <1>1, <1>2, <2>2 DEF Joined, StillPending
  <2> HIDE DEF p, i
  <2>4. \/ members'[o][u] = members[o][u]
        \/ o = p /\ u = v /\ members'[o][u] = Upserted(members[p][v])
    BY <1>1, <2>1, OneRow
  <2> QED
    BY SMTT(60), <2>3, <2>4 DEF MemberStep
<1>3. CASE ~(OrgExists(p) /\ StillPending(i))
  BY <1>3 DEF JoinByInvite, MemberStep
<1> QED
  BY SMTT(60), <1>2, <1>3

LEMMA CreateStep ==
  ASSUME Shape, NEW p \in Orgs, NEW v \in Users, orgs[p] = "absent",
         members' = [members EXCEPT ![p][v] = Inserted(@, "active")],
         NEW o \in Orgs, NEW u \in Users
  PROVE  MemberStep(o, u)
<1>1. members' = [members EXCEPT ![p][v] = Inserted(members[p][v], "active")]
  BY DEF Shape, TypeOK
<1>2. \/ members'[o][u] = members[o][u]
      \/ o = p /\ u = v /\ members'[o][u] = Inserted(members[p][v], "active")
  BY SMTT(60), <1>1, OneRow
<1> QED
  BY <1>2 DEF MemberStep, OrgExists

LEMMA MemberSteps ==
  ASSUME Shape, \A w \in Workers : Addressed(w), Next, NEW o \in Orgs, NEW u \in Users
  PROVE  MemberStep(o, u)
<1>1. CASE UNCHANGED members
  BY <1>1 DEF MemberStep
<1>2. ASSUME NEW c \in Users, NEW p \in Orgs, CreateOrg(c, p) PROVE MemberStep(o, u)
  BY ZenonT(60), <1>2, CreateStep DEF CreateOrg
<1>3. ASSUME NEW w \in Workers, SignupPending(w) PROVE MemberStep(o, u)
  BY <1>1, <1>3, CreateStep DEF SignupPending
<1>4. ASSUME NEW w \in Workers, SignupWithInvite(w) \/ ReissuePendingSignup(w) PROVE MemberStep(o, u)
  <2>1. req[w].op = "Register" /\ req[w].invite # None
    BY SMTT(60), ZenonT(30), SMTT(30), <1>4 DEF SignupWithInvite, ReissuePendingSignup, At, Shape, RequestOK
  <2>2. \/ UNCHANGED members
        \/ \E v \in Users : AddressOf[v] = req[w].email /\ JoinByInvite(w, v)
    BY SMTT(60), ZenonT(30), SMTT(30), <1>4 DEF SignupWithInvite, ReissuePendingSignup
  <2> QED
    BY ZenonT(60), <1>1, <2>1, <2>2, JoinStep
<1>5. ASSUME NEW w \in Workers,
             AddMember(w) \/ UpdateMemberStatus(w) \/ RemoveMember(w) \/ AcceptInvite(w)
      PROVE  MemberStep(o, u)
  <2> DEFINE p == req[w].org
             v == req[w].user
             i == req[w].invite
  <2>1. p \in Orgs /\ v \in Users /\ req[w].pc = "commit"
    BY SMTT(60), <1>5 DEF AddMember, UpdateMemberStatus, RemoveMember, AcceptInvite, At, Shape, RequestOK, TargetOps
  <2>2. CASE AddMember(w) /\ ForeignKeyHolds(v)
    <3>1. members' = [members EXCEPT ![p][v] = Inserted(members[p][v], "active")] /\ req[w].op = "AddMember"
      BY SMTT(60), <2>1, <2>2 DEF AddMember, At, Shape, TypeOK
    <3>2. \/ members'[o][u] = members[o][u]
          \/ o = p /\ u = v /\ members'[o][u] = Inserted(members[p][v], "active")
      BY ZenonT(60), <2>1, <3>1, OneRow
    <3> QED
      BY ZenonT(60), <2>1, <3>1, <3>2 DEF MemberStep
  <2>3. CASE UpdateMemberStatus(w)
    <3> DEFINE s == IF members[p][v] = "none" THEN "none" ELSE "suspended"
    <3>1. members' = [members EXCEPT ![p][v] = s] /\ req[w].op = "SuspendMember"
      BY SMTT(60), <2>1, <2>3 DEF UpdateMemberStatus, At, Shape, TypeOK
    <3> HIDE DEF s
    <3>2. members'[o][u] = members[o][u] \/ (o = p /\ u = v /\ members'[o][u] = s)
      BY SMTT(60), <2>1, <3>1, OneRow
    <3> QED
      BY ZenonT(60), <2>1, <3>1, <3>2 DEF MemberStep, s
  <2>4. CASE RemoveMember(w)
    <3>1. members' = [members EXCEPT ![p][v] = "none"] /\ req[w].op = "RemoveMember"
      BY SMTT(60), <2>4 DEF RemoveMember, At
    <3>2. members'[o][u] = members[o][u] \/ (o = p /\ u = v /\ members'[o][u] = "none")
      BY SMTT(60), <2>1, <3>1, OneRow
    <3> QED
      BY SMTT(60), <2>1, <3>1, <3>2 DEF MemberStep
  <2>5. CASE AcceptInvite(w) /\ StillPending(i)
    <3>1. /\ members' = [members EXCEPT ![p][v] = Upserted(members[p][v])]
          /\ invites' = [invites EXCEPT ![i].status = "accepted"] /\ req[w].op = "AcceptInvite"
      BY SMTT(60), <2>1, <2>5 DEF AcceptInvite, At, Shape, TypeOK
    <3>2. i \in Invites /\ invites[i].org = p /\ SameAddress(AddressOf[v], invites[i].email)
      BY SMTT(60), <2>5, <3>1 DEF Shape, RequestOK, InviteOps, Addressed, StillPending
    <3>3. invites'[i].status = "accepted"
      BY SMTT(60), <3>1, <3>2 DEF Shape, TypeOK, InviteRow
    <3>4. Joined(p, v)
      BY SMTT(60), <2>5, <3>2, <3>3 DEF Joined, StillPending
    <3>5. \/ members'[o][u] = members[o][u]
          \/ o = p /\ u = v /\ members'[o][u] = Upserted(members[p][v])
      BY ZenonT(60), <2>1, <3>1, OneRow
    <3> QED
      BY SMTT(60), <3>4, <3>5 DEF MemberStep
  <2> QED
    BY SMTT(60), ZenonT(30), SMTT(30), <1>1, <1>5, <2>2, <2>3, <2>4, <2>5 DEF AddMember, AcceptInvite
<1>6. ASSUME NEW w \in Workers, Start(w) PROVE UNCHANGED members
  BY <1>6, StartBegins
<1>7. ASSUME NEW w \in Workers,
             \/ Check(w) \/ LockOrganization(w) \/ CreateInvite(w) \/ SendOrgInvite(w)
             \/ RevokeInvite(w) \/ SignupConflict(w) \/ Abort(w)
      PROVE  UNCHANGED members
  BY SMTT(60), ZenonT(30), SMTT(30), <1>7 DEF Check, LockOrganization, CreateInvite, SendOrgInvite, RevokeInvite, SignupConflict, Abort
<1>8. CASE (\E x \in Users : CreateAccount(x) \/ VerifySignup(x)) \/ \E i \in Invites : ExpireInvite(i)
  BY <1>1, <1>8 DEF CreateAccount, VerifySignup, ExpireInvite
<1> QED
  BY SMTT(60), <1>1, <1>2, <1>3, <1>4, <1>5, <1>6, <1>7, <1>8 DEF Next, Serve

\* What one step of the service or of the operator may do to a membership.
LEMMA OperatorMemberSteps ==
  ASSUME Shape, InviteInv, [OperatorNext]_vars, NEW o \in Orgs, NEW u \in Users
  PROVE  MemberStep(o, u) \/ (account[u] = "signup_pending" /\ members'[o][u] = "none")
<1>1. CASE UNCHANGED vars
  BY <1>1 DEF vars, MemberStep
<1>2. CASE Next
  BY <1>2, MemberSteps DEF InviteInv
<1>3. CASE PurgeUnverifiedSignups
  <2>1. PICK S \in SUBSET Users, E \in SUBSET Orgs : Purges(S, E)
    BY <1>3, PurgeEffect
  <2>2. members'[o][u] = (IF u \in S THEN "none" ELSE members[o][u]) /\ \A v \in S : Purgeable(v)
    BY <2>1 DEF Purges
  <2> QED
    BY <2>2 DEF Purgeable, MemberStep
<1> QED
  BY <1>1, <1>2, <1>3 DEF OperatorNext

\* Nobody joins an existing organization but by AddMember or with a pending invitation
\* to it and to their address, which the same commit uses up (AcceptInvite,
\* CreateSignupUser, ReissuePendingSignup).
THEOREM JoinsAreInvited == OperatorSpec => JoinsUseUpInvites
<1>1. Shape /\ InviteInv /\ [OperatorNext]_vars =>
        [\A o \in Orgs, u \in Users :
           OrgExists(o) /\ members[o][u] = "none" /\ members'[o][u] # "none" =>
             \/ \E w \in Workers : /\ At(w, "AddMember", "commit")
                                   /\ req[w].org = o /\ req[w].user = u
             \/ \E i \in Invites : /\ invites[i].status = "pending"
                                   /\ invites'[i].status = "accepted"
                                   /\ invites[i].org = o
                                   /\ SameAddress(AddressOf[u], invites[i].email)]_vars
  BY OperatorMemberSteps DEF MemberStep, Joined, At
<1> QED
  BY <1>1, ShapeAlways, InvitesAlways, PTL DEF OperatorSpec, JoinsUseUpInvites

\* No request reactivates a suspended membership: both inserts leave an existing
\* suspended row alone.
THEOREM StaysSuspended == OperatorSpec => SuspendedStays
<1>1. Shape /\ InviteInv /\ [OperatorNext]_vars =>
        [\A o \in Orgs, u \in Users :
           members[o][u] = "suspended" => members'[o][u] # "active"]_vars
  BY OperatorMemberSteps DEF MemberStep, Inserted, Upserted
<1> QED
  BY <1>1, ShapeAlways, InvitesAlways, PTL DEF OperatorSpec, SuspendedStays

\* A verified account loses a membership to RemoveMember alone, never to the purge and
\* never to a write that finds the row suspended, invited or gone.
THEOREM VerifiedKept == OperatorSpec => VerifiedMembersKept
<1>1. Shape /\ InviteInv /\ [OperatorNext]_vars =>
        [\A o \in Orgs, u \in Users :
           account[u] = "active" /\ members[o][u] # "none" /\ members'[o][u] = "none" =>
             \E w \in Workers : /\ At(w, "RemoveMember", "commit")
                                /\ req[w].org = o /\ req[w].user = u]_vars
  <2> SUFFICES ASSUME Shape, InviteInv, [OperatorNext]_vars, NEW o \in Orgs, NEW u \in Users,
                      account[u] = "active", members[o][u] # "none", members'[o][u] = "none"
               PROVE  \E w \in Workers : /\ At(w, "RemoveMember", "commit")
                                         /\ req[w].org = o /\ req[w].user = u
    OBVIOUS
  <2>1. MemberStep(o, u)
    BY OperatorMemberSteps
  <2> QED
    BY <2>1 DEF MemberStep, Inserted, Upserted, At
<1> QED
  BY <1>1, ShapeAlways, InvitesAlways, PTL DEF OperatorSpec, VerifiedMembersKept

(***************************************************************************)
(* Every membership row has its user and its organization                    *)
(***************************************************************************)
\* Who accepts an invitation has verified the account, which the purge does not take.
Recipient(w) == req[w].op = "AcceptInvite" => account[req[w].user] = "active"

\* Accounts that exist stay, verified ones as they are, but for the purge.
LEMMA AccountsStay ==
  ASSUME Shape, Next, NEW u \in Users
  PROVE  (account[u] = "active" => account'[u] = "active") /\ (Exists(u) => Exists(u)')
<1>0. account \in [Users -> {"absent", "signup_pending", "active", "purged"}]
  BY DEF Shape, TypeOK
<1>1. CASE UNCHANGED account
  BY <1>1 DEF Exists
<1>2. ASSUME NEW v \in Users, account' = [account EXCEPT ![v] = "active"]
      PROVE  (account[u] = "active" => account'[u] = "active") /\ (Exists(u) => Exists(u)')
  BY <1>0, <1>2 DEF Exists
<1>3. ASSUME NEW w \in Workers, SignupPending(w)
      PROVE  (account[u] = "active" => account'[u] = "active") /\ (Exists(u) => Exists(u)')
  <2>1. PICK v \in Users : account[v] = "absent" /\ account' = [account EXCEPT ![v] = "signup_pending"]
    BY Zenon, <1>3 DEF SignupPending
  <2> QED
    BY <1>0, <2>1 DEF Exists
<1>4. ASSUME NEW w \in Workers, SignupWithInvite(w) \/ ReissuePendingSignup(w)
      PROVE  UNCHANGED account \/ \E v \in Users : account' = [account EXCEPT ![v] = "active"]
  BY Zenon, <1>4 DEF SignupWithInvite, ReissuePendingSignup, JoinByInvite
<1>5. ASSUME NEW w \in Workers, Start(w) PROVE UNCHANGED account
  BY <1>5, StartBegins
<1>6. ASSUME NEW w \in Workers, Serve(w) \/ Abort(w),
             ~(SignupPending(w) \/ SignupWithInvite(w) \/ ReissuePendingSignup(w))
      PROVE  UNCHANGED account
  BY Zenon, <1>6 DEF Serve, Abort, Check, LockOrganization, AddMember, UpdateMemberStatus,
              RemoveMember, CreateInvite, SendOrgInvite, RevokeInvite, AcceptInvite, SignupConflict
<1>7. ASSUME NEW v \in Users, CreateAccount(v) \/ VerifySignup(v)
      PROVE  account' = [account EXCEPT ![v] = "active"]
  BY <1>7 DEF CreateAccount, VerifySignup
<1>8. CASE (\E c \in Users, o \in Orgs : CreateOrg(c, o)) \/ \E i \in Invites : ExpireInvite(i)
  BY <1>1, <1>8 DEF CreateOrg, ExpireInvite
<1> QED
  BY Zenon, <1>1, <1>2, <1>3, <1>4, <1>5, <1>6, <1>7, <1>8 DEF Next

LEMMA RecipientNext ==
  ASSUME Shape, Next, NEW w \in Workers, Recipient(w) PROVE Recipient(w)'
<1> SUFFICES ASSUME req'[w].op = "AcceptInvite" PROVE account'[req'[w].user] = "active"
  BY DEF Recipient
<1>1. ASSUME req'[w].op = req[w].op, req'[w].user = req[w].user PROVE account'[req'[w].user] = "active"
  <2>1. req[w].user \in Users /\ account[req[w].user] = "active"
    BY <1>1 DEF Recipient, Shape, RequestOK, TargetOps
  <2> QED
    BY <1>1, <2>1, AccountsStay
<1>2. CASE Start(w)
  BY <1>2, StartBegins, StartNames DEF HasSession
<1>3. CASE Serve(w) \/ Abort(w)
  <2>1. req'[w] # NoRequest
    BY DEF NoRequest
  <2> QED
    BY <1>1, <1>3, <2>1, FieldsKept
<1>4. ASSUME NEW x \in Workers, x # w, Acts(x) PROVE req'[w] = req[w]
  BY <1>4, OthersKept
<1> QED
  BY <1>1, <1>2, <1>3, <1>4, NobodyActs DEF Next, Acts

\* A row is inserted for an account that exists when the transaction commits: the caller
\* of CreateOrg, the account that the sign-up writes, the user that the foreign key or
\* the gate of AcceptInvite vouches for.
LEMMA JoinerExists ==
  ASSUME Shape, \A w \in Workers : Recipient(w), Next, NEW o \in Orgs, NEW u \in Users,
         members[o][u] = "none", members'[o][u] # "none"
  PROVE  Exists(u)'
<1>0. account \in [Users -> {"absent", "signup_pending", "active", "purged"}]
  BY DEF Shape, TypeOK
<1>1. ~UNCHANGED members
  OBVIOUS
<1>2. ASSUME NEW p \in Orgs, NEW v \in Users,
             members' = [members EXCEPT ![p][v] = Inserted(@, "active")]
      PROVE  u = v
  <2>1. members' = [members EXCEPT ![p][v] = Inserted(members[p][v], "active")]
    BY <1>2 DEF Shape, TypeOK
  <2> QED
    BY <2>1, OneRow
<1>3. ASSUME NEW p \in Orgs, NEW v \in Users, members' = [members EXCEPT ![p][v] = Upserted(@)]
      PROVE  u = v
  <2>1. members' = [members EXCEPT ![p][v] = Upserted(members[p][v])]
    BY <1>3 DEF Shape, TypeOK
  <2> QED
    BY <2>1, OneRow
<1>4. ASSUME NEW c \in Users, NEW p \in Orgs, CreateOrg(c, p) PROVE Exists(u)'
  BY <1>2, <1>4 DEF CreateOrg, HasSession, Exists
<1>5. ASSUME NEW w \in Workers, SignupPending(w) PROVE Exists(u)'
  <2>1. PICK v \in Users :
          /\ account' = [account EXCEPT ![v] = "signup_pending"]
          /\ \/ UNCHANGED members
             \/ \E p \in Orgs : members' = [members EXCEPT ![p][v] = Inserted(@, "active")]
    BY Zenon, <1>5 DEF SignupPending
  <2>2. u = v
    BY <1>1, <1>2, <2>1
  <2> QED
    BY <1>0, <2>1, <2>2 DEF Exists
<1>6. ASSUME NEW w \in Workers, NEW v \in Users, JoinByInvite(w, v),
             req[w].op = "Register", req[w].invite # None
      PROVE  Exists(u)'
  <2>1. /\ account' = [account EXCEPT ![v] = "active"]
        /\ members' = [members EXCEPT ![req[w].org][v] = Upserted(@)]
    BY Zenon, <1>1, <1>6 DEF JoinByInvite
  <2>2. req[w].org \in Orgs
    BY <1>6 DEF Shape, RequestOK
  <2>3. u = v
    BY <1>3, <2>1, <2>2
  <2> QED
    BY <1>0, <2>1, <2>3 DEF Exists
<1>7. ASSUME NEW w \in Workers, SignupWithInvite(w) \/ ReissuePendingSignup(w) PROVE Exists(u)'
  <2>1. req[w].op = "Register" /\ req[w].invite # None
    BY <1>7 DEF SignupWithInvite, ReissuePendingSignup, At, Shape, RequestOK
  <2>2. \E v \in Users : JoinByInvite(w, v)
    BY Zenon, <1>1, <1>7 DEF SignupWithInvite, ReissuePendingSignup
  <2> QED
    BY <1>6, <2>1, <2>2
<1>8. ASSUME NEW w \in Workers, AddMember(w) PROVE Exists(u)'
  <2>1. req[w].org \in Orgs /\ req[w].user \in Users
    BY <1>8 DEF AddMember, At, Shape, RequestOK, TargetOps
  <2>2. /\ Exists(req[w].user) /\ UNCHANGED account
        /\ members' = [members EXCEPT ![req[w].org][req[w].user] = Inserted(@, "active")]
    BY Zenon, <1>1, <1>8 DEF AddMember, ForeignKeyHolds
  <2> QED
    BY <1>2, <2>1, <2>2 DEF Exists
<1>9. ASSUME NEW w \in Workers, UpdateMemberStatus(w) \/ RemoveMember(w) PROVE FALSE
  <2> DEFINE p == req[w].org
             v == req[w].user
             t == IF members[p][v] = "none" THEN "none" ELSE "suspended"
  <2>1. p \in Orgs /\ v \in Users
    BY SMTT(60), ZenonT(30), SMTT(30), <1>9 DEF UpdateMemberStatus, RemoveMember, At, Shape, RequestOK, TargetOps
  <2>2. members' = [members EXCEPT ![p][v] = t] \/ members' = [members EXCEPT ![p][v] = "none"]
    BY SMTT(60), ZenonT(30), SMTT(30), <1>9, <2>1 DEF UpdateMemberStatus, RemoveMember, Shape, TypeOK
  <2>3. o = p /\ u = v => t = "none"
    OBVIOUS
  <2> HIDE DEF p, v, t
  <2> QED
    BY <2>1, <2>2, <2>3, OneRow
<1>10. ASSUME NEW w \in Workers, AcceptInvite(w) PROVE Exists(u)'
  <2>1. req[w].org \in Orgs /\ req[w].user \in Users /\ req[w].op = "AcceptInvite"
    BY <1>10 DEF AcceptInvite, At, Shape, RequestOK, TargetOps
  <2>2. UNCHANGED account /\ members' = [members EXCEPT ![req[w].org][req[w].user] = Upserted(@)]
    BY Zenon, <1>1, <1>10 DEF AcceptInvite
  <2>3. account[req[w].user] = "active"
    BY <2>1 DEF Recipient
  <2> QED
    BY <1>3, <2>1, <2>2, <2>3 DEF Exists
<1>11. ASSUME NEW w \in Workers, Start(w) PROVE FALSE
  BY <1>1, <1>11, StartBegins
<1>12. ASSUME NEW w \in Workers,
              \/ Check(w) \/ LockOrganization(w) \/ CreateInvite(w) \/ SendOrgInvite(w)
              \/ RevokeInvite(w) \/ SignupConflict(w) \/ Abort(w)
       PROVE  FALSE
  BY Zenon, <1>1, <1>12 DEF Check, LockOrganization, CreateInvite, SendOrgInvite, RevokeInvite,
                     SignupConflict, Abort
<1>13. ~((\E v \in Users : CreateAccount(v) \/ VerifySignup(v)) \/ \E i \in Invites : ExpireInvite(i))
  BY <1>1 DEF CreateAccount, VerifySignup, ExpireInvite
<1> QED
  BY Zenon, <1>4, <1>5, <1>7, <1>8, <1>9, <1>10, <1>11, <1>12, <1>13 DEF Next, Serve

Housed == NoOrphanMembership /\ \A w \in Workers : Recipient(w)

LEMMA HousedNext == ASSUME Shape, LockHeld, Housed, Next PROVE Housed'
<1>1. \A w \in Workers : Recipient(w)'
  BY RecipientNext DEF Housed
<1>2. ASSUME NEW o \in Orgs, NEW u \in Users, members'[o][u] # "none"
      PROVE  Exists(u)' /\ orgs'[o] = "live"
  <2>1. CASE members[o][u] # "none"
    <3>1. Exists(u) /\ OrgExists(o)
      BY <2>1 DEF Housed, NoOrphanMembership
    <3> QED
      BY <3>1, AccountsStay, OrgsStay
  <2>2. CASE members[o][u] = "none"
    BY <1>2, <2>2, JoinerExists, ChangesInOrgs DEF Housed
  <2> QED
    BY <2>1, <2>2
<1> QED
  BY <1>1, <1>2 DEF Housed, NoOrphanMembership, OrgExists

\* The purge deletes an account with its rows, and an organization that no row is left of.
LEMMA HousedPurge == ASSUME Shape, Housed, PurgeUnverifiedSignups PROVE Housed'
<1>1. PICK S \in SUBSET Users, E \in SUBSET Orgs : Purges(S, E)
  BY PurgeEffect
<1>2. ASSUME NEW w \in Workers PROVE Recipient(w)'
  <2> SUFFICES ASSUME req'[w].op = "AcceptInvite" PROVE account'[req'[w].user] = "active"
    BY DEF Recipient
  <2>1. req' = req
    BY <1>1 DEF Purges
  <2>2. req[w].user \in Users /\ account[req[w].user] = "active"
    BY <2>1 DEF Housed, Recipient, Shape, RequestOK, TargetOps
  <2>3. req[w].user \notin S
    BY <1>1, <2>2 DEF Purges, Purgeable
  <2> QED
    BY <1>1, <2>1, <2>2, <2>3 DEF Purges
<1>3. ASSUME NEW o \in Orgs, NEW u \in Users, members'[o][u] # "none"
      PROVE  Exists(u)' /\ orgs'[o] = "live"
  <2>1. u \notin S /\ members[o][u] # "none"
    BY <1>1, <1>3 DEF Purges
  <2>2. Exists(u) /\ OrgExists(o)
    BY <2>1 DEF Housed, NoOrphanMembership
  <2>3. o \notin E
    BY <1>1, <2>1 DEF Purges
  <2> QED
    BY <1>1, <2>1, <2>2, <2>3 DEF Purges, Exists, OrgExists
<1> QED
  BY <1>2, <1>3 DEF Housed, NoOrphanMembership, OrgExists

\* Every membership row has its user and its organization, although AddMember looks the
\* user up before its transaction and the purge may delete both in between: the foreign
\* key, the row lock the purge waits for, and that it takes no verified account.
THEOREM NoOrphans == OperatorSpec => []NoOrphanMembership
<1>1. Init => Housed
  BY DEF Init, Housed, NoOrphanMembership, Recipient, NoRequest
<1>2. Shape /\ InviteInv /\ Housed /\ [OperatorNext]_vars => Housed'
  <2> SUFFICES ASSUME Shape, InviteInv, Housed, [OperatorNext]_vars PROVE Housed'
    OBVIOUS
  <2>1. CASE UNCHANGED vars
    BY <2>1 DEF vars, Housed, NoOrphanMembership, Recipient, Exists, OrgExists
  <2> QED
    BY <2>1, HousedNext, HousedPurge DEF InviteInv, OperatorNext
<1>3. Housed => NoOrphanMembership
  BY DEF Housed
<1> QED
  BY <1>1, <1>2, <1>3, ShapeAlways, InvitesAlways, PTL DEF OperatorSpec

==============================================================================
