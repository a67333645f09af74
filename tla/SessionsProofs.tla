--------------------------- MODULE SessionsProofs ---------------------------
(***************************************************************************)
(* Proofs about Sessions, for any sets of users, organizations, tokens and   *)
(* workers: the type invariant, that a session stays with its user, that a   *)
(* rotated token is dead while revocations succeed, and what the claim of an *)
(* issued pair says about the membership.                                   *)
(***************************************************************************)
EXTENDS Sessions, FiniteSetTheorems, TLAPS

(***************************************************************************)
(* Types                                                                    *)
(***************************************************************************)
\* singleActiveOrg returns an organization the user is active in, or none.
LEMMA SingleIsActive ==
  ASSUME TypeOK, NEW u \in Users
  PROVE  SingleActiveOrg(u) \in active[u] \cup {None}
<1>1. CASE AutoSelect /\ Cardinality(active[u]) = 1
  <2>1. active[u] # {}
    BY <1>1, FS_EmptySet
  <2> QED
    BY <1>1, <2>1 DEF SingleActiveOrg
<1>2. CASE ~(AutoSelect /\ Cardinality(active[u]) = 1)
  BY <1>2 DEF SingleActiveOrg
<1> QED
  BY <1>1, <1>2

\* A login begins with the organization of its user or with none.
LEMMA LoginBegins ==
  ASSUME TypeOK, NEW w \in Workers, StartLogin(w)
  PROVE  /\ UNCHANGED <<token, active>>
         /\ \E u \in Users, o \in Orgs \cup {None} : Begin(w, "Login", "store", u, o, o, None)
  BY SingleIsActive DEF StartLogin, TypeOK

\* Every action leaves rows and requests well formed.
LEMMA SessionsTypeStep == TypeOK /\ [Next]_vars => TypeOK'
<1> SUFFICES ASSUME TypeOK, [Next]_vars PROVE TypeOK'
  OBVIOUS
<1> USE SessionsAssumption DEF TypeOK, TokenRow, Request, NoRequest
<1>1. ASSUME NEW w \in Workers, StartLogin(w) PROVE TypeOK'
  <2>1. PICK u \in Users, o \in Orgs \cup {None} :
          Begin(w, "Login", "store", u, o, o, None) /\ UNCHANGED <<token, active>>
    BY <1>1, LoginBegins
  <2> QED
    BY <2>1 DEF Begin
<1>2. ASSUME NEW w \in Workers, StartRefresh(w) PROVE TypeOK'
  <2>1. PICK t \in Tokens :
          /\ Valid(t)
          /\ Begin(w, "Refresh", "revoke", token[t].user, token[t].org, None, t)
          /\ UNCHANGED <<token, active>>
    BY <1>2 DEF StartRefresh
  <2>2. token[t].user \in Users \cup {None} /\ token[t].org \in Orgs \cup {None}
    OBVIOUS
  <2> QED
    BY <2>1, <2>2 DEF Begin
<1>3. ASSUME NEW w \in Workers, StartSelectOrg(w) PROVE TypeOK'
  BY <1>3 DEF StartSelectOrg, Begin
<1>4. ASSUME NEW w \in Workers, CheckMember(w) PROVE TypeOK'
  <2>1. Goto(w, "find") \/ Finish(w)
    BY <1>4 DEF CheckMember
  <2>2. UNCHANGED <<token, active>>
    BY <1>4 DEF CheckMember
  <2>3. CASE Goto(w, "find")
    BY <2>2, <2>3 DEF Goto
  <2>4. CASE Finish(w)
    BY <2>2, <2>4 DEF Finish
  <2> QED
    BY <2>1, <2>3, <2>4
<1>5. ASSUME NEW w \in Workers, FindValid(w) PROVE TypeOK'
  <2>1. Goto(w, "revoke") \/ Finish(w)
    BY <1>5 DEF FindValid
  <2>2. UNCHANGED <<token, active>>
    BY <1>5 DEF FindValid
  <2>3. CASE Goto(w, "revoke")
    BY <2>2, <2>3 DEF Goto
  <2>4. CASE Finish(w)
    BY <2>2, <2>4 DEF Finish
  <2> QED
    BY <2>1, <2>3, <2>4
<1>6. ASSUME NEW w \in Workers, Revoke(w) PROVE TypeOK'
  BY <1>6 DEF Revoke, Goto, Revoked
<1>7. ASSUME NEW w \in Workers, LookUpOrg(w) PROVE TypeOK'
  <2>1. PICK o \in {ActiveOrg(req[w].user, req[w].org), None} :
          req' = [req EXCEPT ![w].pc = "store", ![w].claim = o]
    BY <1>7 DEF LookUpOrg
  <2>2. req[w].org \in Orgs \cup {None}
    OBVIOUS
  <2>3. o \in Orgs \cup {None}
    BY <2>2 DEF ActiveOrg
  <2>4. UNCHANGED <<token, active>>
    BY <1>7 DEF LookUpOrg
  <2> DEFINE r == [req[w] EXCEPT !.pc = "store", !.claim = o]
  <2>5. r \in Request
    BY ZenonT(60), <2>3
  <2>6. req' = [req EXCEPT ![w] = r]
    BY <2>1
  <2> HIDE DEF r
  <2> QED
    BY <2>4, <2>5, <2>6
<1>8. ASSUME NEW w \in Workers, IssueTokensForOrg(w) PROVE TypeOK'
  BY <1>8 DEF IssueTokensForOrg, Finish
<1>9. ASSUME NEW w \in Workers, Abort(w) PROVE TypeOK'
  BY <1>9 DEF Abort, Finish
<1>10. ASSUME NEW u \in Users, NEW o \in Orgs, Join(u, o) PROVE TypeOK'
  <2>1. active' \in [Users -> SUBSET Orgs] /\ UNCHANGED token
    BY <1>10 DEF Join
  <2>2. ASSUME NEW w \in Workers
        PROVE  [req[w] EXCEPT !.seen = @ \/ (req[w].user = u /\ req[w].org = o)] \in Request
    BY ZenonT(60)
  <2>3. req' \in [Workers -> Request]
    BY <1>10, <2>2 DEF Join
  <2> QED
    BY <2>1, <2>3
<1>11. ASSUME NEW u \in Users, NEW o \in Orgs, Leave(u, o) PROVE TypeOK'
  <2>1. active' \in [Users -> SUBSET Orgs] /\ UNCHANGED token
    BY <1>11 DEF Leave
  <2>2. ASSUME NEW w \in Workers
        PROVE  [req[w] EXCEPT !.kept = @ /\ ~(req[w].user = u /\ req[w].org = o)] \in Request
    <3> DEFINE k == req[w].kept /\ ~(req[w].user = u /\ req[w].org = o)
    <3>1. k \in BOOLEAN
      OBVIOUS
    <3>2. [req[w] EXCEPT !.kept = k] \in Request
      <4> HIDE DEF k
      <4> QED
        BY <3>1
    <3> QED
      BY <3>2
  <2>3. req' \in [Workers -> Request]
    BY <1>11, <2>2 DEF Leave
  <2> QED
    BY <2>1, <2>3
<1>12. ASSUME NEW t \in Tokens, Expire(t) PROVE TypeOK'
  BY <1>12 DEF Expire
<1>13. CASE UNCHANGED vars
  BY <1>13 DEF vars
<1> QED
  BY <1>1, <1>2, <1>3, <1>4, <1>5, <1>6, <1>7, <1>8, <1>9, <1>10, <1>11, <1>12, <1>13
  DEF Next, Start, Serve

\* Rows and requests are well formed in every reachable state (refresh_tokens,
\* Refresh, SelectOrg).
THEOREM SessionsTypeCorrect == Spec => []TypeOK
<1>1. Init => TypeOK
  BY SessionsAssumption DEF Init, TypeOK, TokenRow, NoRow, Request, NoRequest
<1> QED
  BY <1>1, SessionsTypeStep, PTL DEF Spec

\* A membership that begins or ends touches only the history of the requests.
LEMMA MembershipChange ==
  ASSUME TypeOK, NEW u \in Users, NEW o \in Orgs, Join(u, o) \/ Leave(u, o)
  PROVE  /\ token' = token
         /\ \A w \in Workers :
              /\ req'[w].pc = req[w].pc /\ req'[w].op = req[w].op
              /\ req'[w].user = req[w].user /\ req'[w].org = req[w].org
              /\ req'[w].claim = req[w].claim /\ req'[w].parent = req[w].parent
<1>1. token' = token
  BY DEF Join, Leave
<1>2. ASSUME NEW w \in Workers
      PROVE  /\ req'[w].pc = req[w].pc /\ req'[w].op = req[w].op
             /\ req'[w].user = req[w].user /\ req'[w].org = req[w].org
             /\ req'[w].claim = req[w].claim /\ req'[w].parent = req[w].parent
  <2>1. req[w] \in Request
    BY DEF TypeOK
  <2>2. CASE Join(u, o)
    BY SMTT(60), <2>1, <2>2 DEF Join, Request
  <2>3. CASE Leave(u, o)
    BY SMTT(60), ZenonT(30), SMTT(30), <2>1, <2>3 DEF Leave, Request
  <2> QED
    BY <2>2, <2>3
<1> QED
  BY <1>1, <1>2

(***************************************************************************)
(* A session stays with its user                                            *)
(***************************************************************************)
\* The token a request found valid, or is about to succeed, is a row of its user.
Owners ==
  /\ \A t \in Tokens :
       token[t].parent # None =>
         /\ token[token[t].parent].status # "absent"
         /\ token[t].user = token[token[t].parent].user
  /\ \A w \in Workers :
       req[w].pc \in {"revoke", "org", "store"} /\ req[w].parent # None =>
         /\ token[req[w].parent].status # "absent"
         /\ req[w].user = token[req[w].parent].user

\* Only StartRefresh and FindValid bring a request to a token, and only a token of its
\* user; IssueTokensForOrg fills an absent row, which no token or request points at.
LEMMA OwnersStep == TypeOK /\ TypeOK' /\ Owners /\ [Next]_vars => Owners'
<1> SUFFICES ASSUME TypeOK, TypeOK', Owners, [Next]_vars PROVE Owners'
  BY Zenon
<1> USE SessionsAssumption DEF TypeOK, TokenRow, Request, NoRequest, Owners
<1>1. ASSUME NEW w \in Workers, StartLogin(w) PROVE Owners'
  <2>1. UNCHANGED token
    BY <1>1, LoginBegins
  <2>2. PICK u \in Users, o \in Orgs \cup {None} : Begin(w, "Login", "store", u, o, o, None)
    BY <1>1, LoginBegins
  <2> QED
    BY <2>1, <2>2 DEF Begin
<1>2. ASSUME NEW w \in Workers, StartRefresh(w) PROVE Owners'
  BY <1>2 DEF StartRefresh, Begin, Valid
<1>3. ASSUME NEW w \in Workers, StartSelectOrg(w) PROVE Owners'
  BY <1>3 DEF StartSelectOrg, Begin
<1>4. ASSUME NEW w \in Workers, CheckMember(w) PROVE Owners'
  BY <1>4 DEF CheckMember, Goto, Finish
<1>5. ASSUME NEW w \in Workers, FindValid(w) PROVE Owners'
  <2>1. UNCHANGED token
    BY <1>5 DEF FindValid
  <2>2. CASE Valid(req[w].parent) /\ Owns(req[w].user, req[w].parent)
    <3>1. req' = [req EXCEPT ![w].pc = "revoke"]
      BY <1>5, <2>2 DEF FindValid, Goto
    <3>2. token[req[w].parent].status = "valid" /\ token[req[w].parent].user = req[w].user
      BY <2>2 DEF Valid, Owns
    <3> QED
      BY <2>1, <3>1, <3>2
  <2>3. CASE ~(Valid(req[w].parent) /\ Owns(req[w].user, req[w].parent))
    BY <1>5, <2>1, <2>3 DEF FindValid, Finish
  <2> QED
    BY <2>2, <2>3
<1>6. ASSUME NEW w \in Workers, Revoke(w) PROVE Owners'
  <2>1. \A t \in Tokens :
          /\ token'[t].user = token[t].user /\ token'[t].parent = token[t].parent
          /\ token[t].status # "absent" => token'[t].status # "absent"
    BY <1>6 DEF Revoke, Revoked
  <2>2. ASSUME NEW v \in Workers, req'[v].pc \in {"revoke", "org", "store"}
        PROVE  /\ req'[v].parent = req[v].parent /\ req'[v].user = req[v].user
               /\ req[v].pc \in {"revoke", "org", "store"}
    BY <1>6, <2>2 DEF Revoke, Goto
  <2> QED
    BY <2>1, <2>2
<1>7. ASSUME NEW w \in Workers, LookUpOrg(w) PROVE Owners'
  BY <1>7 DEF LookUpOrg
<1>8. ASSUME NEW w \in Workers, IssueTokensForOrg(w) PROVE Owners'
  BY <1>8 DEF IssueTokensForOrg, Finish
<1>9. ASSUME NEW w \in Workers, Abort(w) PROVE Owners'
  BY <1>9 DEF Abort, Finish
<1>10. ASSUME NEW u \in Users, NEW o \in Orgs, Join(u, o) PROVE Owners'
  BY <1>10, MembershipChange
<1>11. ASSUME NEW u \in Users, NEW o \in Orgs, Leave(u, o) PROVE Owners'
  BY <1>11, MembershipChange
<1>12. ASSUME NEW t \in Tokens, Expire(t) PROVE Owners'
  BY <1>12 DEF Expire
<1>13. CASE UNCHANGED vars
  BY <1>13 DEF vars
<1> QED
  BY SMTT(60), ZenonT(30), SMTT(30), <1>1, <1>2, <1>3, <1>4, <1>5, <1>6, <1>7, <1>8, <1>9, <1>10, <1>11, <1>12, <1>13
  DEF Next, Start, Serve

\* Along every chain of refreshes and organization switches all tokens belong to the
\* user who logged in: Refresh takes the user from the row, SelectOrg compares.
THEOREM OwnersKept == Spec => []ChainsKeepUser
<1>1. Init => Owners
  BY DEF Init, Owners, NoRow, NoRequest
<1>2. Owners => ChainsKeepUser
  BY SMTT(60) DEF Owners, ChainsKeepUser
<1> QED
  BY <1>1, <1>2, SessionsTypeCorrect, OwnersStep, PTL DEF Spec

(***************************************************************************)
(* A rotated token is dead                                                  *)
(***************************************************************************)
\* Past Revoke the presented token is revoked, and so is every token with a successor.
Rotated ==
  /\ RotatedIsRevoked
  /\ \A w \in Workers :
       req[w].pc \in {"org", "store"} /\ req[w].parent # None =>
         token[req[w].parent].status = "revoked"

\* No action takes a token out of "revoked", and no rotation gets past a Revoke that
\* did not fail without it.
LEMMA RotatedStep ==
  ~RevokeMayFail /\ TypeOK /\ TypeOK' /\ Rotated /\ [Next]_vars => Rotated'
<1> SUFFICES ASSUME ~RevokeMayFail, TypeOK, TypeOK', Rotated, [Next]_vars PROVE Rotated'
  OBVIOUS
<1> USE SessionsAssumption
    DEF TypeOK, TokenRow, Request, NoRequest, Rotated, RotatedIsRevoked
<1>1. ASSUME NEW w \in Workers, StartLogin(w) PROVE Rotated'
  BY <1>1 DEF StartLogin, Begin
<1>2. ASSUME NEW w \in Workers, StartRefresh(w) PROVE Rotated'
  BY <1>2 DEF StartRefresh, Begin
<1>3. ASSUME NEW w \in Workers, StartSelectOrg(w) PROVE Rotated'
  BY <1>3 DEF StartSelectOrg, Begin
<1>4. ASSUME NEW w \in Workers, CheckMember(w) PROVE Rotated'
  BY <1>4 DEF CheckMember, Goto, Finish
<1>5. ASSUME NEW w \in Workers, FindValid(w) PROVE Rotated'
  BY <1>5 DEF FindValid, Goto, Finish
<1>6. ASSUME NEW w \in Workers, Revoke(w) PROVE Rotated'
  BY SMTT(60), <1>6 DEF Revoke, Goto, Revoked
<1>7. ASSUME NEW w \in Workers, LookUpOrg(w) PROVE Rotated'
  BY <1>7 DEF LookUpOrg
<1>8. ASSUME NEW w \in Workers, IssueTokensForOrg(w) PROVE Rotated'
  BY <1>8 DEF IssueTokensForOrg, Finish
<1>9. ASSUME NEW w \in Workers, Abort(w) PROVE Rotated'
  BY <1>9 DEF Abort, Finish
<1>10. ASSUME NEW u \in Users, NEW o \in Orgs, Join(u, o) PROVE Rotated'
  BY <1>10, MembershipChange
<1>11. ASSUME NEW u \in Users, NEW o \in Orgs, Leave(u, o) PROVE Rotated'
  BY <1>11, MembershipChange
<1>12. ASSUME NEW t \in Tokens, Expire(t) PROVE Rotated'
  BY <1>12 DEF Expire
<1>13. CASE UNCHANGED vars
  BY <1>13 DEF vars
<1> QED
  BY <1>1, <1>2, <1>3, <1>4, <1>5, <1>6, <1>7, <1>8, <1>9, <1>10, <1>11, <1>12, <1>13
  DEF Next, Start, Serve

\* While the UPDATE of Revoke does not fail, "an old pair cannot keep selecting
\* organizations": a token that Refresh or SelectOrg gave a successor is revoked.
THEOREM RotationRevokes == ASSUME ~RevokeMayFail PROVE Spec => []RotatedIsRevoked
<1>1. Init => Rotated
  BY DEF Init, Rotated, RotatedIsRevoked, NoRow, NoRequest
<1>2. TypeOK /\ TypeOK' /\ Rotated /\ [Next]_vars => Rotated'
  BY RotatedStep
<1>3. Rotated => RotatedIsRevoked
  BY SMTT(60) DEF Rotated
<1> QED
  BY <1>1, <1>2, <1>3, SessionsTypeCorrect, PTL DEF Spec

(***************************************************************************)
(* How many successors a token gets                                         *)
(***************************************************************************)
Successors(p) == {t \in Tokens : token[t].parent = p}

\* The requests that found p valid and have not yet given it a successor.
Rotating(p) == {w \in Workers : req[w].parent = p /\ req[w].pc \in {"revoke", "org", "store"}}

\* A request that stores a successor is no longer one that will.
Bounded(p) ==
  /\ IsFiniteSet(Successors(p))
  /\ Cardinality(Successors(p)) + Cardinality(Rotating(p)) <= Cardinality(Workers)

LEMMA RotatingFinite ==
  ASSUME NEW p
  PROVE  /\ IsFiniteSet(Rotating(p)) /\ Cardinality(Rotating(p)) \in Nat
         /\ Cardinality(Workers) \in Nat /\ Cardinality(Rotating(p)) <= Cardinality(Workers)
<1>1. Rotating(p) \in SUBSET Workers
  BY DEF Rotating
<1>2. IsFiniteSet(Rotating(p)) /\ Cardinality(Rotating(p)) <= Cardinality(Workers)
  BY <1>1, FS_Subset, SessionsAssumption
<1> QED
  BY <1>2, FS_CardinalityType, SessionsAssumption

LEMMA BoundedFewer ==
  ASSUME NEW p, Bounded(p), Successors(p)' \subseteq Successors(p), Rotating(p)' \subseteq Rotating(p)
  PROVE  Bounded(p)'
<1> DEFINE S == Successors(p)  T == Successors(p)'  Q == Rotating(p)  R == Rotating(p)'
<1>1. IsFiniteSet(S) /\ IsFiniteSet(Q) /\ Cardinality(S) + Cardinality(Q) <= Cardinality(Workers)
  BY RotatingFinite DEF Bounded
<1>2. T \in SUBSET S /\ R \in SUBSET Q
  OBVIOUS
<1> HIDE DEF S, T, Q, R
<1>3. IsFiniteSet(T) /\ Cardinality(T) <= Cardinality(S) /\ Cardinality(R) <= Cardinality(Q) /\ IsFiniteSet(R)
  BY <1>1, <1>2, FS_Subset
<1>4. {Cardinality(S), Cardinality(T), Cardinality(Q), Cardinality(R), Cardinality(Workers)} \subseteq Nat
  BY <1>1, <1>3, FS_CardinalityType, SessionsAssumption
<1>5. Cardinality(T) + Cardinality(R) <= Cardinality(Workers)
  BY <1>1, <1>3, <1>4
<1> QED
  BY <1>3, <1>5 DEF Bounded, T, R

\* A token without a successor may be rotated by every worker.
LEMMA BoundedNone ==
  ASSUME NEW p, Successors(p)' = {} PROVE Bounded(p)'
<1> DEFINE R == Rotating(p)'
<1>1. R \in SUBSET Workers
  BY DEF Rotating
<1> HIDE DEF R
<1>2. IsFiniteSet(R) /\ Cardinality(R) <= Cardinality(Workers)
  BY <1>1, FS_Subset, SessionsAssumption
<1>3. Cardinality({}) = 0 /\ IsFiniteSet({}) /\ Cardinality(R) \in Nat
  BY <1>2, FS_EmptySet, FS_CardinalityType
<1>4. 0 + Cardinality(R) <= Cardinality(Workers)
  BY <1>2, <1>3
<1> QED
  BY <1>3, <1>4 DEF Bounded, R

LEMMA BoundedIssue ==
  ASSUME TypeOK, NEW p \in Tokens, Bounded(p), NEW w \in Workers, IssueTokensForOrg(w)
  PROVE  Bounded(p)'
<1> DEFINE S == Successors(p)  T == Successors(p)'  Q == Rotating(p)  R == Rotating(p)'
<1>1. req' = [req EXCEPT ![w] = NoRequest] /\ req[w].pc = "store"
  BY DEF IssueTokensForOrg, Finish
<1>2. R \subseteq Q \ {w}
  BY <1>1 DEF Rotating, TypeOK, NoRequest
<1>3. PICK t \in Tokens :
        /\ token[t].status = "absent"
        /\ token' = [token EXCEPT ![t] = [status |-> "valid", user |-> req[w].user,
                                          org |-> req[w].claim, parent |-> req[w].parent]]
  BY Zenon DEF IssueTokensForOrg
<1>4. T \subseteq S \cup {t} /\ (req[w].parent # p => T \subseteq S)
  <2>1. \A s \in Tokens : s # t => token'[s] = token[s]
    BY <1>3 DEF TypeOK
  <2>2. token'[t].parent = req[w].parent
    BY <1>3 DEF TypeOK
  <2> QED
    BY <2>1, <2>2 DEF Successors
<1>5. CASE req[w].parent # p
  BY <1>2, <1>4, <1>5, BoundedFewer
<1>6. CASE req[w].parent = p
  <2>1. w \in Q
    BY <1>1, <1>6 DEF Rotating
  <2>2. IsFiniteSet(S) /\ IsFiniteSet(Q) /\ Cardinality(S) + Cardinality(Q) <= Cardinality(Workers)
    BY RotatingFinite DEF Bounded
  <2> HIDE DEF S, T, Q, R
  <2>3. IsFiniteSet(S \cup {t}) /\ Cardinality(S \cup {t}) \in {Cardinality(S), Cardinality(S) + 1}
    BY <2>2, FS_AddElement
  <2>4. IsFiniteSet(Q \ {w}) /\ Cardinality(Q \ {w}) = Cardinality(Q) - 1
    BY <2>1, <2>2, FS_RemoveElement, ZenonT(60)
  <2>5. T \in SUBSET (S \cup {t}) /\ R \in SUBSET (Q \ {w})
    BY <1>2, <1>4
  <2>6. IsFiniteSet(T) /\ Cardinality(T) <= Cardinality(S \cup {t})
    BY <2>3, <2>5, FS_Subset
  <2>7. IsFiniteSet(R) /\ Cardinality(R) <= Cardinality(Q \ {w})
    BY <2>4, <2>5, FS_Subset
  <2>8. {Cardinality(S), Cardinality(T), Cardinality(Q), Cardinality(R), Cardinality(Workers)} \subseteq Nat
    BY <2>2, <2>6, <2>7, FS_CardinalityType, SessionsAssumption
  <2>9. Cardinality(T) + Cardinality(R) <= Cardinality(Workers)
    BY <2>2, <2>3, <2>4, <2>6, <2>7, <2>8
  <2> QED
    BY <2>6, <2>9 DEF Bounded, T, R
<1> QED
  BY <1>5, <1>6

\* Only a valid token gets more requests to rotate it, and a valid token has no successor.
LEMMA BoundedStep ==
  ASSUME TypeOK, Rotated, NEW p \in Tokens, Bounded(p), [Next]_vars
  PROVE  Bounded(p)'
<1> USE SessionsAssumption DEF TypeOK, TokenRow, Request, NoRequest
<1>0. Valid(p) => Successors(p) = {}
  BY DEF Valid, Rotated, RotatedIsRevoked, Successors
<1>1. ASSUME UNCHANGED token, Rotating(p)' \subseteq Rotating(p) \/ Valid(p) PROVE Bounded(p)'
  <2>1. Successors(p)' = Successors(p)
    BY <1>1 DEF Successors
  <2> QED
    BY <1>0, <1>1, <2>1, BoundedFewer, BoundedNone
<1>2. ASSUME NEW w \in Workers, StartLogin(w) PROVE Bounded(p)'
  BY <1>1, <1>2 DEF StartLogin, Begin, Rotating
<1>3. ASSUME NEW w \in Workers, StartRefresh(w) PROVE Bounded(p)'
  BY <1>1, <1>3 DEF StartRefresh, Begin, Rotating
<1>4. ASSUME NEW w \in Workers, StartSelectOrg(w) PROVE Bounded(p)'
  BY <1>1, <1>4 DEF StartSelectOrg, Begin, Rotating
<1>5. ASSUME NEW w \in Workers, CheckMember(w) PROVE Bounded(p)'
  BY <1>1, <1>5 DEF CheckMember, Goto, Finish, Rotating
<1>6. ASSUME NEW w \in Workers, FindValid(w) PROVE Bounded(p)'
  BY <1>1, <1>6 DEF FindValid, Goto, Finish, Rotating
<1>7. ASSUME NEW w \in Workers, Revoke(w) PROVE Bounded(p)'
  <2>1. Successors(p)' \subseteq Successors(p)
    BY <1>7 DEF Revoke, Revoked, Successors
  <2>2. Rotating(p)' \subseteq Rotating(p)
    BY <1>7 DEF Revoke, Goto, Rotating
  <2> QED
    BY <2>1, <2>2, BoundedFewer
<1>8. ASSUME NEW w \in Workers, LookUpOrg(w) PROVE Bounded(p)'
  BY <1>1, <1>8 DEF LookUpOrg, Rotating
<1>9. ASSUME NEW w \in Workers, IssueTokensForOrg(w) PROVE Bounded(p)'
  BY <1>9, BoundedIssue
<1>10. ASSUME NEW w \in Workers, Abort(w) PROVE Bounded(p)'
  BY <1>1, <1>10 DEF Abort, Finish, Rotating
<1>11. ASSUME NEW u \in Users, NEW o \in Orgs, Join(u, o) \/ Leave(u, o) PROVE Bounded(p)'
  <2>1. UNCHANGED token /\ Rotating(p)' \subseteq Rotating(p)
    BY <1>11, MembershipChange DEF Rotating
  <2> QED
    BY <1>1, <2>1
<1>12. ASSUME NEW t \in Tokens, Expire(t) PROVE Bounded(p)'
  <2>1. Successors(p)' \subseteq Successors(p) /\ Rotating(p)' \subseteq Rotating(p)
    BY <1>12 DEF Expire, Successors, Rotating
  <2> QED
    BY <2>1, BoundedFewer
<1>13. CASE UNCHANGED vars
  BY <1>1, <1>13 DEF vars, Rotating
<1> QED
  BY <1>2, <1>3, <1>4, <1>5, <1>6, <1>7, <1>8, <1>9, <1>10, <1>11, <1>12, <1>13
  DEF Next, Start, Serve

\* While the UPDATE of Revoke does not fail, a refresh token never gets more successors
\* than requests run at a time: whoever presents it after the first rotation is refused.
THEOREM FewSuccessors == ASSUME ~RevokeMayFail PROVE Spec => []SuccessorsBounded
<1> DEFINE I == \A p \in Tokens : Bounded(p)
<1>1. Init => Rotated
  BY DEF Init, Rotated, RotatedIsRevoked, NoRow, NoRequest
<1>2. Init => I
  <2> SUFFICES ASSUME Init, NEW p \in Tokens PROVE Bounded(p)
    OBVIOUS
  <2>1. Successors(p) = {} /\ Rotating(p) = {}
    BY SessionsAssumption DEF Init, Successors, Rotating, NoRow, NoRequest
  <2>2. Cardinality({}) = 0 /\ IsFiniteSet({}) /\ Cardinality(Workers) \in Nat
    BY FS_EmptySet, FS_CardinalityType, SessionsAssumption
  <2> QED
    BY <2>1, <2>2 DEF Bounded
<1>3. TypeOK /\ TypeOK' /\ Rotated /\ [Next]_vars => Rotated'
  BY RotatedStep
<1>4. TypeOK /\ Rotated /\ I /\ [Next]_vars => I'
  BY BoundedStep
<1>5. I => SuccessorsBounded
  <2> SUFFICES ASSUME NEW p \in Tokens, Bounded(p)
               PROVE  Cardinality(Successors(p)) <= Cardinality(Workers)
    BY DEF SuccessorsBounded, Successors
  <2>1. Cardinality(Rotating(p)) \in Nat /\ Cardinality(Workers) \in Nat /\ Cardinality(Successors(p)) \in Nat
    BY RotatingFinite, FS_CardinalityType DEF Bounded
  <2> QED
    BY <2>1 DEF Bounded
<1> HIDE DEF I
<1> QED
  BY <1>1, <1>2, <1>3, <1>4, <1>5, SessionsTypeCorrect, PTL DEF Spec

(***************************************************************************)
(* What a claim says about the membership                                    *)
(***************************************************************************)
\* Rows and requests have a user.
Named ==
  /\ \A t \in Tokens : token[t].status # "absent" => token[t].user \in Users
  /\ \A w \in Workers : req[w].pc # "idle" => req[w].user \in Users

\* A row gets the user of a request, a request that of a row or of its caller; only a
\* stored row is revoked (Owners).
LEMMA NamedStep == TypeOK /\ TypeOK' /\ Owners /\ Named /\ [Next]_vars => Named'
<1> SUFFICES ASSUME TypeOK, TypeOK', Owners, Named, [Next]_vars PROVE Named'
  BY Zenon
<1> USE DEF TypeOK, TokenRow, Request, NoRequest, Named
<1>1. ASSUME NEW w \in Workers, StartLogin(w) PROVE Named'
  <2>1. UNCHANGED token
    BY <1>1, LoginBegins
  <2>2. PICK u \in Users, o \in Orgs \cup {None} : Begin(w, "Login", "store", u, o, o, None)
    BY <1>1, LoginBegins
  <2> QED
    BY <2>1, <2>2 DEF Begin
<1>2. ASSUME NEW w \in Workers, StartRefresh(w) PROVE Named'
  BY <1>2 DEF StartRefresh, Begin, Valid
<1>3. ASSUME NEW w \in Workers, StartSelectOrg(w) PROVE Named'
  BY <1>3 DEF StartSelectOrg, Begin
<1>4. ASSUME NEW w \in Workers, CheckMember(w) PROVE Named'
  BY <1>4 DEF CheckMember, Goto, Finish
<1>5. ASSUME NEW w \in Workers, FindValid(w) PROVE Named'
  <2>1. UNCHANGED token /\ req[w].pc = "find"
    BY <1>5 DEF FindValid
  <2>2. CASE Goto(w, "revoke")
    BY <2>1, <2>2 DEF Goto
  <2>3. CASE Finish(w)
    BY <2>1, <2>3 DEF Finish
  <2> QED
    BY <1>5, <2>2, <2>3 DEF FindValid
<1>6. ASSUME NEW w \in Workers, Revoke(w) PROVE Named'
  <2>1. req[w].parent # None => token[req[w].parent].status # "absent"
    BY <1>6 DEF Revoke, Owners
  <2>2. ASSUME NEW t \in Tokens, token'[t].status # "absent" PROVE token'[t].user \in Users
    <3>1. token[t].status # "absent" /\ token'[t].user = token[t].user
      BY <1>6, <2>1, <2>2, SessionsAssumption DEF Revoke, Revoked
    <3> QED
      BY <3>1
  <2>3. ASSUME NEW v \in Workers, req'[v].pc # "idle" PROVE req'[v].user \in Users
    BY <1>6, <2>3 DEF Revoke, Goto
  <2> QED
    BY <2>2, <2>3
<1>7. ASSUME NEW w \in Workers, LookUpOrg(w) PROVE Named'
  BY <1>7 DEF LookUpOrg
<1>8. ASSUME NEW w \in Workers, IssueTokensForOrg(w) PROVE Named'
  BY <1>8 DEF IssueTokensForOrg, Finish
<1>9. ASSUME NEW w \in Workers, Abort(w) PROVE Named'
  BY <1>9 DEF Abort, Finish
<1>10. ASSUME NEW u \in Users, NEW o \in Orgs, Join(u, o) PROVE Named'
  BY <1>10, MembershipChange
<1>11. ASSUME NEW u \in Users, NEW o \in Orgs, Leave(u, o) PROVE Named'
  BY <1>11, MembershipChange
<1>12. ASSUME NEW t \in Tokens, Expire(t) PROVE Named'
  BY <1>12 DEF Expire
<1>13. CASE UNCHANGED vars
  BY <1>13 DEF vars
<1> QED
  BY <1>1, <1>2, <1>3, <1>4, <1>5, <1>6, <1>7, <1>8, <1>9, <1>10, <1>11, <1>12, <1>13
  DEF Next, Start, Serve

\* A request that names an organization has seen the membership, and one whose user is
\* active in its organization has seen it by definition.  While "kept" says so, the
\* membership is there for Refresh to find; the row it started from still remembers the
\* organization.
Claims(w) ==
  /\ req[w].claim # None => req[w].claim = req[w].org /\ req[w].seen
  /\ req[w].pc # "idle" /\ req[w].org \in active[req[w].user] => req[w].seen
  /\ req[w].pc # "idle" /\ req[w].kept =>
       req[w].org # None /\ req[w].org \in active[req[w].user]
  /\ req[w].op = "Refresh" =>
       /\ req[w].parent \in Tokens /\ token[req[w].parent].status # "absent"
       /\ token[req[w].parent].org = req[w].org
       /\ ~ReadMayFail /\ req[w].pc = "store" /\ req[w].kept => req[w].claim = req[w].org

\* Once stored, a row keeps its organization.
LEMMA RowsKept ==
  ASSUME TypeOK, NEW w \in Workers, Start(w) \/ Serve(w) \/ Abort(w), NEW t \in Tokens,
         token[t].status # "absent"
  PROVE  token'[t].status # "absent" /\ token'[t].org = token[t].org
<1>1. CASE Revoke(w)
  BY <1>1 DEF Revoke, Revoked, TypeOK, TokenRow
<1>2. CASE IssueTokensForOrg(w)
  BY <1>2 DEF IssueTokensForOrg, TypeOK, TokenRow
<1>3. CASE ~Revoke(w) /\ ~IssueTokensForOrg(w)
  BY <1>3 DEF Start, Serve, Abort, StartLogin, StartRefresh, StartSelectOrg, CheckMember,
              FindValid, LookUpOrg
<1> QED
  BY <1>1, <1>2, <1>3

\* A worker touches neither the memberships nor the request of another one.
LEMMA OthersKept ==
  ASSUME TypeOK, NEW w \in Workers, NEW v \in Workers, v # w,
         Start(w) \/ Serve(w) \/ Abort(w)
  PROVE  active' = active /\ req'[v] = req[v]
<1> USE DEF TypeOK
<1>1. CASE Start(w)
  BY SMTT(60), ZenonT(30), SMTT(30), <1>1 DEF Start, StartLogin, StartRefresh, StartSelectOrg, Begin
<1>2. CASE CheckMember(w) \/ FindValid(w)
  BY <1>2 DEF CheckMember, FindValid, Goto, Finish
<1>3. CASE Revoke(w)
  BY <1>3 DEF Revoke, Goto
<1>4. CASE LookUpOrg(w)
  BY <1>4 DEF LookUpOrg
<1>5. CASE IssueTokensForOrg(w) \/ Abort(w)
  BY SMTT(60), <1>5 DEF IssueTokensForOrg, Abort, Finish
<1> QED
  BY SMTT(60), ZenonT(30), SMTT(30), <1>1, <1>2, <1>3, <1>4, <1>5 DEF Serve

\* So the claim of that request stays as good as it was.
LEMMA ClaimsOthers ==
  ASSUME TypeOK, NEW w \in Workers, NEW v \in Workers, v # w, Claims(v),
         Start(w) \/ Serve(w) \/ Abort(w)
  PROVE  Claims(v)'
<1>1. active' = active /\ req'[v] = req[v]
  BY OthersKept
<1>2. req[v].op = "Refresh" =>
        token'[req[v].parent].status # "absent" /\ token'[req[v].parent].org = req[v].org
  BY RowsKept DEF Claims
<1> QED
  BY <1>1, <1>2 DEF Claims

\* A request that begins with a claim takes it from the memberships.
LEMMA ClaimsBegin ==
  ASSUME TypeOK, NEW w \in Workers, NEW op, NEW pc, NEW u \in Users, NEW o,
         NEW claim, NEW t, Begin(w, op, pc, u, o, claim, t), active' = active, token' = token,
         claim # None => claim = o /\ o \in active[u],
         op = "Refresh" => /\ t \in Tokens /\ token[t].status # "absent" /\ token[t].org = o
                           /\ pc # "store"
  PROVE  Claims(w)'
<1> DEFINE a == o \in active[u]
           k == op = "Refresh" /\ o \in active[u]
<1>1. req'[w] = [op |-> op, pc |-> pc, user |-> u, org |-> o, claim |-> claim, parent |-> t,
                 seen |-> a, kept |-> k]
  BY DEF TypeOK, Begin
<1>2. None \notin active[u]
  BY SessionsAssumption DEF TypeOK
<1>3. (a <=> o \in active[u]) /\ (k => o \in active[u])
  OBVIOUS
<1> HIDE DEF a, k
<1>4. /\ req'[w].op = op /\ req'[w].pc = pc /\ req'[w].user = u /\ req'[w].org = o
      /\ req'[w].claim = claim /\ req'[w].parent = t
      /\ req'[w].seen = a /\ req'[w].kept = k
  BY SMTT(60), <1>1
<1> QED
  BY <1>2, <1>3, <1>4 DEF Claims

\* A request that ends claims nothing.
LEMMA ClaimsFinish ==
  ASSUME TypeOK, NEW w \in Workers, Finish(w) PROVE Claims(w)'
  BY DEF TypeOK, Finish, Claims, NoRequest

\* One that goes on claims what it did.
LEMMA ClaimsGoto ==
  ASSUME TypeOK, NEW w \in Workers, NEW pc, Goto(w, pc), req[w].pc # "idle",
         Start(w) \/ Serve(w) \/ Abort(w), active' = active, Claims(w),
         pc = "store" /\ req[w].op = "Refresh" => req[w].org = None
  PROVE  Claims(w)'
<1>1. req[w] \in Request
  BY DEF TypeOK
<1>2. req'[w] = [req[w] EXCEPT !.pc = pc]
  BY DEF TypeOK, Goto
<1>3. req[w].op = "Refresh" =>
        token'[req[w].parent].status # "absent" /\ token'[req[w].parent].org = req[w].org
  BY RowsKept DEF Claims
<1> QED
  BY <1>1, <1>2, <1>3 DEF Claims, Request

\* Every action of a request keeps its claim good; so does a membership that begins or
\* ends.
LEMMA ClaimsStep ==
  TypeOK /\ TypeOK' /\ Named /\ (\A w \in Workers : Claims(w)) /\ [Next]_vars
    => (\A w \in Workers : Claims(w))'
<1> SUFFICES ASSUME TypeOK, TypeOK', Named, \A w \in Workers : Claims(w), [Next]_vars
             PROVE  (\A w \in Workers : Claims(w))'
  OBVIOUS
<1>1. ASSUME NEW w \in Workers, StartLogin(w) PROVE Claims(w)'
  <2>1. PICK u \in Users :
          \E o \in active[u] \cup {None} :
            Begin(w, "Login", "store", u, o, o, None) /\ UNCHANGED <<token, active>>
    BY <1>1, SingleIsActive DEF StartLogin
  <2>2. PICK o \in active[u] \cup {None} :
          Begin(w, "Login", "store", u, o, o, None) /\ UNCHANGED <<token, active>>
    BY <2>1
  <2> QED
    BY <2>2, ClaimsBegin
<1>2. ASSUME NEW w \in Workers, StartRefresh(w) PROVE Claims(w)'
  <2>1. PICK t \in Tokens :
          /\ Valid(t)
          /\ Begin(w, "Refresh", "revoke", token[t].user, token[t].org, None, t)
          /\ UNCHANGED <<token, active>>
    BY <1>2 DEF StartRefresh
  <2>2. token[t].user \in Users /\ token[t].status # "absent"
    BY <2>1 DEF Named, Valid
  <2> QED
    BY <2>1, <2>2, ClaimsBegin
<1>3. ASSUME NEW w \in Workers, StartSelectOrg(w) PROVE Claims(w)'
  <2>1. PICK u \in Users, o \in Orgs, t \in Tokens :
          /\ o \in active[u]
          /\ Begin(w, "SelectOrg", "member", u, o, o, t)
          /\ UNCHANGED <<token, active>>
    BY <1>3 DEF StartSelectOrg
  <2> QED
    BY <2>1, ClaimsBegin
<1>4. ASSUME NEW w \in Workers, CheckMember(w) PROVE Claims(w)'
  <2>1. active' = active /\ req[w].pc = "member" /\ (Goto(w, "find") \/ Finish(w))
    BY <1>4 DEF CheckMember
  <2> QED
    BY <1>4, <2>1, ClaimsGoto, ClaimsFinish DEF Serve
<1>5. ASSUME NEW w \in Workers, FindValid(w) PROVE Claims(w)'
  <2>1. active' = active /\ req[w].pc = "find" /\ (Goto(w, "revoke") \/ Finish(w))
    BY <1>5 DEF FindValid
  <2> QED
    BY <1>5, <2>1, ClaimsGoto, ClaimsFinish DEF Serve
<1>6. ASSUME NEW w \in Workers, Revoke(w) PROVE Claims(w)'
  <2>1. active' = active /\ req[w].pc = "revoke"
    BY <1>6 DEF Revoke
  <2>2. CASE req[w].op = "Refresh" /\ req[w].org # None
    <3>1. Goto(w, "org")
      BY <1>6, <2>2 DEF Revoke
    <3> QED
      BY <1>6, <2>1, <3>1, ClaimsGoto DEF Serve
  <2>3. CASE ~(req[w].op = "Refresh" /\ req[w].org # None)
    <3>1. Goto(w, "store")
      BY SMTT(60), ZenonT(30), SMTT(30), <1>6, <2>3 DEF Revoke
    <3> QED
      BY <1>6, <2>1, <2>3, <3>1, ClaimsGoto DEF Serve
  <2> QED
    BY <2>2, <2>3
<1>7. ASSUME NEW w \in Workers, LookUpOrg(w) PROVE Claims(w)'
  <2>1. PICK o \in {ActiveOrg(req[w].user, req[w].org)} \cup (IF ReadMayFail THEN {None} ELSE {}) :
          req' = [req EXCEPT ![w].pc = "store", ![w].claim = o]
    BY <1>7 DEF LookUpOrg
  <2>2. UNCHANGED <<token, active>> /\ req[w].pc = "org"
    BY <1>7 DEF LookUpOrg
  <2>3. o # None => o = req[w].org /\ o \in active[req[w].user]
    BY <2>1 DEF ActiveOrg
  <2>4. ~ReadMayFail /\ req[w].org \in active[req[w].user] => o = req[w].org
    BY <2>1 DEF ActiveOrg
  <2>5. req[w] \in Request /\ req'[w] = [req[w] EXCEPT !.pc = "store", !.claim = o]
    BY <2>1 DEF TypeOK
  <2>6. /\ req'[w].op = req[w].op /\ req'[w].pc = "store" /\ req'[w].claim = o
        /\ req'[w].user = req[w].user /\ req'[w].org = req[w].org
        /\ req'[w].parent = req[w].parent
        /\ req'[w].seen = req[w].seen /\ req'[w].kept = req[w].kept
    BY <2>5 DEF Request
  <2>7. Claims(w)
    OBVIOUS
  <2> QED
    BY SMTT(60), ZenonT(30), SMTT(30), <2>2, <2>3, <2>4, <2>6, <2>7 DEF Claims
<1>8. ASSUME NEW w \in Workers, IssueTokensForOrg(w) \/ Abort(w) PROVE Claims(w)'
  BY <1>8, ClaimsFinish DEF IssueTokensForOrg, Abort
<1>9. ASSUME NEW w \in Workers, Start(w) \/ Serve(w) \/ Abort(w)
      PROVE  (\A v \in Workers : Claims(v))'
  <2>1. Claims(w)'
    BY <1>1, <1>2, <1>3, <1>4, <1>5, <1>6, <1>7, <1>8, <1>9 DEF Start, Serve
  <2>2. ASSUME NEW v \in Workers, v # w PROVE Claims(v)'
    BY SMTT(60), ZenonT(30), SMTT(30), <1>9, <2>2, ClaimsOthers
  <2> QED
    BY <2>1, <2>2
<1>10. ASSUME NEW u \in Users, NEW o \in Orgs, Join(u, o)
       PROVE  (\A w \in Workers : Claims(w))'
  <2> SUFFICES ASSUME NEW w \in Workers PROVE Claims(w)'
    OBVIOUS
  <2> DEFINE mine == req[w].user = u /\ req[w].org = o
  <2>1. Claims(w) /\ req[w] \in Request
    BY DEF TypeOK
  <2>2. /\ token' = token
        /\ req'[w].pc = req[w].pc /\ req'[w].op = req[w].op
        /\ req'[w].user = req[w].user /\ req'[w].org = req[w].org
        /\ req'[w].claim = req[w].claim /\ req'[w].parent = req[w].parent
    BY <1>10, MembershipChange
  <2>3. req'[w].seen <=> (req[w].seen \/ mine)
    BY <1>10, <2>1 DEF Join, Request
  <2>4. req'[w].kept <=> req[w].kept
    BY <1>10, <2>1 DEF Join, Request
  <2>5. ASSUME req[w].pc # "idle"
        PROVE  req[w].org \in active'[req[w].user] <=>
                 (mine \/ req[w].org \in active[req[w].user])
    <3>1. req[w].user \in Users
      BY <2>5 DEF Named
    <3> QED
      BY <1>10, <3>1 DEF Join, TypeOK
  <2>6. mine => req[w].org # None
    BY SessionsAssumption
  <2> HIDE DEF mine
  <2> QED
    BY SMTT(60), ZenonT(30), SMTT(30), <2>1, <2>2, <2>3, <2>4, <2>5, <2>6 DEF Claims, Request
<1>11. ASSUME NEW u \in Users, NEW o \in Orgs, Leave(u, o)
       PROVE  (\A w \in Workers : Claims(w))'
  <2> SUFFICES ASSUME NEW w \in Workers PROVE Claims(w)'
    OBVIOUS
  <2> DEFINE mine == req[w].user = u /\ req[w].org = o
  <2>1. Claims(w) /\ req[w] \in Request
    BY DEF TypeOK
  <2>2. /\ token' = token
        /\ req'[w].pc = req[w].pc /\ req'[w].op = req[w].op
        /\ req'[w].user = req[w].user /\ req'[w].org = req[w].org
        /\ req'[w].claim = req[w].claim /\ req'[w].parent = req[w].parent
    BY <1>11, MembershipChange
  <2>3. req'[w].seen <=> req[w].seen
    BY <1>11, <2>1 DEF Leave, Request
  <2>4. req'[w].kept <=> (req[w].kept /\ ~mine)
    BY <1>11, <2>1 DEF Leave, Request
  <2>5. ASSUME req[w].pc # "idle"
        PROVE  req[w].org \in active'[req[w].user] <=>
                 (~mine /\ req[w].org \in active[req[w].user])
    <3>1. req[w].user \in Users
      BY <2>5 DEF Named
    <3> QED
      BY <1>11, <3>1 DEF Leave, TypeOK
  <2>6. mine => req[w].org # None
    BY SessionsAssumption
  <2> HIDE DEF mine
  <2> QED
    BY ZenonT(60), <2>1, <2>2, <2>3, <2>4, <2>5, <2>6 DEF Claims, Request
<1>12. ASSUME NEW t \in Tokens, Expire(t) PROVE (\A w \in Workers : Claims(w))'
  <2>1. active' = active /\ req' = req
    BY <1>12 DEF Expire
  <2>2. \A p \in Tokens : token[p].status # "absent" =>
          token'[p].status # "absent" /\ token'[p].org = token[p].org
    BY <1>12 DEF Expire, TypeOK, TokenRow
  <2> QED
    BY <2>1, <2>2 DEF Claims
<1>13. CASE UNCHANGED vars
  BY <1>13 DEF vars, Claims
<1> QED
  BY <1>9, <1>10, <1>11, <1>12, <1>13 DEF Next

\* Claims holds of every request in every reachable state.
LEMMA ClaimsAlways == Spec => [](\A w \in Workers : Claims(w))
<1>1. Init => Owners /\ Named /\ \A w \in Workers : Claims(w)
  BY DEF Init, Owners, Named, Claims, NoRow, NoRequest
<1> QED
  BY <1>1, SessionsTypeCorrect, OwnersStep, NamedStep, ClaimsStep, PTL DEF Spec

\* No pair names an organization its user was not an active member of at some moment of
\* the request that issued it (issueTokens, Refresh, SelectOrg).
THEOREM ClaimsSeen == Spec => []ClaimsWitnessed
<1>1. (\A w \in Workers : Claims(w)) => ClaimsWitnessed
  BY DEF Claims, ClaimsWitnessed
<1> QED
  BY <1>1, ClaimsAlways, PTL

\* While membership reads do not fail, "Refreshing keeps the remembered organization
\* while the user still has an active membership".
THEOREM OrgRemembered == ASSUME ~ReadMayFail PROVE Spec => []RememberedOrgKept
<1>1. (\A w \in Workers : Claims(w)) => RememberedOrgKept
  BY DEF Claims, RememberedOrgKept
<1> QED
  BY <1>1, ClaimsAlways, PTL
=============================================================================
