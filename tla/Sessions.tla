------------------------------ MODULE Sessions ------------------------------
(***************************************************************************)
(* Refresh tokens of orbit-auth: the pair a login issues, Refresh, SelectOrg *)
(* (application/service.go) and the refresh_tokens rows behind them.        *)
(*                                                                          *)
(* A rotation is not a transaction: it finds the presented token, revokes   *)
(* it, looks at the membership and stores the next token, one statement     *)
(* after the other, while other requests present the same token and members *)
(* are suspended.  Memberships change by Join and Leave, which stand for    *)
(* every operation of Organizations that makes a membership active or ends  *)
(* it.  Only accounts that may log in have tokens (Accounts).               *)
(***************************************************************************)
EXTENDS Naturals, FiniteSets

CONSTANTS
  Users,
  Orgs,
  Tokens,        \* refresh tokens; each is stored at most once
  Workers,
  None,
  AutoSelect,    \* AUTH_AUTO_SELECT_SINGLE_ORG
  RevokeMayFail, \* whether the UPDATE of Revoke, whose error is ignored, may fail
  ReadMayFail    \* whether a membership read of Refresh or a login may fail

ASSUME SessionsAssumption ==
  /\ IsFiniteSet(Workers)
  /\ None \notin Users \cup Orgs \cup Tokens
  /\ {AutoSelect, RevokeMayFail, ReadMayFail} \subseteq BOOLEAN

VARIABLES
  token,   \* refresh_tokens rows
  active,  \* the organizations each user is an active member of
  req      \* the request each worker is serving

vars == <<token, active, req>>

\* A revoked token stays "revoked" when its time is over, nothing tells the difference.
\* "parent" is history: the token whose rotation stored this one, None for a login.
TokenRow ==
  [status : {"absent", "valid", "expired", "revoked"},
   user   : Users \cup {None},
   org    : Orgs \cup {None},
   parent : Tokens \cup {None}]

NoRow == [status |-> "absent", user |-> None, org |-> None, parent |-> None]

\* "org" is the organization chosen, remembered or selected, "claim" the one the pair
\* will name.  "seen" and "kept" are history: the user was an active member of "org" at
\* some moment since the request began, and, for a Refresh, at every moment.
Request ==
  [op     : {"none", "Login", "Refresh", "SelectOrg"},
   pc     : {"idle", "member", "find", "revoke", "org", "store"},
   user   : Users \cup {None},
   org    : Orgs \cup {None},
   claim  : Orgs \cup {None},
   parent : Tokens \cup {None},
   seen   : BOOLEAN,
   kept   : BOOLEAN]

NoRequest ==
  [op |-> "none", pc |-> "idle", user |-> None, org |-> None, claim |-> None,
   parent |-> None, seen |-> FALSE, kept |-> FALSE]

Init ==
  /\ token = [t \in Tokens |-> NoRow]
  /\ active \in [Users -> SUBSET Orgs]
  /\ req = [w \in Workers |-> NoRequest]

(***************************************************************************)
(* Helpers                                                                  *)
(***************************************************************************)
\* FindValid
Valid(t) == token[t].status = "valid"

\* singleActiveOrg: the only organization, else none
SingleActiveOrg(u) ==
  IF AutoSelect /\ Cardinality(active[u]) = 1 THEN CHOOSE o \in active[u] : TRUE ELSE None

\* Mutant: the remembered organization is not looked up.
ActiveOrgUnchecked(u, o) == o

\* Mutant: every refresh forgets the organization.
ActiveOrgForgotten(u, o) == None

\* activeOrg
ActiveOrg(u, o) == IF o \in active[u] THEN o ELSE None

Begin(w, op, pc, u, o, claim, t) ==
  /\ req[w] = NoRequest
  /\ req' = [req EXCEPT ![w] =
               [op |-> op, pc |-> pc, user |-> u, org |-> o, claim |-> claim, parent |-> t,
                seen |-> o \in active[u], kept |-> op = "Refresh" /\ o \in active[u]]]

Goto(w, pc) == req' = [req EXCEPT ![w].pc = pc]

Finish(w) == req' = [req EXCEPT ![w] = NoRequest]

(***************************************************************************)
(* Requests                                                                 *)
(***************************************************************************)
\* issueTokens, at the end of a login
StartLogin(w) ==
  \E u \in Users :
    /\ \E o \in {SingleActiveOrg(u)} \cup (IF ReadMayFail THEN {None} ELSE {}) :
         Begin(w, "Login", "store", u, o, o, None)
    /\ UNCHANGED <<token, active>>

StartRefresh(w) ==
  \E t \in Tokens :
    /\ Valid(t)
    /\ Begin(w, "Refresh", "revoke", token[t].user, token[t].org, None, t)
    /\ UNCHANGED <<token, active>>

\* The access token names the caller, requireActiveMember reads the membership.
StartSelectOrg(w) ==
  \E u \in Users, o \in Orgs, t \in Tokens :
    /\ o \in active[u] /\ token[t].status # "absent"
    /\ Begin(w, "SelectOrg", "member", u, o, o, t)
    /\ UNCHANGED <<token, active>>

\* SelectOrg reads it once more ...
CheckMember(w) ==
  /\ req[w].pc = "member"
  /\ IF req[w].org \in active[req[w].user] THEN Goto(w, "find") ELSE Finish(w)
  /\ UNCHANGED <<token, active>>

Owns(u, t) == token[t].user = u

\* ... and wants a valid token of the caller.
FindValid(w) ==
  /\ req[w].pc = "find"
  /\ IF Valid(req[w].parent) /\ Owns(req[w].user, req[w].parent)
     THEN Goto(w, "revoke") ELSE Finish(w)
  /\ UNCHANGED <<token, active>>

\* Mutant: the UPDATE is left out.
RevokedNot(row) == row

Revoked(row) == [row EXCEPT !.status = "revoked"]

\* The error of Revoke is ignored.
Revoke(w) ==
  /\ req[w].pc = "revoke"
  /\ \/ token' = [token EXCEPT ![req[w].parent] = Revoked(@)]
     \/ RevokeMayFail /\ UNCHANGED token
  /\ Goto(w, IF req[w].op = "Refresh" /\ req[w].org # None THEN "org" ELSE "store")
  /\ UNCHANGED active

\* Refresh looks at the membership after the revocation.
LookUpOrg(w) ==
  /\ req[w].pc = "org"
  /\ \E o \in {ActiveOrg(req[w].user, req[w].org)} \cup (IF ReadMayFail THEN {None} ELSE {}) :
       req' = [req EXCEPT ![w].pc = "store", ![w].claim = o]
  /\ UNCHANGED <<token, active>>

\* issueTokensForOrg: sign, then Store; the pair is out once the row is in.
IssueTokensForOrg(w) ==
  /\ req[w].pc = "store"
  /\ \E t \in Tokens :
       /\ token[t].status = "absent"
       /\ token' = [token EXCEPT ![t] = [status |-> "valid", user |-> req[w].user,
                                         org |-> req[w].claim, parent |-> req[w].parent]]
  /\ Finish(w)
  /\ UNCHANGED active

(***************************************************************************)
(* Environment                                                              *)
(***************************************************************************)
Join(u, o) ==
  /\ o \notin active[u]
  /\ active' = [active EXCEPT ![u] = @ \cup {o}]
  /\ req' = [w \in Workers |->
               [req[w] EXCEPT !.seen = @ \/ (req[w].user = u /\ req[w].org = o)]]
  /\ UNCHANGED token

Leave(u, o) ==
  /\ o \in active[u]
  /\ active' = [active EXCEPT ![u] = @ \ {o}]
  /\ req' = [w \in Workers |->
               [req[w] EXCEPT !.kept = @ /\ ~(req[w].user = u /\ req[w].org = o)]]
  /\ UNCHANGED token

Expire(t) ==
  /\ token[t].status = "valid"
  /\ token' = [token EXCEPT ![t].status = "expired"]
  /\ UNCHANGED <<active, req>>

\* A crash, a lost connection, or an error of the signer or the store.
Abort(w) == req[w].pc # "idle" /\ Finish(w) /\ UNCHANGED <<token, active>>

Start(w) == StartLogin(w) \/ StartRefresh(w) \/ StartSelectOrg(w)

Serve(w) == CheckMember(w) \/ FindValid(w) \/ Revoke(w) \/ LookUpOrg(w) \/ IssueTokensForOrg(w)

Next ==
  \/ \E w \in Workers : Start(w) \/ Serve(w) \/ Abort(w)
  \/ \E u \in Users, o \in Orgs : Join(u, o) \/ Leave(u, o)
  \/ \E t \in Tokens : Expire(t)

Spec == Init /\ [][Next]_vars

(***************************************************************************)
(* Properties                                                               *)
(***************************************************************************)
\* Rows and requests are well formed.
TypeOK ==
  /\ token \in [Tokens -> TokenRow]
  /\ active \in [Users -> SUBSET Orgs]
  /\ req \in [Workers -> Request]

\* No pair names an organization its user was not an active member of at some moment of
\* the request that issued it, although the membership is read before the pair is
\* signed and stored (issueTokens, Refresh, SelectOrg).
ClaimsWitnessed ==
  \A w \in Workers :
    req[w].pc = "store" /\ req[w].claim # None => req[w].claim = req[w].org /\ req[w].seen

\* "Refreshing keeps the remembered organization while the user still has an active
\* membership": it is dropped only if the membership ended while Refresh ran or before.
RememberedOrgKept ==
  \A w \in Workers :
    req[w].pc = "store" /\ req[w].op = "Refresh" /\ req[w].kept
      => req[w].claim = token[req[w].parent].org

\* Rotation keeps the session with its user: along every chain of refreshes and
\* organization switches all tokens belong to the user who logged in.
ChainsKeepUser ==
  \A t \in Tokens : token[t].parent # None => token[t].user = token[token[t].parent].user

\* "The presented refresh token is rotated so an old pair cannot keep selecting
\* organizations": a token that has a successor is revoked (Refresh, SelectOrg).
RotatedIsRevoked ==
  \A t \in Tokens : token[t].parent # None => token[token[t].parent].status = "revoked"

\* Requests that found the token before it was revoked may all rotate it; no later one
\* can, so it never has more successors than there are requests at a time.
SuccessorsBounded ==
  \A p \in Tokens : Cardinality({t \in Tokens : token[t].parent = p}) <= Cardinality(Workers)
=============================================================================
