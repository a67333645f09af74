------------------------------ MODULE Accounts ------------------------------
(***************************************************************************)
(* Accounts of orbit-auth and the one-time codes that open them: RequestOTP *)
(* and VerifyOTP, RegisterWithEmail with its retry, VerifySignup, password  *)
(* login and the purge of unverified sign-ups                               *)
(* (application/service.go, signup.go, password_tokens.go).                 *)
(*                                                                          *)
(* None of these handlers runs in one transaction.  Each reads a challenge  *)
(* or an account, decides, and writes in later statements, so a request is  *)
(* a worker that takes one step per statement, and other workers' steps     *)
(* fall in between.  A code is modelled by the challenge it was made for;   *)
(* a client may present the code of any challenge, or None for a wrong one. *)
(* Sending a code changes nothing here and is left out.  Whether an         *)
(* invitation is still pending is decided in Organizations: here a sign-up  *)
(* by invitation commits or fails (Abort).                                  *)
(***************************************************************************)
EXTENDS Naturals, FiniteSets

CONSTANTS
  Users,        \* user ids; each is inserted at most once
  Identifiers,  \* addresses and mobile numbers, as a client may spell them
  Mobiles,      \* the E.164 numbers among them
  Lower,        \* domain.NormalizeEmail
  Challenges,   \* challenge ids; each is inserted at most once
  Passwords,
  Workers,
  None,
  OTPTTL,
  SignupCooldown,
  MaxOTPAttempts,
  MaxTime,      \* bound: the clock stops here
  Ops           \* the RPCs clients call in this instance

AllOps == {"RequestOTP", "VerifyOTP", "LoginWithPassword", "Register", "VerifySignup"}

ASSUME AccountsAssumption ==
  /\ IsFiniteSet(Workers)
  /\ Mobiles \subseteq Identifiers
  /\ Lower \in [Identifiers -> Identifiers]
  /\ None \notin Users \cup Identifiers \cup Challenges \cup Passwords
  /\ OTPTTL \in Nat /\ SignupCooldown \in Nat /\ MaxTime \in Nat
  /\ MaxOTPAttempts \in Nat \ {0}
  /\ Ops \subseteq AllOps

VARIABLES
  user,       \* users rows; "absent" before the insert, "purged" after the delete
  challenge,  \* otp_challenges rows; live until deleted
  now,        \* the clock
  issued,     \* history: users who were given a token pair
  logins,     \* history: token pairs given for each challenge's code
  req         \* the request each worker is serving

vars == <<user, challenge, now, issued, logins, req>>

UserRow ==
  [status : {"absent", "signup_pending", "active", "purged"},
   ident  : Identifiers \cup {None},
   pw     : Passwords \cup {None}]

\* "kind" is history: which operation inserted the row.
ChallengeRow ==
  [kind     : {"none", "otp", "signup", "reissue"},
   live     : BOOLEAN,
   ident    : Identifiers \cup {None},
   born     : Nat,
   attempts : Nat]

Pcs == {"idle", "count", "password", "consume", "find", "insert", "activate", "issue",
        "create", "challenge", "lookup", "cooldown", "reissue"}

Request ==
  [op      : AllOps \cup {"none"},
   pc      : Pcs,
   ident   : Identifiers \cup {None},
   pw      : Passwords \cup {None},
   invited : BOOLEAN,
   ch      : Challenges \cup {None},
   user    : Users \cup {None},
   now     : Nat]

NoRequest ==
  [op |-> "none", pc |-> "idle", ident |-> None, pw |-> None, invited |-> FALSE,
   ch |-> None, user |-> None, now |-> 0]

Init ==
  /\ user = [u \in Users |-> [status |-> "absent", ident |-> None, pw |-> None]]
  /\ challenge = [c \in Challenges |-> [kind |-> "none", live |-> FALSE, ident |-> None,
                                        born |-> 0, attempts |-> 0]]
  /\ now = 0
  /\ issued = {}
  /\ logins = [c \in Challenges |-> 0]
  /\ req = [w \in Workers |-> NoRequest]

(***************************************************************************)
(* Queries                                                                  *)
(***************************************************************************)
Emails == Identifiers \ Mobiles

\* FindByEmail, FindByMobile: at most one user, both columns are UNIQUE.
UsersAt(i) == {u \in Users : user[u].status \in {"signup_pending", "active"} /\ user[u].ident = i}

Live(i) == {c \in Challenges : challenge[c].live /\ challenge[c].ident = i}

\* GetLatestChallenge; two challenges of the same instant come in either order.
Latest(i) == {c \in Live(i) : \A d \in Live(i) : challenge[d].born <= challenge[c].born}

Expired(c) == now > challenge[c].born + OTPTTL

\* Mutant: the attempts are not checked.
AttemptableAlways(c) == TRUE

Attemptable(c) == challenge[c].attempts < MaxOTPAttempts

\* A challenge id no insert has used and no request holds (a retry builds its
\* challenge before the transaction that inserts it).
Fresh(c) == challenge[c].kind = "none" /\ \A w \in Workers : req[w].ch # c

(***************************************************************************)
(* Writes                                                                   *)
(***************************************************************************)
NewRow(i, k, t) == [kind |-> k, live |-> TRUE, ident |-> i, born |-> t, attempts |-> 0]

\* newOTPChallenge: DeleteExpiredChallenges, then UpsertChallenge, a plain insert.
NewOTPChallenge(c, i, k) ==
  challenge' = [d \in Challenges |->
                  IF d = c THEN NewRow(i, k, now)
                  ELSE [challenge[d] EXCEPT !.live = @ /\ ~Expired(d)]]

Goto(w, pc) == req' = [req EXCEPT ![w].pc = pc]

GotoFor(w, u, pc) == req' = [req EXCEPT ![w].user = u, ![w].pc = pc]

Finish(w) == req' = [req EXCEPT ![w] = NoRequest]

Begin(w, r) == req[w] = NoRequest /\ r.op \in Ops /\ req' = [req EXCEPT ![w] = r]

(***************************************************************************)
(* One-time codes                                                           *)
(***************************************************************************)
RequestOTP(c, i) ==
  /\ "RequestOTP" \in Ops /\ Fresh(c)
  /\ NewOTPChallenge(c, i, "otp")
  /\ UNCHANGED <<user, now, issued, logins, req>>

\* The first half of VerifyOTP and VerifySignup: read the newest challenge,
\* refuse it when expired or used up, compare the code.
ReadChallenge(w, op, i, pw, code) ==
  \E c \in Latest(i) :
    /\ ~Expired(c) /\ Attemptable(c)
    /\ Begin(w, [NoRequest EXCEPT !.op = op, !.ident = i, !.pw = pw, !.ch = c,
                   !.pc = IF code # c THEN "count"
                          ELSE IF op = "VerifyOTP" THEN "consume" ELSE "password"])
    /\ UNCHANGED <<user, challenge, now, issued, logins>>

StartVerifyOTP(w) ==
  \E i \in Identifiers, code \in Challenges \cup {None} :
    ReadChallenge(w, "VerifyOTP", i, None, code)

StartVerifySignup(w) ==
  \E i \in Emails, pw \in Passwords, code \in Challenges \cup {None} :
    ReadChallenge(w, "VerifySignup", Lower[i], pw, code)

IncrementAttempts(w) ==
  /\ req[w].pc = "count"
  /\ challenge' = [challenge EXCEPT ![req[w].ch].attempts =
                     IF challenge[req[w].ch].live THEN @ + 1 ELSE @]
  /\ Finish(w)
  /\ UNCHANGED <<user, now, issued, logins>>

\* Mutant: the row stays.
ConsumedNot(row) == row

Consumed(row) == [row EXCEPT !.live = FALSE]

\* A DELETE by id: a row another request has deleted is no error.
ConsumeChallenge(w) ==
  /\ req[w].pc = "consume"
  /\ challenge' = [challenge EXCEPT ![req[w].ch] = Consumed(@)]
  /\ Goto(w, IF req[w].op = "VerifyOTP" THEN "find" ELSE "activate")
  /\ UNCHANGED <<user, now, issued, logins>>

\* Mutant: VerifyOTP does not look at the status.
MayLoginAlways(s) == TRUE

MayLogin(s) == s # "signup_pending"

\* FindOrCreateByEmail, FindOrCreateByMobile: the look-up ...
FindUser(w) ==
  /\ req[w].pc = "find"
  /\ \/ /\ UsersAt(req[w].ident) = {}
        /\ Goto(w, "insert")
     \/ \E u \in UsersAt(req[w].ident) :
          IF MayLogin(user[u].status)
          THEN GotoFor(w, u, "issue")
          ELSE Finish(w)
  /\ UNCHANGED <<user, challenge, now, issued, logins>>

\* ... and the insert, which fails when the address was taken meanwhile.
CreateUser(w) ==
  /\ req[w].pc = "insert"
  /\ \/ /\ UsersAt(req[w].ident) # {}
        /\ Finish(w) /\ UNCHANGED user
     \/ \E u \in Users :
          /\ UsersAt(req[w].ident) = {} /\ user[u].status = "absent"
          /\ user' = [user EXCEPT ![u] = [status |-> "active", ident |-> req[w].ident,
                                          pw |-> None]]
          /\ GotoFor(w, u, "issue")
  /\ UNCHANGED <<challenge, now, issued, logins>>

StartLoginWithPassword(w) ==
  \E i \in Identifiers, pw \in Passwords : \E u \in UsersAt(Lower[i]) :
    /\ user[u].status = "active" /\ user[u].pw = pw
    /\ Begin(w, [NoRequest EXCEPT !.op = "LoginWithPassword", !.pc = "issue",
                                  !.ident = Lower[i], !.pw = pw, !.user = u])
    /\ UNCHANGED <<user, challenge, now, issued, logins>>

\* issueTokens, the end of every login.
IssueTokens(w) ==
  /\ req[w].pc = "issue"
  /\ issued' = issued \cup {req[w].user}
  /\ logins' = [c \in Challenges |-> IF c = req[w].ch THEN logins[c] + 1 ELSE logins[c]]
  /\ Finish(w)
  /\ UNCHANGED <<user, challenge, now>>

(***************************************************************************)
(* Sign-up                                                                  *)
(***************************************************************************)
StartRegister(w) ==
  \E i \in Emails, pw \in Passwords, invited \in BOOLEAN :
    /\ Begin(w, [NoRequest EXCEPT !.op = "Register", !.pc = "create", !.ident = Lower[i],
                                  !.pw = pw, !.invited = invited, !.now = now])
    /\ UNCHANGED <<user, challenge, now, issued, logins>>

CreateSignupUser(w) ==
  /\ req[w].pc = "create"
  /\ \/ /\ UsersAt(req[w].ident) # {}
        /\ Goto(w, IF req[w].invited THEN "reissue" ELSE "lookup")
        /\ UNCHANGED user
     \/ \E u \in Users :
          /\ UsersAt(req[w].ident) = {} /\ user[u].status = "absent"
          /\ user' = [user EXCEPT ![u] =
                        [status |-> IF req[w].invited THEN "active" ELSE "signup_pending",
                         ident |-> req[w].ident, pw |-> req[w].pw]]
          /\ IF req[w].invited THEN Finish(w) ELSE Goto(w, "challenge")
  /\ UNCHANGED <<challenge, now, issued, logins>>

SignupChallenge(w) ==
  /\ req[w].pc = "challenge"
  /\ \E c \in Challenges : Fresh(c) /\ NewOTPChallenge(c, req[w].ident, "signup")
  /\ Finish(w)
  /\ UNCHANGED <<user, now, issued, logins>>

\* retryPendingSignup: an account that is not pending ends the retry ...
LookUpPending(w) ==
  /\ req[w].pc = "lookup"
  /\ IF \E u \in UsersAt(req[w].ident) : user[u].status # "signup_pending"
     THEN Finish(w) ELSE Goto(w, "cooldown")
  /\ UNCHANGED <<user, challenge, now, issued, logins>>

\* signupCooldownActive, judged by the time the request arrived
CooldownActive(w) == \E c \in Latest(req[w].ident) : req[w].now < challenge[c].born + SignupCooldown

\* ... one within the cooldown keeps its code, any other builds a new one.
CheckCooldown(w) ==
  /\ req[w].pc = "cooldown"
  /\ \/ CooldownActive(w) /\ Goto(w, "reissue")
     \/ \E c \in Challenges :
          /\ ~CooldownActive(w) /\ Fresh(c)
          /\ req' = [req EXCEPT ![w].pc = "reissue", ![w].ch = c, ![w].now = now]
  /\ UNCHANGED <<user, challenge, now, issued, logins>>

\* Mutant: the UPDATE goes by email or id alone.
StillPendingByID(u) == user[u].status \in {"signup_pending", "active"}

\* The WHERE clause of ReissueSignupUser and VerifySignupUser
StillPending(u) == user[u].status = "signup_pending"

ReissuePendingSignup(w) ==
  /\ req[w].pc = "reissue"
  /\ \/ /\ \A u \in UsersAt(req[w].ident) : ~StillPending(u)
        /\ UNCHANGED <<user, challenge>>
     \/ \E u \in UsersAt(req[w].ident) :
          /\ StillPending(u)
          /\ user' = [user EXCEPT ![u].pw = req[w].pw,
                                  ![u].status = IF req[w].invited THEN "active" ELSE @]
          /\ challenge' = IF req[w].ch = None THEN challenge
                          ELSE [d \in Challenges |->
                                  IF d = req[w].ch
                                  THEN NewRow(req[w].ident, "reissue", req[w].now)
                                  ELSE IF d \in Live(req[w].ident)
                                       THEN Consumed(challenge[d]) ELSE challenge[d]]
  /\ Finish(w)
  /\ UNCHANGED <<now, issued, logins>>

\* VerifySignup, after the code: the account must be pending with this password.
CheckPassword(w) ==
  /\ req[w].pc = "password"
  /\ \/ /\ \A u \in UsersAt(req[w].ident) : ~(StillPending(u) /\ user[u].pw = req[w].pw)
        /\ Goto(w, "count")
     \/ \E u \in UsersAt(req[w].ident) :
          /\ StillPending(u) /\ user[u].pw = req[w].pw
          /\ GotoFor(w, u, "consume")
  /\ UNCHANGED <<user, challenge, now, issued, logins>>

\* Store.VerifySignup: by user id, whatever happened since CheckPassword.
VerifySignup(w) ==
  /\ req[w].pc = "activate"
  /\ IF StillPending(req[w].user)
     THEN user' = [user EXCEPT ![req[w].user].status = "active"] /\ Goto(w, "issue")
     ELSE UNCHANGED user /\ Finish(w)
  /\ UNCHANGED <<challenge, now, issued, logins>>

(***************************************************************************)
(* Environment                                                              *)
(***************************************************************************)
\* Any set of pending sign-ups: which ones are older than the cutoff is not modelled.
PurgeUnverifiedSignups(S) ==
  /\ S # {} /\ \A u \in S : user[u].status = "signup_pending"
  /\ user' = [u \in Users |-> IF u \in S THEN [user[u] EXCEPT !.status = "purged"] ELSE user[u]]
  /\ UNCHANGED <<challenge, now, issued, logins, req>>

\* A crash, a lost connection, a cancelled context or a used-up invitation.
Abort(w) == req[w].pc # "idle" /\ Finish(w) /\ UNCHANGED <<user, challenge, now, issued, logins>>

Tick == now < MaxTime /\ now' = now + 1 /\ UNCHANGED <<user, challenge, issued, logins, req>>

Start(w) ==
  \/ StartVerifyOTP(w) \/ StartVerifySignup(w) \/ StartLoginWithPassword(w) \/ StartRegister(w)

Serve(w) ==
  \/ IncrementAttempts(w) \/ ConsumeChallenge(w) \/ FindUser(w) \/ CreateUser(w)
  \/ IssueTokens(w) \/ CreateSignupUser(w) \/ SignupChallenge(w) \/ LookUpPending(w)
  \/ CheckCooldown(w) \/ ReissuePendingSignup(w) \/ CheckPassword(w) \/ VerifySignup(w)

Next ==
  \/ \E c \in Challenges, i \in Identifiers : RequestOTP(c, i)
  \/ \E w \in Workers : Start(w) \/ Serve(w) \/ Abort(w)
  \/ \E S \in SUBSET Users : PurgeUnverifiedSignups(S)
  \/ Tick

Spec == Init /\ [][Next]_vars

(***************************************************************************)
(* Properties                                                               *)
(***************************************************************************)
\* Rows and requests are well formed and refer to existing ids.
TypeOK ==
  /\ user \in [Users -> UserRow]
  /\ challenge \in [Challenges -> ChallengeRow]
  /\ now \in 0..MaxTime
  /\ issued \subseteq Users
  /\ logins \in [Challenges -> Nat]
  /\ req \in [Workers -> Request]

\* VerifyOTP and VerifySignup check the attempts before they count a wrong code, in
\* two statements.  Requests that run at once may overshoot the limit, but never by
\* more than one each.
WrongCodesBounded ==
  \A c \in Challenges : challenge[c].attempts <= MaxOTPAttempts + Cardinality(Workers) - 1

\* ConsumeChallenge does not look whether the row was still there, so requests that
\* read the challenge before it went may all log in with its code.  Nobody else can:
\* the code never serves more logins than there are requests at a time.
CodeUsesBounded == \A c \in Challenges : logins[c] <= Cardinality(Workers)

\* A sign-up account is unusable until it is verified: a token pair is only ever
\* issued to an active account, through whichever login, retry and purge.
PendingNeverIssued == \A u \in issued : user[u].status = "active"

\* Once active, an account is left alone by every retry, verification and purge that
\* read it while it was pending (retryPendingSignup, Store.VerifySignup).
ActiveUntouched == [][\A u \in Users : user[u].status = "active" => user'[u] = user[u]]_vars

\* VerifySignup needs "both the signup_verify OTP and the pending account password":
\* the account is activated with the password the request presented.
ActivatesCheckedPassword ==
  [][\A w \in Workers : VerifySignup(w) /\ user' # user => user[req[w].user].pw = req[w].pw]_vars

\* "Single-use verification": a code logs in once.
CodeSingleUse == \A c \in Challenges : logins[c] <= 1

\* A retry "reissues the code (at most once per 60 seconds)".
ReissuesSpaced ==
  \A c, d \in Challenges :
    /\ challenge[c].kind = "reissue" /\ challenge[d].kind = "reissue"
    /\ c # d /\ challenge[c].ident = challenge[d].ident
    => \/ challenge[c].born >= challenge[d].born + SignupCooldown
       \/ challenge[d].born >= challenge[c].born + SignupCooldown
=============================================================================
