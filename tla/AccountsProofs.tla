--------------------------- MODULE AccountsProofs ---------------------------
(***************************************************************************)
(* Proofs about Accounts, for any number of users, challenges and workers.  *)
(* Shape is the type invariant with what each pc knows about its request.   *)
(* The bound on wrong codes becomes inductive by adding to the counted      *)
(* codes of a challenge the requests that may still count one (Counting).   *)
(***************************************************************************)
EXTENDS Accounts, FiniteSetTheorems, TLAPS

Verifying == {"count", "password", "consume", "find", "insert", "activate"}

RequestOK(r) ==
  /\ r.pc \in Verifying => r.op \in {"VerifyOTP", "VerifySignup"} /\ r.ch \in Challenges
  /\ r.pc \in Verifying \cup {"create", "challenge", "lookup", "cooldown", "reissue"}
       => r.ident \in Identifiers
  /\ r.pc \in {"create", "challenge", "lookup", "cooldown", "reissue"} => r.op = "Register"
  /\ r.pc \in {"create", "challenge", "lookup", "cooldown"} => r.ch = None
  /\ r.pc = "issue" => r.op # "Register" /\ r.user \in Users
  /\ r.pc = "activate" => r.user \in Users
  /\ r.pc = "consume" /\ r.op = "VerifySignup" => r.user \in Users

Shape == TypeOK /\ \A w \in Workers : RequestOK(req[w])

\* Requests that may still count a wrong code against c.
Counting(c) == {w \in Workers : req[w].ch = c /\ req[w].pc \in {"count", "password"}}

(***************************************************************************)
(* What the helpers write                                                   *)
(***************************************************************************)
Others(w) == \A v \in Workers \ {w} : req'[v] = req[v]

LEMMA NoRequestOK == NoRequest \in Request /\ RequestOK(NoRequest)
BY AccountsAssumption DEF NoRequest, Request, Pcs, RequestOK, Verifying

LEMMA FinishStep ==
  ASSUME TypeOK, NEW w \in Workers, Finish(w)
  PROVE  req' \in [Workers -> Request] /\ req'[w] = NoRequest /\ Others(w)
BY NoRequestOK DEF TypeOK, Finish, Others

LEMMA BeginStep ==
  ASSUME TypeOK, NEW w \in Workers, NEW r \in Request, Begin(w, r)
  PROVE  req' \in [Workers -> Request] /\ req'[w] = r /\ Others(w) /\ req[w] = NoRequest
BY DEF TypeOK, Begin, Others

Moved(w, pc) ==
  /\ req'[w].pc = pc /\ req'[w].op = req[w].op /\ req'[w].ident = req[w].ident
  /\ req'[w].ch = req[w].ch

LEMMA GotoStep ==
  ASSUME TypeOK, NEW w \in Workers, NEW pc \in Pcs, Goto(w, pc)
  PROVE  req' \in [Workers -> Request] /\ Moved(w, pc) /\ req'[w].user = req[w].user /\ Others(w)
<1> DEFINE r == [req[w] EXCEPT !.pc = pc]
<1>1. req[w] \in Request
  BY DEF TypeOK
<1>2. /\ r \in Request /\ r.pc = pc /\ r.op = req[w].op /\ r.ident = req[w].ident
      /\ r.ch = req[w].ch /\ r.user = req[w].user
  BY <1>1 DEF Request
<1>3. req' = [req EXCEPT ![w] = r]
  BY DEF TypeOK, Goto
<1> HIDE DEF r
<1> QED
  BY <1>2, <1>3 DEF TypeOK, Others, Moved

LEMMA GotoForStep ==
  ASSUME TypeOK, NEW w \in Workers, NEW u \in Users, NEW pc \in Pcs, GotoFor(w, u, pc)
  PROVE  req' \in [Workers -> Request] /\ Moved(w, pc) /\ req'[w].user = u /\ Others(w)
<1> DEFINE r == [req[w] EXCEPT !.user = u, !.pc = pc]
<1>1. req[w] \in Request
  BY DEF TypeOK
<1>2. /\ r \in Request /\ r.pc = pc /\ r.op = req[w].op /\ r.ident = req[w].ident
      /\ r.ch = req[w].ch /\ r.user = u
  BY <1>1 DEF Request
<1>3. req' = [req EXCEPT ![w] = r]
  BY DEF TypeOK, GotoFor
<1> HIDE DEF r
<1> QED
  BY <1>2, <1>3 DEF TypeOK, Others, Moved

LEMMA ReserveStep ==
  ASSUME TypeOK, NEW w \in Workers, NEW c \in Challenges,
         req' = [req EXCEPT ![w].pc = "reissue", ![w].ch = c, ![w].now = now]
  PROVE  /\ req' \in [Workers -> Request] /\ Others(w)
         /\ req'[w].pc = "reissue" /\ req'[w].op = req[w].op /\ req'[w].ident = req[w].ident
         /\ req'[w].ch = c
<1> DEFINE r == [req[w] EXCEPT !.pc = "reissue", !.ch = c, !.now = now]
<1>1. req[w] \in Request /\ now \in Nat
  BY AccountsAssumption DEF TypeOK
<1>2. /\ r \in Request /\ r.pc = "reissue" /\ r.op = req[w].op /\ r.ident = req[w].ident
      /\ r.ch = c
  BY <1>1 DEF Request, Pcs
<1>3. req' = [req EXCEPT ![w] = r]
  BY DEF TypeOK
<1> HIDE DEF r
<1> QED
  BY ZenonT(60), <1>2, <1>3 DEF TypeOK, Others

(***************************************************************************)
(* Requests                                                                 *)
(***************************************************************************)
\* A read took a challenge that was live and had attempts left.
ReadStep(w) ==
  /\ req'[w].op \in {"VerifyOTP", "VerifySignup"} /\ req'[w].pc \in {"count", "password", "consume"}
  /\ req'[w].ch \in Challenges
  /\ challenge[req'[w].ch].live /\ challenge[req'[w].ch].attempts < MaxOTPAttempts
  /\ req'[w].pc = "consume" => req'[w].op = "VerifyOTP"

LEMMA ReadRequest ==
  ASSUME Shape, NEW w \in Workers, NEW op \in {"VerifyOTP", "VerifySignup"}, NEW i \in Identifiers,
         NEW pw \in Passwords \cup {None}, NEW code, ReadChallenge(w, op, i, pw, code)
  PROVE  /\ req' \in [Workers -> Request] /\ Others(w) /\ req[w] = NoRequest
         /\ ReadStep(w) /\ req'[w].ident = i /\ UNCHANGED <<user, challenge, now, issued, logins>>
<1>1. PICK c \in Latest(i) :
        /\ Attemptable(c) /\ UNCHANGED <<user, challenge, now, issued, logins>>
        /\ Begin(w, [NoRequest EXCEPT !.op = op, !.ident = i, !.pw = pw, !.ch = c,
                       !.pc = IF code # c THEN "count"
                              ELSE IF op = "VerifyOTP" THEN "consume" ELSE "password"])
  BY ZenonT(60) DEF ReadChallenge
<1>2. c \in Challenges /\ challenge[c].live /\ challenge[c].attempts < MaxOTPAttempts
  BY <1>1 DEF Latest, Live, Attemptable
<1> DEFINE pc == IF code # c THEN "count"
                 ELSE IF op = "VerifyOTP" THEN "consume" ELSE "password"
           r == [NoRequest EXCEPT !.op = op, !.ident = i, !.pw = pw, !.ch = c, !.pc = pc]
<1>3. pc \in {"count", "password", "consume"} /\ (pc = "consume" => op = "VerifyOTP")
  OBVIOUS
<1>4. Begin(w, r)
  BY <1>1
<1> HIDE DEF pc
<1>5. r \in Request /\ r.op = op /\ r.ident = i /\ r.ch = c /\ r.pc = pc
  BY ZenonT(60), <1>2, <1>3, NoRequestOK DEF Request, Pcs, AllOps, NoRequest
<1> HIDE DEF r
<1>6. req' \in [Workers -> Request] /\ req'[w] = r /\ Others(w) /\ req[w] = NoRequest
  BY <1>4, <1>5, BeginStep DEF Shape
<1> QED
  BY <1>1, <1>2, <1>3, <1>5, <1>6 DEF ReadStep

LoginStep(w) ==
  /\ req'[w].op = "LoginWithPassword" /\ req'[w].pc = "issue" /\ req'[w].ch = None
  /\ req'[w].user \in Users /\ user[req'[w].user].status = "active"

RegisterStep(w) ==
  /\ req'[w].op = "Register" /\ req'[w].pc = "create" /\ req'[w].ch = None
  /\ req'[w].ident \in Identifiers

LEMMA StartRequest ==
  ASSUME Shape, NEW w \in Workers, Start(w)
  PROVE  /\ req' \in [Workers -> Request] /\ Others(w) /\ req[w] = NoRequest
         /\ UNCHANGED <<user, challenge, now, issued, logins>>
         /\ \/ ReadStep(w) /\ req'[w].ident \in Identifiers
            \/ LoginStep(w)
            \/ RegisterStep(w)
<1>0. \A i \in Identifiers : Lower[i] \in Identifiers
  BY AccountsAssumption
<1>1. CASE StartVerifyOTP(w)
  BY SMTT(60), ZenonT(30), SMTT(30), <1>1, ReadRequest DEF StartVerifyOTP
<1>2. CASE StartVerifySignup(w)
  BY <1>0, <1>2, ReadRequest DEF StartVerifySignup, Emails
<1>3. CASE StartLoginWithPassword(w)
  <2>1. PICK i \in Identifiers, pw \in Passwords : \E u \in UsersAt(Lower[i]) :
          /\ user[u].status = "active" /\ user[u].pw = pw
          /\ Begin(w, [NoRequest EXCEPT !.op = "LoginWithPassword", !.pc = "issue",
                                        !.ident = Lower[i], !.pw = pw, !.user = u])
          /\ UNCHANGED <<user, challenge, now, issued, logins>>
    BY ZenonT(60), <1>3 DEF StartLoginWithPassword
  <2>2. PICK u \in Users :
          /\ user[u].status = "active" /\ UNCHANGED <<user, challenge, now, issued, logins>>
          /\ Begin(w, [NoRequest EXCEPT !.op = "LoginWithPassword", !.pc = "issue",
                                        !.ident = Lower[i], !.pw = pw, !.user = u])
    BY ZenonT(60), <2>1 DEF UsersAt
  <2> DEFINE r == [NoRequest EXCEPT !.op = "LoginWithPassword", !.pc = "issue",
                                    !.ident = Lower[i], !.pw = pw, !.user = u]
  <2>3. Begin(w, r)
    BY <2>2
  <2>4. r \in Request /\ r.op = "LoginWithPassword" /\ r.pc = "issue" /\ r.ch = None /\ r.user = u
    BY <1>0 DEF NoRequest, Request, AllOps, Pcs
  <2> HIDE DEF r
  <2>5. req' \in [Workers -> Request] /\ req'[w] = r /\ Others(w) /\ req[w] = NoRequest
    BY <2>3, <2>4, BeginStep DEF Shape
  <2> QED
    BY <2>2, <2>4, <2>5 DEF LoginStep
<1>4. CASE StartRegister(w)
  <2>1. PICK i \in Emails, pw \in Passwords, invited \in BOOLEAN :
          /\ Begin(w, [NoRequest EXCEPT !.op = "Register", !.pc = "create", !.ident = Lower[i],
                                        !.pw = pw, !.invited = invited, !.now = now])
          /\ UNCHANGED <<user, challenge, now, issued, logins>>
    BY ZenonT(60), <1>4 DEF StartRegister
  <2> DEFINE r == [NoRequest EXCEPT !.op = "Register", !.pc = "create", !.ident = Lower[i],
                                    !.pw = pw, !.invited = invited, !.now = now]
  <2>2. Begin(w, r)
    BY <2>1
  <2>3. now \in Nat /\ i \in Identifiers
    BY AccountsAssumption DEF Shape, TypeOK, Emails
  <2>4. /\ r \in Request /\ r.op = "Register" /\ r.pc = "create" /\ r.ch = None
        /\ r.ident \in Identifiers
    BY <1>0, <2>3 DEF NoRequest, Request, AllOps, Pcs
  <2> HIDE DEF r
  <2>5. req' \in [Workers -> Request] /\ req'[w] = r /\ Others(w) /\ req[w] = NoRequest
    BY <2>2, <2>4, BeginStep DEF Shape
  <2> QED
    BY <2>1, <2>4, <2>5 DEF RegisterStep
<1> QED
  BY <1>1, <1>2, <1>3, <1>4 DEF Start

\* The steps between the pcs, and the challenge they carry.
Turn(p, q) ==
  \/ p = "password" /\ q \in {"count", "consume"}
  \/ p = "consume" /\ q \in {"find", "activate"}
  \/ p = "find" /\ q \in {"insert", "issue"}
  \/ p \in {"insert", "activate"} /\ q = "issue"
  \/ p = "create" /\ q \in {"reissue", "lookup", "challenge"}
  \/ p = "lookup" /\ q = "cooldown"
  \/ p = "cooldown" /\ q = "reissue"

ServeStep(w) ==
  \/ req'[w] = NoRequest
  \/ \E q \in Pcs :
       /\ Turn(req[w].pc, q) /\ Moved(w, q)
       /\ q \in {"issue", "consume"} => req'[w].user \in Users
       /\ q = "activate" => req[w].op # "VerifyOTP" /\ req'[w].user = req[w].user
  \/ /\ req[w].pc = "cooldown" /\ req'[w].pc = "reissue" /\ req'[w].op = req[w].op
     /\ req'[w].ident = req[w].ident
     /\ req'[w].ch \in Challenges /\ challenge[req'[w].ch].kind = "none"
     /\ \A v \in Workers : req[v].ch # req'[w].ch

LEMMA ServeRequest ==
  ASSUME Shape, NEW w \in Workers, Serve(w)
  PROVE  req' \in [Workers -> Request] /\ Others(w) /\ ServeStep(w)
<1> USE DEF Shape
<1>1. CASE Finish(w)
  BY <1>1, FinishStep DEF ServeStep
<1>2. ASSUME NEW q \in Pcs, Turn(req[w].pc, q), Goto(w, q), q # "consume",
             q = "activate" => req[w].op # "VerifyOTP", q = "issue" => req[w].user \in Users
      PROVE  req' \in [Workers -> Request] /\ Others(w) /\ ServeStep(w)
  BY <1>2, GotoStep DEF ServeStep
<1>3. ASSUME NEW u \in Users, NEW q \in {"issue", "consume"}, Turn(req[w].pc, q), GotoFor(w, u, q)
      PROVE  req' \in [Workers -> Request] /\ Others(w) /\ ServeStep(w)
  BY <1>3, GotoForStep DEF ServeStep, Pcs
<1>4. CASE IncrementAttempts(w) \/ IssueTokens(w) \/ SignupChallenge(w) \/ ReissuePendingSignup(w)
  BY <1>1, <1>4 DEF IncrementAttempts, IssueTokens, SignupChallenge, ReissuePendingSignup
<1>5. CASE ConsumeChallenge(w)
  <2>1. CASE req[w].op = "VerifyOTP"
    BY <1>2, <1>5, <2>1 DEF ConsumeChallenge, Turn, Pcs
  <2>2. CASE req[w].op # "VerifyOTP"
    BY <1>2, <1>5, <2>2 DEF ConsumeChallenge, Turn, Pcs
  <2> QED
    BY <2>1, <2>2
<1>6. CASE FindUser(w)
  BY <1>1, <1>2, <1>3, <1>6 DEF FindUser, UsersAt, Turn, Pcs
<1>7. CASE CreateUser(w)
  BY <1>1, <1>3, <1>7 DEF CreateUser, Turn
<1>8. CASE CreateSignupUser(w)
  <2>1. req[w].pc = "create" /\ (\/ Finish(w) \/ Goto(w, "challenge")
                                 \/ Goto(w, "reissue") \/ Goto(w, "lookup"))
    BY <1>8 DEF CreateSignupUser
  <2> QED
    BY <1>1, <1>2, <2>1 DEF Turn, Pcs
<1>9. CASE LookUpPending(w)
  BY SMTT(60), <1>1, <1>2, <1>9 DEF LookUpPending, Turn, Pcs
<1>10. CASE CheckCooldown(w)
  <2>1. CASE Goto(w, "reissue")
    BY ZenonT(60), <1>2, <1>10, <2>1 DEF CheckCooldown, Turn, Pcs
  <2>2. ASSUME NEW c \in Challenges, Fresh(c),
               req' = [req EXCEPT ![w].pc = "reissue", ![w].ch = c, ![w].now = now]
        PROVE  req' \in [Workers -> Request] /\ Others(w) /\ ServeStep(w)
    <3>1. req[w].pc = "cooldown"
      BY ZenonT(60), <1>10 DEF CheckCooldown
    <3>2. challenge[c].kind = "none" /\ \A v \in Workers : req[v].ch # c
      BY SMTT(60), ZenonT(30), SMTT(30), <2>2 DEF Fresh
    <3>3. /\ req' \in [Workers -> Request] /\ Others(w)
          /\ req'[w].pc = "reissue" /\ req'[w].op = req[w].op /\ req'[w].ident = req[w].ident
          /\ req'[w].ch = c
      BY ZenonT(60), <2>2, ReserveStep
    <3> QED
      BY SMTT(60), ZenonT(30), SMTT(30), <3>1, <3>2, <3>3 DEF ServeStep
  <2> QED
    BY ZenonT(60), <1>10, <2>1, <2>2 DEF CheckCooldown
<1>11. CASE CheckPassword(w)
  BY <1>2, <1>3, <1>11 DEF CheckPassword, UsersAt, Turn, Pcs
<1>12. CASE VerifySignup(w)
  <2>1. req[w].user \in Users
    BY <1>12 DEF VerifySignup, RequestOK
  <2> QED
    BY <1>1, <1>2, <1>12, <2>1 DEF VerifySignup, Turn, Pcs
<1> QED
  BY <1>4, <1>5, <1>6, <1>7, <1>8, <1>9, <1>10, <1>11, <1>12 DEF Serve

LEMMA TurnOK ==
  ASSUME NEW r, NEW s, NEW q, RequestOK(r), Turn(r.pc, q), s.pc = q, s.op = r.op,
         s.ident = r.ident, s.ch = r.ch, q \in {"issue", "consume"} => s.user \in Users,
         q = "activate" => r.op # "VerifyOTP" /\ s.user = r.user
  PROVE  RequestOK(s)
<1>1. CASE r.pc \in {"password", "consume", "find", "insert", "activate"}
  BY <1>1 DEF Turn, RequestOK, Verifying
<1>2. CASE r.pc \in {"create", "lookup", "cooldown"}
  BY <1>2 DEF Turn, RequestOK, Verifying
<1> QED
  BY <1>1, <1>2 DEF Turn

LEMMA RequestsOK ==
  ASSUME Shape, Next
  PROVE  req' \in [Workers -> Request] /\ \A w \in Workers : RequestOK(req'[w])
<1>1. CASE UNCHANGED req
  BY <1>1 DEF Shape, TypeOK
<1>2. ASSUME NEW w \in Workers, req' \in [Workers -> Request], Others(w), RequestOK(req'[w])
      PROVE  req' \in [Workers -> Request] /\ \A v \in Workers : RequestOK(req'[v])
  BY <1>2 DEF Shape, Others
<1>3. ASSUME NEW w \in Workers, Start(w)
      PROVE  req' \in [Workers -> Request] /\ \A v \in Workers : RequestOK(req'[v])
  <2>1. RequestOK(req'[w])
    BY <1>3, StartRequest DEF ReadStep, LoginStep, RegisterStep, RequestOK, Verifying
  <2> QED
    BY <1>2, <1>3, <2>1, StartRequest
<1>4. ASSUME NEW w \in Workers, Serve(w)
      PROVE  req' \in [Workers -> Request] /\ \A v \in Workers : RequestOK(req'[v])
  <2>1. RequestOK(req[w])
    BY DEF Shape
  <2>2. ASSUME req'[w] = NoRequest PROVE RequestOK(req'[w])
    BY <2>2, NoRequestOK
  <2>3. ASSUME NEW q \in Pcs, Turn(req[w].pc, q), Moved(w, q),
               q \in {"issue", "consume"} => req'[w].user \in Users,
               q = "activate" => req[w].op # "VerifyOTP" /\ req'[w].user = req[w].user
        PROVE  RequestOK(req'[w])
    BY <2>1, <2>3, TurnOK DEF Moved
  <2>4. ASSUME req[w].pc = "cooldown", req'[w].pc = "reissue", req'[w].op = req[w].op,
               req'[w].ident = req[w].ident
        PROVE  RequestOK(req'[w])
    BY <2>1, <2>4 DEF RequestOK, Verifying
  <2>5. RequestOK(req'[w])
    <3>1. ServeStep(w)
      BY <1>4, ServeRequest
    <3> QED
      BY <2>2, <2>3, <2>4, <3>1 DEF ServeStep
  <2> QED
    BY <1>2, <1>4, <2>5, ServeRequest
<1>5. ASSUME NEW w \in Workers, Abort(w)
      PROVE  req' \in [Workers -> Request] /\ \A v \in Workers : RequestOK(req'[v])
  BY <1>2, <1>5, FinishStep, NoRequestOK DEF Abort, Shape
<1>6. CASE (\E c \in Challenges, i \in Identifiers : RequestOTP(c, i))
           \/ (\E S \in SUBSET Users : PurgeUnverifiedSignups(S)) \/ Tick
  BY <1>1, <1>6 DEF RequestOTP, PurgeUnverifiedSignups, Tick
<1> QED
  BY <1>3, <1>4, <1>5, <1>6 DEF Next

(***************************************************************************)
(* Challenges                                                               *)
(***************************************************************************)
Kept(c) ==
  /\ challenge'[c].attempts = challenge[c].attempts /\ challenge'[c].kind = challenge[c].kind
  /\ challenge'[c].live => challenge[c].live

Inserted(c) ==
  /\ challenge[c].kind = "none" /\ challenge'[c].kind # "none" /\ challenge'[c].attempts = 0

ChallengesKept == challenge' \in [Challenges -> ChallengeRow] /\ \A c \in Challenges : Kept(c)

LEMMA Untouched ==
  ASSUME Shape, UNCHANGED challenge
  PROVE  ChallengesKept
BY DEF Shape, TypeOK, ChallengesKept, Kept

LEMMA NewChallengeStep ==
  ASSUME Shape, NEW c \in Challenges, NEW i \in Identifiers, NEW k \in {"otp", "signup"},
         Fresh(c), NewOTPChallenge(c, i, k)
  PROVE  /\ challenge' \in [Challenges -> ChallengeRow] /\ Inserted(c)
         /\ \A d \in Challenges \ {c} : Kept(d)
<1> DEFINE new == NewRow(i, k, now)
           old(d) == [challenge[d] EXCEPT !.live = @ /\ ~Expired(d)]
<1>1. now \in Nat /\ challenge[c].kind = "none"
  BY AccountsAssumption DEF Shape, TypeOK, Fresh
<1>2. new \in ChallengeRow /\ new.kind # "none" /\ new.attempts = 0
  BY <1>1 DEF NewRow, ChallengeRow
<1>3. ASSUME NEW d \in Challenges
      PROVE  /\ old(d) \in ChallengeRow /\ old(d).attempts = challenge[d].attempts
             /\ old(d).kind = challenge[d].kind /\ (old(d).live => challenge[d].live)
  <2>1. challenge[d] \in ChallengeRow
    BY DEF Shape, TypeOK
  <2> DEFINE l == challenge[d].live /\ ~Expired(d)
  <2>2. l \in BOOLEAN /\ (l => challenge[d].live)
    OBVIOUS
  <2>3. old(d) = [challenge[d] EXCEPT !.live = l]
    OBVIOUS
  <2> HIDE DEF l
  <2> QED
    BY <2>1, <2>2, <2>3 DEF ChallengeRow
<1>4. challenge' = [d \in Challenges |-> IF d = c THEN new ELSE old(d)]
  BY DEF NewOTPChallenge
<1> HIDE DEF new, old
<1> QED
  BY <1>1, <1>2, <1>3, <1>4 DEF Kept, Inserted

CountStep(w) ==
  LET c == req[w].ch IN
  /\ req[w].pc = "count"
  /\ challenge'[c].attempts \in {challenge[c].attempts, challenge[c].attempts + 1}
  /\ challenge'[c].kind = challenge[c].kind /\ challenge'[c].live = challenge[c].live
  /\ \A d \in Challenges \ {c} : Kept(d)

InsertStep(w) ==
  /\ req'[w] = NoRequest
  /\ \E c \in Challenges :
       /\ Fresh(c) \/ (req[w].op = "Register" /\ req[w].ch = c)
       /\ challenge'[c].kind # "none" /\ challenge'[c].attempts = 0
       /\ \A d \in Challenges \ {c} : Kept(d)

LEMMA CountChallenges ==
  ASSUME Shape, NEW w \in Workers, IncrementAttempts(w)
  PROVE  challenge' \in [Challenges -> ChallengeRow] /\ CountStep(w)
<1> DEFINE c == req[w].ch
           n == IF challenge[c].live THEN challenge[c].attempts + 1 ELSE challenge[c].attempts
           row == [challenge[c] EXCEPT !.attempts = n]
<1>1. c \in Challenges /\ req[w].pc = "count"
  BY DEF IncrementAttempts, Shape, RequestOK, Verifying
<1>2. challenge[c] \in ChallengeRow /\ challenge[c].attempts \in Nat
  BY <1>1 DEF Shape, TypeOK, ChallengeRow
<1>3. n \in Nat /\ n \in {challenge[c].attempts, challenge[c].attempts + 1}
  BY <1>2
<1>4. challenge' = [challenge EXCEPT ![c] = row]
  BY <1>1 DEF IncrementAttempts, Shape, TypeOK
<1> HIDE DEF n
<1>5. /\ row \in ChallengeRow /\ row.attempts = n /\ row.kind = challenge[c].kind
      /\ row.live = challenge[c].live
  BY <1>2, <1>3 DEF ChallengeRow
<1> HIDE DEF row
<1>6. challenge' \in [Challenges -> ChallengeRow] /\ challenge'[c] = row
      /\ \A d \in Challenges \ {c} : challenge'[d] = challenge[d]
  BY <1>1, <1>4, <1>5 DEF Shape, TypeOK
<1> QED
  BY <1>1, <1>3, <1>5, <1>6 DEF CountStep, Kept

LEMMA ConsumedRow ==
  ASSUME NEW r \in ChallengeRow
  PROVE  /\ Consumed(r) \in ChallengeRow /\ ~Consumed(r).live
         /\ Consumed(r).attempts = r.attempts /\ Consumed(r).kind = r.kind
BY DEF Consumed, ChallengeRow

LEMMA ConsumeChallenges ==
  ASSUME Shape, NEW w \in Workers, ConsumeChallenge(w)
  PROVE  ChallengesKept /\ ~challenge'[req[w].ch].live
<1> DEFINE c == req[w].ch
<1>1. c \in Challenges
  BY DEF ConsumeChallenge, Shape, RequestOK, Verifying
<1>2. challenge[c] \in ChallengeRow
  BY <1>1 DEF Shape, TypeOK
<1>3. challenge' = [challenge EXCEPT ![c] = Consumed(challenge[c])]
  BY DEF ConsumeChallenge
<1>4. challenge' \in [Challenges -> ChallengeRow] /\ challenge'[c] = Consumed(challenge[c])
      /\ \A d \in Challenges \ {c} : challenge'[d] = challenge[d]
  BY <1>1, <1>2, <1>3, ConsumedRow DEF Shape, TypeOK
<1> QED
  BY <1>1, <1>2, <1>4, ConsumedRow DEF ChallengesKept, Kept

LEMMA ReissueChallenges ==
  ASSUME Shape, NEW w \in Workers, ReissuePendingSignup(w)
  PROVE  challenge' \in [Challenges -> ChallengeRow] /\ (ChallengesKept \/ InsertStep(w))
<1> DEFINE c == req[w].ch
           new == NewRow(req[w].ident, "reissue", req[w].now)
           old(d) == IF d \in Live(req[w].ident) THEN Consumed(challenge[d]) ELSE challenge[d]
<1>1. CASE UNCHANGED challenge
  BY <1>1, Untouched DEF ChallengesKept
<1>2. CASE c # None /\ challenge' = [d \in Challenges |-> IF d = c THEN new ELSE old(d)]
  <2>1. req[w] \in Request /\ req[w].pc = "reissue" /\ Finish(w)
    BY DEF ReissuePendingSignup, Shape, TypeOK
  <2>2. c \in Challenges /\ req[w].op = "Register" /\ req[w].ident \in Identifiers /\ req[w].now \in Nat
    BY <1>2, <2>1 DEF Request, Shape, RequestOK
  <2>3. new \in ChallengeRow /\ new.kind # "none" /\ new.attempts = 0
    BY <2>2 DEF NewRow, ChallengeRow
  <2>4. ASSUME NEW d \in Challenges
        PROVE  /\ old(d) \in ChallengeRow /\ old(d).attempts = challenge[d].attempts
               /\ old(d).kind = challenge[d].kind /\ (old(d).live => challenge[d].live)
    BY ConsumedRow DEF Shape, TypeOK
  <2> HIDE DEF new, old
  <2>5. challenge' \in [Challenges -> ChallengeRow] /\ challenge'[c] = new
        /\ \A d \in Challenges \ {c} : challenge'[d] = old(d)
    BY <1>2, <2>2, <2>3, <2>4
  <2>6. \A d \in Challenges \ {c} : Kept(d)
    BY <2>4, <2>5 DEF Kept
  <2>7. req'[w] = NoRequest
    BY SMTT(60), ZenonT(30), SMTT(30), <2>1, FinishStep DEF Shape
  <2> QED
    BY <2>2, <2>3, <2>5, <2>6, <2>7 DEF InsertStep
<1> QED
  BY <1>1, <1>2 DEF ReissuePendingSignup

LEMMA ServeChallenges ==
  ASSUME Shape, NEW w \in Workers, Serve(w)
  PROVE  /\ challenge' \in [Challenges -> ChallengeRow]
         /\ ChallengesKept \/ (CountStep(w) /\ req'[w] = NoRequest) \/ InsertStep(w)
<1>1. CASE UNCHANGED challenge
  BY <1>1, Untouched DEF ChallengesKept
<1>2. CASE IncrementAttempts(w)
  BY <1>2, CountChallenges, FinishStep DEF IncrementAttempts, Shape
<1>3. CASE ConsumeChallenge(w)
  BY <1>3, ConsumeChallenges DEF ChallengesKept
<1>4. CASE SignupChallenge(w)
  <2>1. PICK c \in Challenges : Fresh(c) /\ NewOTPChallenge(c, req[w].ident, "signup")
    BY <1>4 DEF SignupChallenge
  <2>2. req[w].ident \in Identifiers /\ req'[w] = NoRequest
    BY <1>4, FinishStep DEF SignupChallenge, Shape, RequestOK
  <2> QED
    BY <2>1, <2>2, NewChallengeStep DEF InsertStep, Inserted
<1>5. CASE ReissuePendingSignup(w)
  BY <1>5, ReissueChallenges
<1> QED
  BY ZenonT(60), <1>1, <1>2, <1>3, <1>4, <1>5 DEF Serve, FindUser, CreateUser, IssueTokens, CreateSignupUser,
     LookUpPending, CheckCooldown, CheckPassword, VerifySignup

(***************************************************************************)
(* Accounts                                                                 *)
(***************************************************************************)
UsersKept ==
  /\ user' \in [Users -> UserRow]
  /\ \A u \in Users : user[u].status = "active" => user'[u] = user[u]

LEMMA OneUser ==
  ASSUME Shape, NEW u \in Users, NEW r \in UserRow, user[u].status # "active",
         user' = [user EXCEPT ![u] = r]
  PROVE  UsersKept
BY DEF Shape, TypeOK, UsersKept

LEMMA UserWrites ==
  ASSUME Shape, Next
  PROVE  UsersKept
<1>1. CASE UNCHANGED user
  BY <1>1 DEF Shape, TypeOK, UsersKept
<1>2. ASSUME NEW w \in Workers, CreateUser(w) PROVE UsersKept
  <2>1. ASSUME NEW u \in Users, user[u].status = "absent",
               user' = [user EXCEPT ![u] = [status |-> "active", ident |-> req[w].ident, pw |-> None]]
        PROVE  UsersKept
    <3>1. req[w].ident \in Identifiers
      BY <1>2 DEF CreateUser, Shape, RequestOK, Verifying
    <3>2. [status |-> "active", ident |-> req[w].ident, pw |-> None] \in UserRow
      BY <3>1 DEF UserRow
    <3> QED
      BY <2>1, <3>2, OneUser
  <2> QED
    BY <1>1, <1>2, <2>1 DEF CreateUser
<1>3. ASSUME NEW w \in Workers, CreateSignupUser(w) PROVE UsersKept
  <2>1. ASSUME NEW u \in Users, user[u].status = "absent",
               user' = [user EXCEPT ![u] =
                          [status |-> IF req[w].invited THEN "active" ELSE "signup_pending",
                           ident |-> req[w].ident, pw |-> req[w].pw]]
        PROVE  UsersKept
    <3>1. req[w] \in Request /\ req[w].ident \in Identifiers
      BY <1>3 DEF CreateSignupUser, Shape, TypeOK, RequestOK
    <3>2. [status |-> IF req[w].invited THEN "active" ELSE "signup_pending",
           ident |-> req[w].ident, pw |-> req[w].pw] \in UserRow
      BY <3>1 DEF UserRow, Request
    <3> QED
      BY <2>1, <3>2, OneUser
  <2> QED
    BY <1>1, <1>3, <2>1 DEF CreateSignupUser
<1>4. ASSUME NEW w \in Workers, ReissuePendingSignup(w) PROVE UsersKept
  <2>1. ASSUME NEW u \in Users, user[u].status = "signup_pending",
               user' = [user EXCEPT ![u].pw = req[w].pw,
                                    ![u].status = IF req[w].invited THEN "active" ELSE @]
        PROVE  UsersKept
    <3> DEFINE r == [user[u] EXCEPT !.pw = req[w].pw,
                                    !.status = IF req[w].invited THEN "active" ELSE @]
    <3>1. user[u] \in UserRow /\ req[w] \in Request
      BY DEF Shape, TypeOK
    <3>2. r \in UserRow
      BY <3>1 DEF UserRow, Request
    <3>3. user' = [user EXCEPT ![u] = r]
      BY <2>1 DEF Shape, TypeOK
    <3> HIDE DEF r
    <3> QED
      BY <2>1, <3>2, <3>3, OneUser
  <2> QED
    BY <1>1, <1>4, <2>1 DEF ReissuePendingSignup, UsersAt, StillPending
<1>5. ASSUME NEW w \in Workers, VerifySignup(w) PROVE UsersKept
  <2>1. CASE user[req[w].user].status = "signup_pending"
             /\ user' = [user EXCEPT ![req[w].user].status = "active"]
    <3> DEFINE u == req[w].user
               r == [user[u] EXCEPT !.status = "active"]
    <3>1. u \in Users
      BY <1>5 DEF VerifySignup, Shape, RequestOK
    <3>2. r \in UserRow
      BY <3>1 DEF Shape, TypeOK, UserRow
    <3>3. user' = [user EXCEPT ![u] = r]
      BY <2>1, <3>1 DEF Shape, TypeOK
    <3> HIDE DEF r
    <3> QED
      BY <2>1, <3>1, <3>2, <3>3, OneUser
  <2> QED
    BY <1>1, <1>5, <2>1 DEF VerifySignup, StillPending
<1>6. ASSUME NEW S \in SUBSET Users, PurgeUnverifiedSignups(S) PROVE UsersKept
  <2>1. ASSUME NEW u \in Users PROVE [user[u] EXCEPT !.status = "purged"] \in UserRow
    BY DEF Shape, TypeOK, UserRow
  <2>2. user' = [u \in Users |-> IF u \in S THEN [user[u] EXCEPT !.status = "purged"] ELSE user[u]]
    BY <1>6 DEF PurgeUnverifiedSignups
  <2>3. user' \in [Users -> UserRow]
    BY <2>1, <2>2 DEF Shape, TypeOK
  <2>4. \A u \in S : user[u].status # "active"
    BY <1>6 DEF PurgeUnverifiedSignups
  <2> QED
    BY <2>2, <2>3, <2>4 DEF UsersKept
<1>7. ASSUME NEW w \in Workers, Start(w) \/ Abort(w) PROVE UNCHANGED user
  BY SMTT(60), ZenonT(30), SMTT(30), <1>7, StartRequest DEF Abort
<1>8. ASSUME NEW w \in Workers,
             \/ IncrementAttempts(w) \/ ConsumeChallenge(w) \/ FindUser(w) \/ IssueTokens(w)
             \/ SignupChallenge(w) \/ LookUpPending(w) \/ CheckCooldown(w) \/ CheckPassword(w)
      PROVE  UNCHANGED user
  BY ZenonT(60), <1>8 DEF IncrementAttempts, ConsumeChallenge, FindUser, IssueTokens, SignupChallenge,
     LookUpPending, CheckCooldown, CheckPassword
<1>9. CASE (\E c \in Challenges, i \in Identifiers : RequestOTP(c, i)) \/ Tick
  BY <1>1, <1>9 DEF RequestOTP, Tick
<1> QED
  BY <1>1, <1>2, <1>3, <1>4, <1>5, <1>6, <1>7, <1>8, <1>9 DEF Next, Serve

LEMMA ShapeInit == Init => Shape
<1> SUFFICES ASSUME Init PROVE Shape
  OBVIOUS
<1>1. [status |-> "absent", ident |-> None, pw |-> None] \in UserRow
  BY DEF UserRow
<1>2. [kind |-> "none", live |-> FALSE, ident |-> None, born |-> 0, attempts |-> 0] \in ChallengeRow
  BY DEF ChallengeRow
<1>3. TypeOK
  BY <1>1, <1>2, NoRequestOK, AccountsAssumption DEF Init, TypeOK
<1> QED
  BY <1>3, NoRequestOK DEF Init, Shape

LEMMA ShapeNext == Shape /\ [Next]_vars => Shape'
<1> SUFFICES ASSUME Shape, [Next]_vars PROVE Shape'
  OBVIOUS
<1>1. CASE UNCHANGED vars
  BY <1>1 DEF Shape, TypeOK, vars, RequestOK
<1>2. CASE Next
  <2>1. req' \in [Workers -> Request] /\ \A w \in Workers : RequestOK(req'[w])
    BY <1>2, RequestsOK
  <2>2. user' \in [Users -> UserRow]
    BY <1>2, UserWrites DEF UsersKept
  <2>3. challenge' \in [Challenges -> ChallengeRow]
    <3>1. CASE UNCHANGED challenge
      BY <3>1 DEF Shape, TypeOK
    <3>2. ASSUME NEW w \in Workers, Start(w) \/ Serve(w) \/ Abort(w)
          PROVE  challenge' \in [Challenges -> ChallengeRow]
      BY <3>1, <3>2, StartRequest, ServeChallenges DEF Abort
    <3>3. ASSUME NEW c \in Challenges, NEW i \in Identifiers, RequestOTP(c, i)
          PROVE  challenge' \in [Challenges -> ChallengeRow]
      BY <3>3, NewChallengeStep DEF RequestOTP
    <3> QED
      BY <1>2, <3>1, <3>2, <3>3 DEF Next, PurgeUnverifiedSignups, Tick
  <2>4. now' \in 0..MaxTime
    <3>1. CASE UNCHANGED now
      BY <3>1 DEF Shape, TypeOK
    <3>2. CASE Tick
      BY SMTT(60), ZenonT(30), SMTT(30), <3>2, AccountsAssumption DEF Shape, TypeOK, Tick
    <3>3. ASSUME NEW w \in Workers, Start(w) \/ Serve(w) \/ Abort(w) PROVE UNCHANGED now
      BY ZenonT(60), <3>3, StartRequest DEF Serve, Abort, IncrementAttempts, ConsumeChallenge, FindUser,
         CreateUser, IssueTokens, CreateSignupUser, SignupChallenge, LookUpPending, CheckCooldown,
         ReissuePendingSignup, CheckPassword, VerifySignup
    <3> QED
      BY <1>2, <3>1, <3>2, <3>3 DEF Next, PurgeUnverifiedSignups, RequestOTP
  <2>5. issued' \subseteq Users /\ logins' \in [Challenges -> Nat]
    <3>1. CASE UNCHANGED <<issued, logins>>
      BY <3>1 DEF Shape, TypeOK
    <3>2. ASSUME NEW w \in Workers, IssueTokens(w)
          PROVE  issued' \subseteq Users /\ logins' \in [Challenges -> Nat]
      BY SMTT(60), ZenonT(30), SMTT(30), <3>2 DEF IssueTokens, Shape, TypeOK, RequestOK
    <3>3. ASSUME NEW w \in Workers, Start(w) \/ Abort(w) \/ (Serve(w) /\ ~IssueTokens(w))
          PROVE  UNCHANGED <<issued, logins>>
      BY ZenonT(60), <3>3, StartRequest DEF Serve, Abort, IncrementAttempts, ConsumeChallenge, FindUser,
         CreateUser, CreateSignupUser, SignupChallenge, LookUpPending, CheckCooldown,
         ReissuePendingSignup, CheckPassword, VerifySignup
    <3> QED
      BY <1>2, <3>1, <3>2, <3>3 DEF Next, PurgeUnverifiedSignups, RequestOTP, Tick
  <2> QED
    BY <2>1, <2>2, <2>3, <2>4, <2>5 DEF Shape, TypeOK
<1> QED
  BY <1>1, <1>2

LEMMA ShapeAlways == Spec => []Shape
<1> QED
  BY ShapeInit, ShapeNext, PTL DEF Spec

\* Rows and requests stay well formed.
THEOREM AccountsTypeCorrect == Spec => []TypeOK
<1>1. Shape => TypeOK
  BY DEF Shape
<1> QED
  BY <1>1, ShapeAlways, PTL

\* An active account is left alone by every request that read it while it was pending
\* (retryPendingSignup, Store.VerifySignup, PurgeUnverifiedSignups).
THEOREM ActiveKept == Spec => ActiveUntouched
<1>1. Shape /\ [Next]_vars => [\A u \in Users : user[u].status = "active" => user'[u] = user[u]]_vars
  BY UserWrites DEF UsersKept
<1> QED
  BY <1>1, ShapeAlways, PTL DEF Spec, ActiveUntouched

(***************************************************************************)
(* Wrong codes                                                              *)
(***************************************************************************)
LEMMA WorkerSets ==
  ASSUME NEW S, NEW T, S \subseteq Workers, T \subseteq S
  PROVE  /\ Cardinality(S) \in Nat /\ Cardinality(T) \in Nat /\ Cardinality(Workers) \in Nat
         /\ Cardinality(T) <= Cardinality(S) /\ Cardinality(S) <= Cardinality(Workers)
         /\ IsFiniteSet(S)
<1>1. IsFiniteSet(Workers)
  BY AccountsAssumption
<1>2. IsFiniteSet(S) /\ Cardinality(S) <= Cardinality(Workers)
  BY <1>1, FS_Subset
<1>3. IsFiniteSet(T) /\ Cardinality(T) <= Cardinality(S)
  BY <1>2, FS_Subset
<1> QED
  BY <1>1, <1>2, <1>3, FS_CardinalityType

LEMMA CountingKept ==
  ASSUME NEW w \in Workers, NEW c \in Challenges, Others(w),
         req'[w].ch = c /\ req'[w].pc \in {"count", "password"}
           => req[w].ch = c /\ req[w].pc \in {"count", "password"}
  PROVE  Counting(c)' \subseteq Counting(c)
BY DEF Counting, Others

CountedFor(c) ==
  challenge[c].attempts + Cardinality(Counting(c)) <= MaxOTPAttempts + Cardinality(Workers) - 1

LEMMA NoMoreCounted ==
  ASSUME Shape, NEW c \in Challenges, CountedFor(c), Counting(c)' \subseteq Counting(c),
         challenge'[c].attempts = challenge[c].attempts
  PROVE  CountedFor(c)'
<1>1. challenge[c].attempts \in Nat /\ MaxOTPAttempts \in Nat
  BY AccountsAssumption DEF Shape, TypeOK, ChallengeRow
<1>2. Counting(c) \subseteq Workers
  BY DEF Counting
<1>3. /\ Cardinality(Counting(c)') <= Cardinality(Counting(c)) /\ Cardinality(Counting(c)) \in Nat
      /\ Cardinality(Counting(c)') \in Nat /\ Cardinality(Workers) \in Nat
  BY <1>2, WorkerSets
<1> QED
  BY <1>1, <1>3 DEF CountedFor

LEMMA FewCounted ==
  ASSUME NEW c \in Challenges, challenge'[c].attempts \in Nat,
         challenge'[c].attempts < MaxOTPAttempts
  PROVE  CountedFor(c)'
<1>1. Counting(c)' \subseteq Workers
  BY DEF Counting
<1>2. /\ Cardinality(Counting(c)') <= Cardinality(Workers)
      /\ Cardinality(Counting(c)') \in Nat /\ Cardinality(Workers) \in Nat
  BY <1>1, WorkerSets
<1> QED
  BY <1>2, AccountsAssumption DEF CountedFor

LEMMA OneCounted ==
  ASSUME Shape, NEW w \in Workers, NEW c \in Challenges, req[w].ch = c, CountedFor(c),
         CountStep(w), Others(w), req'[w] = NoRequest
  PROVE  CountedFor(c)'
<1> DEFINE S == Counting(c)
           T == Counting(c)'
<1>1. w \in S /\ S \subseteq Workers
  BY DEF CountStep, Counting
<1>2. T = S \ {w}
  <2>1. req'[w].pc = "idle"
    BY DEF NoRequest
  <2>2. ASSUME NEW v \in Workers, v # w PROVE req'[v] = req[v]
    BY <2>2 DEF Others
  <2> QED
    BY SMTT(60), <2>1, <2>2 DEF Counting
<1>3. IsFiniteSet(S) /\ Cardinality(S) \in Nat /\ Cardinality(T) \in Nat /\ Cardinality(Workers) \in Nat
  BY <1>1, <1>2, WorkerSets
<1>4. Cardinality(T) = Cardinality(S) - 1
  BY ZenonT(60), <1>1, <1>2, <1>3, FS_RemoveElement
<1>5. challenge[c].attempts \in Nat /\ MaxOTPAttempts \in Nat
  BY AccountsAssumption DEF Shape, TypeOK, ChallengeRow
<1>6. challenge'[c].attempts \in {challenge[c].attempts, challenge[c].attempts + 1}
  BY DEF CountStep
<1>7. challenge[c].attempts + Cardinality(S) <= MaxOTPAttempts + Cardinality(Workers) - 1
  BY DEF CountedFor
<1> HIDE DEF S, T
<1>8. challenge'[c].attempts + Cardinality(T) <= MaxOTPAttempts + Cardinality(Workers) - 1
  BY <1>3, <1>4, <1>5, <1>6, <1>7
<1> QED
  BY <1>8 DEF CountedFor, T

LEMMA CountedNext ==
  ASSUME Shape, Shape', Next, NEW c \in Challenges, CountedFor(c)
  PROVE  CountedFor(c)'
<1>0. /\ challenge[c].attempts \in Nat /\ challenge'[c].attempts \in Nat /\ c # None
      /\ 0 < MaxOTPAttempts
  BY AccountsAssumption DEF Shape, TypeOK, ChallengeRow
<1>1. ASSUME NEW w \in Workers, Others(w), ChallengesKept,
             req'[w].ch = c /\ req'[w].pc \in {"count", "password"}
               => req[w].ch = c /\ req[w].pc \in {"count", "password"}
      PROVE  CountedFor(c)'
  BY <1>1, CountingKept, NoMoreCounted DEF ChallengesKept, Kept
<1>2. ASSUME NEW w \in Workers, Start(w) PROVE CountedFor(c)'
  <2>1. Others(w) /\ UNCHANGED challenge /\ ChallengesKept
    BY <1>2, StartRequest, Untouched
  <2>2. CASE ReadStep(w) /\ req'[w].ch = c
    <3>1. challenge'[c].attempts < MaxOTPAttempts
      BY <2>1, <2>2 DEF ReadStep
    <3> QED
      BY <1>0, <3>1, FewCounted
  <2>3. CASE req'[w].ch # c
    BY <1>1, <2>1, <2>3
  <2>4. CASE LoginStep(w) \/ RegisterStep(w)
    BY <1>0, <2>3, <2>4 DEF LoginStep, RegisterStep
  <2> QED
    BY <1>2, <2>2, <2>3, <2>4, StartRequest
<1>3. ASSUME NEW w \in Workers, Others(w), InsertStep(w) PROVE CountedFor(c)'
  <2>1. PICK d \in Challenges : challenge'[d].attempts = 0 /\ \A e \in Challenges \ {d} : Kept(e)
    BY <1>3 DEF InsertStep
  <2>2. CASE c = d
    BY SMTT(60), <1>0, <2>1, <2>2, FewCounted
  <2>3. CASE c # d
    <3>1. req'[w].pc = "idle"
      BY <1>3 DEF InsertStep, NoRequest
    <3>2. Counting(c)' \subseteq Counting(c)
      BY <1>3, <3>1, CountingKept
    <3> QED
      BY SMTT(60), <2>1, <2>3, <3>2, NoMoreCounted DEF Kept
  <2> QED
    BY <2>2, <2>3
<1>4. ASSUME NEW w \in Workers, Serve(w) PROVE CountedFor(c)'
  <2>1. Others(w) /\ ServeStep(w)
    BY SMTT(60), <1>4, ServeRequest
  <2>2. req'[w].ch = c /\ req'[w].pc \in {"count", "password"}
          => req[w].ch = c /\ req[w].pc \in {"count", "password"}
    <3>1. ASSUME req'[w] = NoRequest PROVE req'[w].ch # c
      BY SMTT(60), <1>0, <3>1 DEF NoRequest
    <3>2. ASSUME NEW q \in Pcs, Turn(req[w].pc, q), Moved(w, q), q \in {"count", "password"}
          PROVE  req[w].pc = "password" /\ req'[w].ch = req[w].ch
      BY SMTT(60), <3>2 DEF Turn, Moved
    <3> QED
      BY SMTT(60), <2>1, <3>1, <3>2 DEF ServeStep, Moved
  <2>3. CASE ChallengesKept
    BY <1>1, <2>1, <2>2, <2>3
  <2>4. CASE CountStep(w) /\ req'[w] = NoRequest
    <3>1. CASE req[w].ch = c
      BY SMTT(60), <2>1, <2>4, <3>1, OneCounted
    <3>2. CASE req[w].ch # c
      <4>1. challenge'[c].attempts = challenge[c].attempts
        BY SMTT(60), <2>4, <3>2 DEF CountStep, Kept
      <4> QED
        BY SMTT(60), <2>1, <2>2, <4>1, CountingKept, NoMoreCounted
    <3> QED
      BY <3>1, <3>2
  <2> QED
    BY <1>3, <1>4, <2>1, <2>3, <2>4, ServeChallenges
<1>5. ASSUME NEW w \in Workers, Abort(w) PROVE CountedFor(c)'
  <2>1. Others(w) /\ req'[w] = NoRequest /\ ChallengesKept
    BY <1>5, FinishStep, Untouched DEF Abort, Shape
  <2> QED
    BY <1>0, <1>1, <2>1 DEF NoRequest
<1>6. ASSUME NEW d \in Challenges, NEW i \in Identifiers, RequestOTP(d, i) PROVE CountedFor(c)'
  <2>1. UNCHANGED req /\ Inserted(d) /\ \A e \in Challenges \ {d} : Kept(e)
    BY <1>6, NewChallengeStep DEF RequestOTP
  <2>2. CASE c = d
    BY <1>0, <2>1, <2>2, FewCounted DEF Inserted
  <2>3. CASE c # d
    BY <2>1, <2>3, NoMoreCounted DEF Kept, Counting
  <2> QED
    BY <2>2, <2>3
<1>7. CASE (\E S \in SUBSET Users : PurgeUnverifiedSignups(S)) \/ Tick
  BY <1>7 DEF PurgeUnverifiedSignups, Tick, CountedFor, Counting
<1> QED
  BY <1>2, <1>4, <1>5, <1>6, <1>7 DEF Next

\* However the checks and the counts of VerifyOTP and VerifySignup interleave, a
\* challenge never counts more than the limit and one per further request.
THEOREM WrongCodes == Spec => []WrongCodesBounded
<1> DEFINE Inv == \A c \in Challenges : CountedFor(c)
<1>1. Init => Inv
  <2> SUFFICES ASSUME Init, NEW c \in Challenges PROVE CountedFor(c)
    OBVIOUS
  <2>1. challenge[c].attempts = 0 /\ Counting(c) = {}
    BY DEF Init, Counting, NoRequest
  <2>2. Cardinality({}) = 0 /\ Cardinality(Workers) \in Nat
    BY FS_EmptySet, FS_CardinalityType, AccountsAssumption
  <2> QED
    BY <2>1, <2>2, AccountsAssumption DEF CountedFor
<1>2. Shape /\ Shape' /\ Inv /\ [Next]_vars => Inv'
  <2> SUFFICES ASSUME Shape, Shape', Inv, [Next]_vars, NEW c \in Challenges PROVE CountedFor(c)'
    OBVIOUS
  <2>1. CASE UNCHANGED vars
    BY <2>1 DEF vars, CountedFor, Counting
  <2> QED
    BY <2>1, CountedNext
<1>3. Shape /\ Inv => WrongCodesBounded
  <2> SUFFICES ASSUME Shape, Inv, NEW c \in Challenges
               PROVE  challenge[c].attempts <= MaxOTPAttempts + Cardinality(Workers) - 1
    BY DEF WrongCodesBounded
  <2>1. challenge[c].attempts \in Nat /\ Counting(c) \subseteq Workers
    BY DEF Shape, TypeOK, ChallengeRow, Counting
  <2>2. Cardinality(Counting(c)) \in Nat /\ Cardinality(Workers) \in Nat
    BY <2>1, WorkerSets
  <2> QED
    BY <2>1, <2>2, AccountsAssumption DEF CountedFor
<1> QED
  BY <1>1, <1>2, <1>3, ShapeAlways, PTL DEF Spec
-----------------------------------------------------------------------------
(***************************************************************************)
(* The logins of Accounts: how often one code serves, and who is given     *)
(* tokens.  The bound on the uses of a code becomes inductive by           *)
(* adding the requests that still hold the challenge (Holding); it starts  *)
(* from zero for a live challenge because a request past ConsumeChallenge  *)
(* holds a deleted one (Held).                                             *)
(***************************************************************************)
HoldPcs == {"password", "consume", "find", "insert", "activate", "issue"}

PastConsume == {"find", "insert", "activate", "issue"}

\* Requests that may still log in with c's code.
Holding(c) == {w \in Workers : req[w].ch = c /\ req[w].pc \in HoldPcs}

UsedFor(c) ==
  /\ logins[c] + Cardinality(Holding(c)) <= Cardinality(Workers)
  /\ challenge[c].live => challenge[c].kind # "none"
  /\ challenge[c].kind = "none" \/ challenge[c].live => logins[c] = 0

\* A request past ConsumeChallenge holds a deleted challenge; a retry that built a
\* challenge holds an id nobody else has.
Held(w) ==
  /\ req[w].op # "Register" /\ req[w].ch # None => challenge[req[w].ch].kind # "none"
  /\ req[w].pc \in PastConsume /\ req[w].ch # None => ~challenge[req[w].ch].live
  /\ req[w].op = "Register" /\ req[w].ch # None
       => /\ challenge[req[w].ch].kind = "none"
          /\ \A v \in Workers \ {w} : req[v].ch # req[w].ch

Codes == (\A c \in Challenges : UsedFor(c)) /\ (\A w \in Workers : Held(w))

(***************************************************************************)
(* Held challenges                                                          *)
(***************************************************************************)
LEMMA ChOK ==
  ASSUME Shape, NEW w \in Workers
  PROVE  req[w].ch \in Challenges \cup {None}
BY SMTT(60), ZenonT(30), SMTT(30) DEF Shape, TypeOK, Request

Lasting(c) ==
  challenge'[c].kind = challenge[c].kind /\ (challenge'[c].live => challenge[c].live)

\* A request that does not move keeps what it holds if its challenge stays
\* and nobody takes the id it reserved.
LEMMA HeldStays ==
  ASSUME Shape, NEW v \in Workers, Held(v), req'[v] = req[v],
         req[v].ch # None => Lasting(req[v].ch),
         \A x \in Workers \ {v} : req'[x].ch = req[v].ch /\ req[v].ch # None
                                    /\ req[v].op = "Register" => req[x].ch = req[v].ch
  PROVE  Held(v)'
<1> DEFINE c == req[v].ch
           op == req[v].op
           pc == req[v].pc
<1>1. req'[v].ch = c /\ req'[v].op = op /\ req'[v].pc = pc
  OBVIOUS
<1>2. /\ op # "Register" /\ c # None => challenge'[c].kind # "none"
      /\ pc \in PastConsume /\ c # None => ~challenge'[c].live
  BY DEF Held, Lasting
<1>3. op = "Register" /\ c # None => challenge'[c].kind = "none" /\ \A x \in Workers \ {v} : req'[x].ch # c
  BY DEF Held, Lasting
<1> QED
  BY ZenonT(60), <1>1, <1>2, <1>3 DEF Held

LEMMA ConsumeDeletes ==
  ASSUME Shape, NEW w \in Workers, Serve(w), req[w].pc = "consume"
  PROVE  ~challenge'[req[w].ch].live
<1>1. ConsumeChallenge(w)
  BY DEF Serve, IncrementAttempts, FindUser, CreateUser, IssueTokens, CreateSignupUser,
     SignupChallenge, LookUpPending, CheckCooldown, ReissuePendingSignup, CheckPassword, VerifySignup
<1> QED
  BY <1>1, ConsumeChallenges

\* The worker that takes the step.
LEMMA HeldTurn ==
  ASSUME Shape, NEW w \in Workers, Held(w), Serve(w), Others(w), NEW q \in Pcs, q # "idle",
         Turn(req[w].pc, q), Moved(w, q)
  PROVE  Held(w)' /\ ChallengesKept
<1>1. req'[w] # NoRequest
  BY DEF Moved, NoRequest
<1>2. ChallengesKept
  BY <1>1, ServeChallenges DEF InsertStep
<1> DEFINE c == req[w].ch
<1>3. c # None => Kept(c)
  BY <1>2, ChOK DEF ChallengesKept
<1>4. c # None /\ q \in PastConsume => ~challenge'[c].live
  <2>1. CASE req[w].pc = "consume"
    BY <2>1, ConsumeDeletes
  <2>2. CASE req[w].pc # "consume" /\ q \in PastConsume
    BY <1>3, <2>2 DEF Turn, PastConsume, Held, Kept
  <2> QED
    BY <2>1, <2>2
<1>5. req[w].op # "Register" /\ c # None => challenge'[c].kind # "none"
  BY <1>3 DEF Held, Kept
<1>6. req[w].op = "Register" /\ c # None
        => challenge'[c].kind = "none" /\ \A v \in Workers \ {w} : req'[v].ch # c
  BY <1>3 DEF Held, Kept, Others
<1>7. req'[w].ch = c /\ req'[w].op = req[w].op /\ req'[w].pc = q
  BY DEF Moved
<1> HIDE DEF c
<1> QED
  BY <1>2, <1>4, <1>5, <1>6, <1>7 DEF Held

LEMMA HeldReserve ==
  ASSUME Shape, NEW w \in Workers, Serve(w), Others(w),
         req[w].pc = "cooldown", req'[w].pc = "reissue", req'[w].op = req[w].op,
         req'[w].ch \in Challenges, challenge[req'[w].ch].kind = "none",
         \A v \in Workers : req[v].ch # req'[w].ch
  PROVE  Held(w)' /\ ChallengesKept
<1>1. req'[w] # NoRequest /\ req[w].op = "Register"
  BY DEF NoRequest, Shape, RequestOK
<1>2. ChallengesKept
  BY <1>1, ServeChallenges DEF InsertStep
<1>3. challenge'[req'[w].ch].kind = "none"
  BY <1>2 DEF ChallengesKept, Kept
<1>4. \A v \in Workers \ {w} : req'[v].ch # req'[w].ch
  BY DEF Others
<1> QED
  BY SMTT(60), ZenonT(30), SMTT(30), <1>1, <1>2, <1>3, <1>4 DEF Held, PastConsume

LEMMA HeldNone ==
  ASSUME NEW w \in Workers, req'[w].ch = None
  PROVE  Held(w)'
BY DEF Held

\* The other workers keep what they hold.
LEMMA HeldOthers ==
  ASSUME Shape, NEW w \in Workers, NEW v \in Workers \ {w}, Others(w), Held(v), Held(w),
         \A c \in Challenges : UsedFor(c), Start(w) \/ Serve(w) \/ Abort(w)
  PROVE  Held(v)'
<1> DEFINE c == req[v].ch
<1>1. req'[v] = req[v] /\ c \in Challenges \cup {None}
  BY SMTT(60), ZenonT(30), SMTT(30), ChOK DEF Others
<1>2. c # None => Lasting(c)
  <2>1. CASE ChallengesKept
    BY SMTT(60), ZenonT(30), SMTT(30), <1>1, <2>1 DEF ChallengesKept, Kept, Lasting
  <2>2. CASE CountStep(w)
    BY ZenonT(60), <1>1, <2>2 DEF CountStep, Kept, Lasting
  <2>3. CASE InsertStep(w)
    <3>1. PICK d \in Challenges : /\ Fresh(d) \/ (req[w].op = "Register" /\ req[w].ch = d)
                                  /\ \A e \in Challenges \ {d} : Kept(e)
      BY <2>3 DEF InsertStep
    <3>2. d # None
      BY SMTT(60), ZenonT(30), SMTT(30), AccountsAssumption
    <3>3. c # d
      BY ZenonT(60), <3>1, <3>2 DEF Fresh, Held
    <3> QED
      BY SMTT(60), ZenonT(30), SMTT(30), <1>1, <3>1, <3>3 DEF Kept, Lasting
  <2>4. CASE Start(w) \/ Abort(w)
    BY ZenonT(60), <2>1, <2>4, StartRequest, Untouched DEF Abort
  <2> QED
    BY ZenonT(60), <2>1, <2>2, <2>3, <2>4, ServeChallenges
<1>3. c # None /\ req[v].op = "Register" => req'[w].ch # c
  <2> SUFFICES ASSUME c # None, req[v].op = "Register" PROVE req'[w].ch # c
    BY SMTT(60), ZenonT(30), SMTT(30)
  <2>1. c \in Challenges /\ challenge[c].kind = "none" /\ ~challenge[c].live /\ req[w].ch # c
    BY ZenonT(60), <1>1 DEF Held, UsedFor
  <2>2. CASE Start(w)
    BY ZenonT(60), <2>1, <2>2, StartRequest DEF ReadStep, LoginStep, RegisterStep
  <2>3. CASE Serve(w)
    BY SMTT(60), ZenonT(30), SMTT(30), <2>1, <2>3, ServeRequest DEF ServeStep, Moved, NoRequest
  <2>4. CASE Abort(w)
    BY SMTT(60), ZenonT(30), SMTT(30), <2>1, <2>4, FinishStep DEF Abort, NoRequest, Shape
  <2> QED
    BY ZenonT(60), <2>2, <2>3, <2>4
<1>4. \A x \in Workers \ {v, w} : req'[x] = req[x]
  BY DEF Others
<1> QED
  BY <1>1, <1>2, <1>3, <1>4, HeldStays

LEMMA HeldNext ==
  ASSUME Shape, Next, Codes, NEW v \in Workers
  PROVE  Held(v)'
<1> USE DEF Codes
<1>1. ASSUME NEW w \in Workers, Start(w) PROVE Held(v)'
  <2>1. Others(w) /\ UNCHANGED challenge
    BY <1>1, StartRequest
  <2>2. CASE v # w
    BY SMTT(60), ZenonT(30), SMTT(30), <1>1, <2>1, <2>2, HeldOthers
  <2>3. ASSUME ReadStep(w) PROVE Held(w)'
    <3>1. req'[w].ch \in Challenges /\ challenge'[req'[w].ch].kind # "none"
      BY <2>1, <2>3 DEF ReadStep, UsedFor
    <3> QED
      BY ZenonT(60), <2>3, <3>1 DEF ReadStep, Held, PastConsume
  <2>4. ASSUME LoginStep(w) \/ RegisterStep(w) PROVE Held(w)'
    BY <2>4, HeldNone DEF LoginStep, RegisterStep
  <2> QED
    BY <1>1, <2>2, <2>3, <2>4, StartRequest
<1>2. ASSUME NEW w \in Workers, Serve(w) PROVE Held(v)'
  <2>1. Others(w) /\ ServeStep(w)
    BY <1>2, ServeRequest
  <2>2. CASE v # w
    BY <1>2, <2>1, <2>2, HeldOthers
  <2>3. ASSUME req'[w] = NoRequest PROVE Held(w)'
    BY SMTT(60), ZenonT(30), SMTT(30), <2>3, HeldNone DEF NoRequest
  <2>4. ASSUME NEW q \in Pcs, Turn(req[w].pc, q), Moved(w, q) PROVE Held(w)'
    BY SMTT(60), ZenonT(30), SMTT(30), <1>2, <2>1, <2>4, HeldTurn DEF Turn
  <2>5. Held(w)'
    BY ZenonT(60), <1>2, <2>1, <2>3, <2>4, HeldReserve DEF ServeStep
  <2> QED
    BY <2>2, <2>5
<1>3. ASSUME NEW w \in Workers, Abort(w) PROVE Held(v)'
  <2>1. Others(w) /\ req'[w] = NoRequest
    BY <1>3, FinishStep DEF Abort, Shape
  <2>2. CASE v # w
    BY <1>3, <2>1, <2>2, HeldOthers
  <2>3. Held(w)'
    BY <2>1, HeldNone DEF NoRequest
  <2> QED
    BY <2>2, <2>3
<1>4. ASSUME NEW d \in Challenges, NEW i \in Identifiers, RequestOTP(d, i) PROVE Held(v)'
  <2>1. UNCHANGED req /\ \A e \in Challenges \ {d} : Kept(e)
    BY <1>4, NewChallengeStep DEF RequestOTP
  <2>2. req[v].ch # d /\ req[v].ch \in Challenges \cup {None}
    BY <1>4, ChOK DEF RequestOTP, Fresh
  <2>3. req[v].ch # None => Lasting(req[v].ch)
    BY <2>1, <2>2 DEF Kept, Lasting
  <2> QED
    BY <2>1, <2>3, HeldStays
<1>5. CASE (\E S \in SUBSET Users : PurgeUnverifiedSignups(S)) \/ Tick
  BY <1>5 DEF PurgeUnverifiedSignups, Tick, Held
<1> QED
  BY <1>1, <1>2, <1>3, <1>4, <1>5 DEF Next

(***************************************************************************)
(* Uses of a code                                                           *)
(***************************************************************************)
LEMMA HoldingKept ==
  ASSUME NEW w \in Workers, NEW c \in Challenges, Others(w),
         req'[w].ch = c /\ req'[w].pc \in HoldPcs => req[w].ch = c /\ req[w].pc \in HoldPcs
  PROVE  Holding(c)' \subseteq Holding(c)
BY DEF Holding, Others

\* No login, no new holder, and the row stays or is inserted.
LEMMA NoMoreUsed ==
  ASSUME Shape, NEW c \in Challenges, UsedFor(c), Holding(c)' \subseteq Holding(c),
         logins'[c] = logins[c],
         Lasting(c) \/ (challenge[c].kind = "none" /\ challenge'[c].kind # "none")
  PROVE  UsedFor(c)'
<1>1. logins[c] \in Nat /\ Holding(c) \subseteq Workers
  BY DEF Shape, TypeOK, Holding
<1>2. /\ Cardinality(Holding(c)') <= Cardinality(Holding(c)) /\ Cardinality(Holding(c)) \in Nat
      /\ Cardinality(Holding(c)') \in Nat /\ Cardinality(Workers) \in Nat
  BY <1>1, WorkerSets
<1>3. logins'[c] + Cardinality(Holding(c)') <= Cardinality(Workers)
  BY <1>1, <1>2 DEF UsedFor
<1> QED
  BY <1>3 DEF UsedFor, Lasting

\* A request that reads a live challenge finds no login counted for it.
LEMMA ReadUsed ==
  ASSUME NEW c \in Challenges, UsedFor(c), challenge[c].live, UNCHANGED <<challenge, logins>>
  PROVE  UsedFor(c)'
<1>1. Holding(c)' \subseteq Workers
  BY DEF Holding
<1>2. /\ Cardinality(Holding(c)') <= Cardinality(Workers)
      /\ Cardinality(Holding(c)') \in Nat /\ Cardinality(Workers) \in Nat
  BY <1>1, WorkerSets
<1> QED
  BY <1>2 DEF UsedFor

LEMMA OneUsed ==
  ASSUME Shape, NEW w \in Workers, Held(w), NEW c \in Challenges, UsedFor(c), IssueTokens(w)
  PROVE  UsedFor(c)'
<1> DEFINE S == Holding(c)
           T == Holding(c)'
<1>1. Others(w) /\ req'[w].pc = "idle" /\ UNCHANGED challenge
  BY FinishStep DEF IssueTokens, NoRequest, Shape
<1>2. CASE req[w].ch # c
  <2>1. logins'[c] = logins[c]
    BY <1>2 DEF IssueTokens
  <2> QED
    BY <1>1, <2>1, HoldingKept, NoMoreUsed DEF HoldPcs, Lasting
<1>3. CASE req[w].ch = c
  <2>1. w \in S /\ S \subseteq Workers /\ c # None
    BY <1>3, AccountsAssumption DEF IssueTokens, Holding, HoldPcs
  <2>2. ASSUME NEW v \in Workers, v # w PROVE req'[v] = req[v]
    BY <1>1, <2>2 DEF Others
  <2>3. T = S \ {w}
    BY <1>1, <2>2 DEF Holding, HoldPcs
  <2>4. IsFiniteSet(S) /\ Cardinality(S) \in Nat /\ Cardinality(T) \in Nat /\ Cardinality(Workers) \in Nat
    BY <2>1, <2>3, WorkerSets
  <2>5. Cardinality(T) = Cardinality(S) - 1
    BY ZenonT(60), <2>1, <2>3, <2>4, FS_RemoveElement
  <2>6. logins[c] \in Nat /\ logins'[c] = logins[c] + 1
    BY <1>3 DEF IssueTokens, Shape, TypeOK
  <2>7. logins[c] + Cardinality(S) <= Cardinality(Workers)
    BY DEF UsedFor
  <2>8. ~challenge[c].live /\ challenge[c].kind # "none"
    BY <1>3, <2>1 DEF IssueTokens, Held, PastConsume, Shape, RequestOK
  <2> HIDE DEF S, T
  <2>9. logins'[c] + Cardinality(T) <= Cardinality(Workers)
    BY SMTT(60), ZenonT(30), SMTT(30), <2>4, <2>5, <2>6, <2>7
  <2> QED
    BY <1>1, <2>8, <2>9 DEF UsedFor, T
<1> QED
  BY <1>2, <1>3

LEMMA LoginsKept ==
  ASSUME Shape, NEW w \in Workers, Start(w) \/ Abort(w) \/ (Serve(w) /\ ~IssueTokens(w))
  PROVE  UNCHANGED logins
BY ZenonT(60), StartRequest DEF Serve, Abort, IncrementAttempts, ConsumeChallenge, FindUser, CreateUser,
   CreateSignupUser, SignupChallenge, LookUpPending, CheckCooldown, ReissuePendingSignup,
   CheckPassword, VerifySignup

LEMMA UsedNext ==
  ASSUME Shape, Next, Codes, NEW c \in Challenges
  PROVE  UsedFor(c)'
<1>0. UsedFor(c) /\ c # None
  BY AccountsAssumption DEF Codes
<1>1. ASSUME NEW w \in Workers, Start(w) PROVE UsedFor(c)'
  <2>1. Others(w) /\ UNCHANGED <<challenge, logins>>
    BY <1>1, StartRequest
  <2>2. CASE ReadStep(w) /\ req'[w].ch = c
    BY <1>0, <2>1, <2>2, ReadUsed DEF ReadStep
  <2>3. CASE req'[w].ch # c
    BY <1>0, <2>1, <2>3, HoldingKept, NoMoreUsed DEF Lasting
  <2>4. CASE LoginStep(w) \/ RegisterStep(w)
    BY <1>0, <2>3, <2>4 DEF LoginStep, RegisterStep
  <2> QED
    BY <1>1, <2>2, <2>3, <2>4, StartRequest
<1>2. ASSUME NEW w \in Workers, Serve(w), ~IssueTokens(w) PROVE UsedFor(c)'
  <2>1. Others(w) /\ ServeStep(w) /\ UNCHANGED logins
    BY <1>2, ServeRequest, LoginsKept
  <2>2. req'[w].ch = c /\ req'[w].pc \in HoldPcs => req[w].ch = c /\ req[w].pc \in HoldPcs
    <3>1. ASSUME req'[w] = NoRequest PROVE req'[w].ch # c
      BY <1>0, <3>1 DEF NoRequest
    <3>2. ASSUME NEW q \in Pcs, Turn(req[w].pc, q), q \in HoldPcs PROVE req[w].pc \in HoldPcs
      BY <3>2 DEF Turn, HoldPcs
    <3>3. ASSUME req'[w].pc = "reissue" PROVE req'[w].pc \notin HoldPcs
      BY <3>3 DEF HoldPcs
    <3> QED
      BY <2>1, <3>1, <3>2, <3>3 DEF ServeStep, Moved
  <2>3. Holding(c)' \subseteq Holding(c)
    BY <2>1, <2>2, HoldingKept
  <2>4. Lasting(c) \/ (challenge[c].kind = "none" /\ challenge'[c].kind # "none")
    <3>1. CASE ChallengesKept
      BY <3>1 DEF ChallengesKept, Kept, Lasting
    <3>2. CASE CountStep(w)
      BY <3>2 DEF CountStep, Kept, Lasting
    <3>3. CASE InsertStep(w)
      <4>1. PICK d \in Challenges : /\ Fresh(d) \/ (req[w].op = "Register" /\ req[w].ch = d)
                                    /\ challenge'[d].kind # "none"
                                    /\ \A e \in Challenges \ {d} : Kept(e)
        BY <3>3 DEF InsertStep
      <4>2. d # None /\ challenge[d].kind = "none"
        BY <4>1, AccountsAssumption DEF Fresh, Codes, Held
      <4> QED
        BY <4>1, <4>2 DEF Kept, Lasting
    <3> QED
      BY <1>2, <3>1, <3>2, <3>3, ServeChallenges
  <2> QED
    BY <1>0, <2>1, <2>3, <2>4, NoMoreUsed
<1>3. ASSUME NEW w \in Workers, IssueTokens(w) PROVE UsedFor(c)'
  BY <1>0, <1>3, OneUsed DEF Codes
<1>4. ASSUME NEW w \in Workers, Abort(w) PROVE UsedFor(c)'
  <2>1. Others(w) /\ req'[w] = NoRequest /\ UNCHANGED <<challenge, logins>>
    BY <1>4, FinishStep DEF Abort, Shape
  <2>2. req'[w].ch # c
    BY <1>0, <2>1 DEF NoRequest
  <2> QED
    BY <1>0, <2>1, <2>2, HoldingKept, NoMoreUsed DEF Lasting
<1>5. ASSUME NEW d \in Challenges, NEW i \in Identifiers, RequestOTP(d, i) PROVE UsedFor(c)'
  <2>1. UNCHANGED <<req, logins>> /\ Inserted(d) /\ \A e \in Challenges \ {d} : Kept(e)
    BY <1>5, NewChallengeStep DEF RequestOTP
  <2>2. Holding(c)' = Holding(c)
    BY <2>1 DEF Holding
  <2> QED
    BY <1>0, <2>1, <2>2, NoMoreUsed DEF Inserted, Kept, Lasting
<1>6. CASE (\E S \in SUBSET Users : PurgeUnverifiedSignups(S)) \/ Tick
  BY <1>0, <1>6 DEF PurgeUnverifiedSignups, Tick, UsedFor, Holding
<1> QED
  BY <1>1, <1>2, <1>3, <1>4, <1>5, <1>6 DEF Next

\* A code serves at most as many logins as there are requests at a time: the ones that
\* read its challenge before ConsumeChallenge deleted it.
THEOREM CodeUses == Spec => []CodeUsesBounded
<1>1. Init => Codes
  <2> SUFFICES ASSUME Init PROVE Codes
    OBVIOUS
  <2>1. ASSUME NEW c \in Challenges PROVE UsedFor(c)
    <3>1. Holding(c) = {} /\ logins[c] = 0 /\ challenge[c].kind = "none" /\ ~challenge[c].live
      BY DEF Init, Holding, HoldPcs, NoRequest
    <3>2. Cardinality({}) = 0 /\ Cardinality(Workers) \in Nat
      BY SMTT(60), FS_EmptySet, FS_CardinalityType, AccountsAssumption
    <3> QED
      BY <3>1, <3>2 DEF UsedFor
  <2>2. \A w \in Workers : Held(w)
    BY DEF Init, Held, NoRequest
  <2> QED
    BY <2>1, <2>2 DEF Codes
<1>2. Shape /\ Codes /\ [Next]_vars => Codes'
  <2> SUFFICES ASSUME Shape, Codes, [Next]_vars PROVE Codes'
    OBVIOUS
  <2>1. CASE UNCHANGED vars
    BY <2>1 DEF vars, Codes, UsedFor, Held, Holding
  <2>2. CASE Next
    <3>1. \A c \in Challenges : UsedFor(c)'
      BY <2>2, UsedNext
    <3>2. \A w \in Workers : Held(w)'
      BY <2>2, HeldNext
    <3> QED
      BY <3>1, <3>2 DEF Codes
  <2> QED
    BY <2>1, <2>2
<1>3. Shape /\ Codes => CodeUsesBounded
  <2> SUFFICES ASSUME Shape, Codes, NEW c \in Challenges PROVE logins[c] <= Cardinality(Workers)
    BY DEF CodeUsesBounded
  <2>1. logins[c] \in Nat /\ Holding(c) \subseteq Workers
    BY DEF Shape, TypeOK, Holding
  <2>2. Cardinality(Holding(c)) \in Nat /\ Cardinality(Workers) \in Nat
    BY SMTT(60), <2>1, WorkerSets
  <2> QED
    BY <2>1, <2>2 DEF Codes, UsedFor
<1> QED
  BY <1>1, <1>2, <1>3, ShapeAlways, PTL DEF Spec

(***************************************************************************)
(* Who logs in                                                              *)
(***************************************************************************)
\* A request that is about to issue tokens does so for an active account.
Admitted ==
  /\ PendingNeverIssued
  /\ \A w \in Workers : req[w].pc = "issue" => user[req[w].user].status = "active"

\* The steps that lead to issueTokens.
LEMMA Admission ==
  ASSUME Shape, NEW w \in Workers, Serve(w), req'[w].pc = "issue"
  PROVE  user'[req'[w].user].status = "active"
<1> USE DEF Shape
<1>1. CASE FindUser(w)
  <2>1. UNCHANGED user
    BY SMTT(60), <1>1 DEF FindUser
  <2>2. ASSUME Goto(w, "insert") \/ Finish(w) PROVE FALSE
    BY <2>2, GotoStep, FinishStep DEF Moved, NoRequest, Pcs
  <2>3. PICK u \in UsersAt(req[w].ident) : MayLogin(user[u].status) /\ GotoFor(w, u, "issue")
    BY <1>1, <2>2 DEF FindUser
  <2>4. u \in Users /\ user[u].status = "active"
    BY <2>3 DEF UsersAt, MayLogin
  <2>5. req'[w].user = u
    BY <2>3, <2>4, GotoForStep DEF Pcs
  <2> QED
    BY <2>1, <2>4, <2>5
<1>2. CASE CreateUser(w)
  <2>1. ASSUME Finish(w) PROVE FALSE
    BY SMTT(60), ZenonT(30), SMTT(30), <2>1, FinishStep DEF NoRequest
  <2>2. PICK u \in Users :
          /\ user' = [user EXCEPT ![u] = [status |-> "active", ident |-> req[w].ident, pw |-> None]]
          /\ GotoFor(w, u, "issue")
    BY ZenonT(60), <1>2, <2>1 DEF CreateUser
  <2>3. req'[w].user = u
    BY <2>2, GotoForStep DEF Pcs
  <2> QED
    BY <2>2, <2>3 DEF TypeOK
<1>3. CASE VerifySignup(w)
  <2>1. ASSUME Finish(w) PROVE FALSE
    BY <2>1, FinishStep DEF NoRequest
  <2> DEFINE u == req[w].user
  <2>2. u \in Users
    BY <1>3 DEF VerifySignup, RequestOK
  <2>3. user' = [user EXCEPT ![u].status = "active"] /\ Goto(w, "issue")
    BY <1>3, <2>1 DEF VerifySignup
  <2>4. req'[w].user = u
    BY <2>3, GotoStep DEF Pcs
  <2>5. user'[u].status = "active"
    BY SMTT(60), <2>2, <2>3 DEF TypeOK, UserRow
  <2> QED
    BY <2>4, <2>5
<1>4. ASSUME Finish(w) PROVE FALSE
  BY <1>4, FinishStep DEF NoRequest
<1>5. ASSUME NEW q \in Pcs, Goto(w, q), q # "issue" PROVE FALSE
  BY <1>5, GotoStep DEF Moved
<1>6. ASSUME NEW u \in Users, GotoFor(w, u, "consume") PROVE FALSE
  BY SMTT(60), ZenonT(30), SMTT(30), <1>6, GotoForStep DEF Moved, Pcs
<1>7. ASSUME NEW c \in Challenges,
             req' = [req EXCEPT ![w].pc = "reissue", ![w].ch = c, ![w].now = now]
      PROVE  FALSE
  BY ZenonT(60), <1>7, ReserveStep
<1> QED
  BY ZenonT(60), <1>1, <1>2, <1>3, <1>4, <1>5, <1>6, <1>7 DEF Serve, IncrementAttempts, ConsumeChallenge,
     IssueTokens, CreateSignupUser, SignupChallenge, LookUpPending, CheckCooldown,
     ReissuePendingSignup, CheckPassword, UsersAt, Pcs

LEMMA AdmittedNext ==
  ASSUME Shape, Shape', Next, Admitted
  PROVE  Admitted'
<1>1. UsersKept
  BY UserWrites
<1>2. PendingNeverIssued'
  <2>1. \A u \in issued : u \in Users /\ user'[u].status = "active"
    BY <1>1 DEF Admitted, PendingNeverIssued, UsersKept, Shape, TypeOK
  <2>2. ASSUME NEW w \in Workers, IssueTokens(w) PROVE PendingNeverIssued'
    <3>1. user'[req[w].user].status = "active" /\ issued' = issued \cup {req[w].user}
      BY <2>2 DEF IssueTokens, Admitted
    <3> QED
      BY <2>1, <3>1 DEF PendingNeverIssued
  <2>3. CASE UNCHANGED issued
    BY SMTT(60), <2>1, <2>3 DEF PendingNeverIssued
  <2>4. ASSUME NEW w \in Workers, Start(w) \/ Abort(w) \/ (Serve(w) /\ ~IssueTokens(w))
        PROVE  UNCHANGED issued
    BY ZenonT(60), <2>4, StartRequest DEF Serve, Abort, IncrementAttempts, ConsumeChallenge, FindUser,
       CreateUser, CreateSignupUser, SignupChallenge, LookUpPending, CheckCooldown,
       ReissuePendingSignup, CheckPassword, VerifySignup
  <2> QED
    BY <2>2, <2>3, <2>4 DEF Next, RequestOTP, PurgeUnverifiedSignups, Tick
<1>3. ASSUME NEW v \in Workers, req'[v] = req[v], req[v].pc = "issue"
      PROVE  user'[req'[v].user].status = "active"
  BY <1>1, <1>3 DEF Admitted, UsersKept, Shape, RequestOK
<1>4. ASSUME NEW v \in Workers, req'[v].pc = "issue" PROVE user'[req'[v].user].status = "active"
  <2>1. CASE req'[v] = req[v]
    BY <1>3, <1>4, <2>1
  <2>2. ASSUME NEW w \in Workers, Start(w) PROVE user'[req'[v].user].status = "active"
    <3>1. CASE v = w
      BY <1>4, <2>2, <3>1, StartRequest DEF ReadStep, LoginStep, RegisterStep
    <3> QED
      BY SMTT(60), <2>1, <2>2, <3>1, StartRequest DEF Others
  <2>3. ASSUME NEW w \in Workers, Serve(w) PROVE user'[req'[v].user].status = "active"
    BY <1>4, <2>1, <2>3, Admission, ServeRequest DEF Others
  <2>4. ASSUME NEW w \in Workers, Abort(w) PROVE user'[req'[v].user].status = "active"
    BY <1>4, <2>1, <2>4, FinishStep DEF Others, Abort, NoRequest, Shape
  <2> QED
    BY <2>1, <2>2, <2>3, <2>4 DEF Next, RequestOTP, PurgeUnverifiedSignups, Tick
<1> QED
  BY <1>2, <1>4 DEF Admitted

\* No login ever ends in tokens for an account that is not active, whatever retries,
\* verifications and purges run beside it.
THEOREM OnlyActive == Spec => []PendingNeverIssued
<1>1. Init => Admitted
  BY DEF Init, Admitted, PendingNeverIssued, NoRequest
<1>2. Shape /\ Shape' /\ Admitted /\ [Next]_vars => Admitted'
  <2>1. Admitted /\ UNCHANGED vars => Admitted'
    BY DEF vars, Admitted, PendingNeverIssued
  <2> QED
    BY <2>1, AdmittedNext
<1>3. Admitted => PendingNeverIssued
  BY DEF Admitted
<1> QED
  BY <1>1, <1>2, <1>3, ShapeAlways, PTL DEF Spec
=============================================================================
