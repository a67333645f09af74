SPECIFICATION Spec
CONSTANTS
  None = None
  Identifiers = {a}
  Mobiles = {}
  Lower <- MCLower
  Users = {u1, u2}
  Challenges = {c1, c2}
  Passwords = {p}
  Workers = {w1, w2}
  Ops = {"RequestOTP", "VerifyOTP", "LoginWithPassword", "Register", "VerifySignup"}
  MaxTime = 1
  OTPTTL = 0
  SignupCooldown = 1
  MaxOTPAttempts = 1
SYMMETRY MCSymmetry
INVARIANTS
  PendingNeverIssued
  WrongCodesBounded
  CodeUsesBounded
PROPERTIES
  ActiveUntouched
