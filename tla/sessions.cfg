SPECIFICATION Spec
CONSTANTS
  None = None
  Users = {u1, u2}
  Orgs = {o1, o2}
  Tokens = {t1, t2}
  Workers = {w1, w2}
  AutoSelect = TRUE
  RevokeMayFail = TRUE
  ReadMayFail = FALSE
SYMMETRY MCSymmetry
INVARIANTS
  ClaimsWitnessed
  
