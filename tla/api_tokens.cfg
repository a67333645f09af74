SPECIFICATION TokenSpec
CONSTANTS
  Users = {u1, u2}
  Tokens = {t1, t2, t3}
  Prefixes = {p1, p2}
  Callers = {c1}
  NoToken = NoToken
  MaxClock = 2
SYMMETRY Symmetry
INVARIANTS
  AcceptedIsOwners
  
