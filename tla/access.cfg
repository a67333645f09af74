SPECIFICATION Spec
CONSTANTS
  Orgs = {o1, o2}
  Subjects = {s1, s2}
  RoleKeys = {k1, k2}
  Permissions = {p1, p2}
  Catalog = {p1}
  ScopeIDs = {l1}
  OrgWide = OrgWide
  NoOrg = NoOrg
  MaxChanges = 2
  Requests = {r1}
  Conns = {c1}
  FallbackOrg = o2
  Malformed = Malformed
SYMMETRY Symmetry
INVARIANTS
  SettingFollowsRequest
  DecisionOfSomeInstant
  
PROPERTIES
  NoAmplification
