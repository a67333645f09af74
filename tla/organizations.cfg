\* User ids are bounded: when all are purged nobody is left to call.
SPECIFICATION OperatorSpec
CONSTANTS
  a = a
  b = b
  c = c
  aa = aa
  bb = bb
  Big = Big
  None = None
  Users = {b, c}
  Orgs = {o1}
  Invites = {i1, i2}
  Workers = {w1, w2}
  Addresses = {bb, Big}
  AddressOf <- MCSpellings
  Lower <- MCLowerBig
  Ops = {"RevokeInvite", "CreateOrg", "InviteMember", "AddMember", "Register", "AcceptInvite", "RemoveMember"}
SYMMETRY MCSymmetry
INVARIANTS
  NoOrphanMembership
  IndexNeverFires
PROPERTIES
  
  JoinsUseUpInvites
  InvitesAreFinal
CHECK_DEADLOCK FALSE
