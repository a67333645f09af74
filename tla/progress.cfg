SPECIFICATION FairSpec
CONSTANTS
  a = a
  b = b
  c = c
  aa = aa
  bb = bb
  Big = Big
  None = None
  Users = {a, b}
  Orgs = {o1}
  Invites = {i1}
  Workers = {w1, w2}
  Addresses = {aa, bb}
  AddressOf <- MCAddressOf
  Lower <- MCLower
  Ops = {"CreateOrg", "InviteMember", "AddMember", "SuspendMember", "Register", "AcceptInvite"}
INVARIANTS
  LastActiveKept
  MembersAnnounced
PROPERTIES
  SuspendedStays
  RequestsFinish
  
