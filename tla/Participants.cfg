\* Three overlapping requests of any kind.
SPECIFICATION Spec
CONSTANTS
  Requests = {r1, r2, r3}
  Users = {u1}
  SeedParticipants = {p1}
  SeedOrgs = {o1, o2}
  u1 = u1
  p1 = p1
  o1 = o1
  o2 = o2
  a = a
  ten = ten
  twenty = twenty
  n1 = n1
  n2 = n2
  SeededParticipants <- TheParticipant
  SeededOrgs <- TheOrgs
  SeededUsers <- TheUser
  Values = {a}
  Roles = {"seller", "member"}
  Names = {n1, n2}
  None = None
  Gone = Gone
  Sents <- SomeSents
  Operations = {"add", "insert", "set", "merge", "remove", "delete", "profile", "found", "adminFound", "rename", "dissolve", "edit"}
  Amounts = {ten, twenty}
  Preset = Preset
  Unset = Unset
  Null = Null
SYMMETRY Symmetric
INVARIANTS TypeOK ProfilesNeedOverlap NamesNeedOverlap
PROPERTIES ProfilesNeedAccess UpdateKeepsFields
CHECK_DEADLOCK FALSE
