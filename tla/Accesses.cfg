\* One reader of each kind and two overlapping requests of any kind.
SPECIFICATION AccessesSpec
CONSTANTS
  Requests = {r1, r2}
  Users = {u1}
  SeedParticipants = {p1, p2}
  SeedOrgs = {o1, o2}
  r1 = r1
  r2 = r2
  u1 = u1
  p1 = p1
  p2 = p2
  o1 = o1
  o2 = o2
  x1 = x1
  a = a
  b = b
  n1 = n1
  SeededParticipants <- TwoParticipants
  SeededOrgs <- TwoOrgs
  SeededUsers <- OneUser
  Values = {a, b}
  Roles = {"seller", "member"}
  Names = {n1}
  None = None
  Gone = Gone
  Sents <- SomeSents
  Operations = {"add", "set", "merge", "delete", "profile", "found", "rename", "dissolve", "edit"}
  Amounts = {}
  Preset = Preset
  Unset = Unset
  Null = Null
  Readers = {x1}
INVARIANTS AccessesTypeOK ToldWasHeld KeptIsTold LoginsAgree
CHECK_DEADLOCK FALSE
