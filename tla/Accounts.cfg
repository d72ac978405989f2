\* Three requests of any kind on two old users without a number; one fault.
SPECIFICATION Spec
CONSTANTS
  Requests = {r1, r2, r3}
  Seeds = {s1, s2}
  s1 = s1
  s2 = s2
  a = a
  b = b
  c = c
  Seeded <- TwoSeeds
  Values = {a, b, c}
  None = None
  NoUser = NoUser
  NoId = NoId
  Payloads <- SomePayloads
  Operations = {"register", "create", "update", "edit", "event", "remove", "migrate", "put"}
  MaxFaults = 1
SYMMETRY Symmetric
INVARIANTS TypeOK DuplicatesNeedOverlap NumbersNeedOverlap NumberedAfterMigration
PROPERTIES OrphansNeedOverlap ChangesAreAskedFor
CHECK_DEADLOCK FALSE
