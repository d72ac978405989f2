\* Three requests of every kind about a registered user; one fault.
SPECIFICATION Spec
CONSTANTS
  Requests = {r1, r2, r3}
  Seeds = {s1}
  SeedAddress <- SameAddress
  a = a
  Addresses = {a, b}
  None = None
  NoUser = NoUser
  Operations = {"register", "create", "import", "resend", "verify", "update", "edit", "writeBack", "remove"}
  MaxFaults = 1
SYMMETRY Symmetric
INVARIANTS TypeOK VerifiedAddressGotToken LastMailWorks TokensArePosted
PROPERTY OldValuesNeedOverlap
CHECK_DEADLOCK FALSE
