\* "Campo index numerico sequencial": violated by two registrations.
SPECIFICATION Spec
CONSTANTS
  Requests = {r1, r2}
  Seeds = {s1, s2}
  s1 = s1
  s2 = s2
  a = a
  b = b
  c = c
  Seeded <- TwoSeeds
  Values = {a, b, c}
  None = None
  NoUser = NoUser
  NoId = NoId
  Payloads <- OnePayload
  Operations = {"register"}
  MaxFaults = 0
SYMMETRY Symmetric
INVARIANT NumbersUnique
CHECK_DEADLOCK FALSE
