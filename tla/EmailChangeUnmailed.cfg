\* "Envia novo e-mail de verificacao quando o e-mail do usuario e alterado":
\* violated by an update of one's data.
SPECIFICATION Spec
CONSTANTS
  Requests = {r1, r2, r3}
  Seeds = {s1}
  SeedAddress <- SameAddress
  a = a
  Addresses = {a, b}
  None = None
  NoUser = NoUser
  Operations = {"update", "resend"}
  MaxFaults = 0
SYMMETRY Symmetric
INVARIANT NewAddressIsMailed
CHECK_DEADLOCK FALSE
