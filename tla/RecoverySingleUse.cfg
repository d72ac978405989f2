\* The comment "Single-use OTP": violated by two overlapping validations.
SPECIFICATION Spec
CONSTANTS
  Requests = {r1, r2, r3}
  Accounts = {u1}
  Strangers = {}
  k1 = k1
  Keys = {k1}
  ThrottleKey <- OneKey
  CodeTtl = 2
  MaxAttempts = 2
  BlockFor = 2
  Wrong = Wrong
  NoSecret = NoSecret
  NoEmail = NoEmail
  Original = Original
  MaxGenerate = 2
  MaxValidate = 3
  MaxFailures = 2
  Window = 2
  Lockout = 2
  FailureTtl = 2
  Never = Never
  NoKey = NoKey
  MaxFaults = 0
  MaxTime = 0
SYMMETRY Symmetric
INVARIANT CodeUsedOnce
CHECK_DEADLOCK FALSE
