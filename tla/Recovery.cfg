\* Three requests on one account; Redis answers.
SPECIFICATION Spec
CONSTANTS
  Requests = {r1, r2, r3}
  Accounts = {u1}
  Strangers = {}
  k1 = k1
  Keys = {k1}
  ThrottleKey <- OneKey
  CodeTtl = 1
  MaxAttempts = 2
  BlockFor = 1
  Wrong = Wrong
  NoSecret = NoSecret
  NoEmail = NoEmail
  Original = Original
  MaxGenerate = 2
  MaxValidate = 2
  MaxFailures = 2
  Window = 1
  Lockout = 1
  FailureTtl = 1
  Never = Never
  NoKey = NoKey
  MaxFaults = 0
  MaxTime = 1
SYMMETRY Symmetric
INVARIANTS TypeOK SpentIsGone JudgedAreCounted
PROPERTIES AcceptedInTime LockLiftedBySuccess KeepsSecrets
CHECK_DEADLOCK FALSE
