\* Two requests on two accounts and an unknown address that share a key; one
\* fault.
SPECIFICATION FairSpec
CONSTANTS
  Requests = {r1, r2}
  Accounts = {u1, u2}
  Strangers = {x1}
  k1 = k1
  Keys = {k1}
  ThrottleKey <- OneKey
  CodeTtl = 2
  MaxAttempts = 2
  BlockFor = 2
  Wrong = Wrong
  NoSecret = NoSecret
  NoEmail = NoEmail
  Original = Original
  MaxGenerate = 1
  MaxValidate = 1
  MaxFailures = 1
  Window = 2
  Lockout = 2
  FailureTtl = 2
  Never = Never
  NoKey = NoKey
  MaxFaults = 1
  MaxTime = 1
PROPERTIES KeepsSecrets RequestsAnswered
CHECK_DEADLOCK FALSE
