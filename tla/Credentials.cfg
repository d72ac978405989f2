\* Two recovery requests and another one of every kind on one account.
SPECIFICATION CredentialsSpec
CONSTANTS
  Requests = {r1, r2}
  Writers = {w1}
  WriterKinds = {"change", "link", "update", "set"}
  LinkTtl = 1
  Accounts = {u1}
  Strangers = {}
  k1 = k1
  Keys = {k1}
  ThrottleKey <- OneKey
  CodeTtl = 1
  MaxAttempts = 2
  BlockFor = 2
  Wrong = Wrong
  NoSecret = NoSecret
  NoEmail = NoEmail
  Original = Original
  MaxGenerate = 1
  MaxValidate = 2
  MaxFailures = 3
  Window = 2
  Lockout = 2
  FailureTtl = 2
  Never = Never
  NoKey = NoKey
  MaxFaults = 0
  MaxTime = 1
SYMMETRY Symmetric
INVARIANTS CredentialsTypeOK OneSecretAtATime SecretsExpireWithTheirCode RevivedByWriteBack
PROPERTY PasswordsReturnByUpdate
CHECK_DEADLOCK FALSE
