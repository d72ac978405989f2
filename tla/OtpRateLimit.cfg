\* Four calls of any kind on one key; Redis fails or repeats once.
SPECIFICATION OneShotSpec
CONSTANTS
  Keys = {k1}
  Calls = {c1, c2, c3, c4}
  MaxGenerate = 2
  MaxValidate = 2
  MaxFailures = 2
  Window = 2
  Lockout = 1
  FailureTtl = 2
  Never = Never
  NoKey = NoKey
  MaxFaults = 1
  MaxTime = 4
SYMMETRY Symmetric
INVARIANTS TypeOK BoundedBurst CountersExpire
INVARIANTS RefusalIsTemporaryWithRedis FailuresLock
PROPERTY LockHolds
CHECK_DEADLOCK FALSE
