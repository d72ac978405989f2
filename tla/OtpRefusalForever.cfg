\* "Tente novamente em ate 1 hora": violated when the EXPIRE after the first
\* INCR is lost.
SPECIFICATION OneShotSpec
CONSTANTS
  Keys = {k1}
  Calls = {c1, c2}
  MaxGenerate = 1
  MaxValidate = 1
  MaxFailures = 2
  Window = 2
  Lockout = 1
  FailureTtl = 2
  Never = Never
  NoKey = NoKey
  MaxFaults = 1
  MaxTime = 3
INVARIANT RefusalIsTemporary
CHECK_DEADLOCK FALSE
