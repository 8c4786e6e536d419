SPECIFICATION ShutdownSpec
CONSTANTS
  k1 = k1
  k2 = k2
  k3 = k3
  t1 = t1
  t2 = t2
  Keys = {k1, k2, k3}
  Threads = {t1, t2}
  NoThread = NoThread
  NoKey = NoKey
  ThreadOf <- MCThreadOf
  MaxConcurrency = 1
INVARIANTS NoKeyLockedOut
