\* Every kind of job over a midnight, every fault but lost items: who holds the
\* account, what is marked, what comes to an end.
CONSTANTS
  Threads = {t1, t2}
  Runs = {r1}
  Contacts = {c1}
  NoThread = NoThread
  NoRun = NoRun
  Stale = 1
  Backoff = 0
  MaxRetries = 1
  Breaker = 1
  DayLen = 2
  Times = {1}
  MaxTime = 2
  Requests = {"user_auto", "user_batch", "single", "ai", "form"}
  Faults = {"crash", "raise", "expiry"}
SPECIFICATION FairSpec
INVARIANTS
  TypeOK
  OneSenderAtATime
  MarkedDayHasDoneRun
PROPERTIES
  ImplementsLedger
  UserRunEnds
  LockIsReleased
