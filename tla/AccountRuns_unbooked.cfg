\* A scheduled run that raises after its setup.
CONSTANTS
  Threads = {t1}
  Runs = {r1}
  Contacts = {c1}
  NoThread = NoThread
  NoRun = NoRun
  Stale = 0
  Backoff = 0
  MaxRetries = 1
  Breaker = 1
  DayLen = 2
  Times = {1}
  MaxTime = 1
  Requests = {"form"}
  Faults = {"raise"}
SPECIFICATION Spec
SYMMETRY Symmetry
INVARIANTS
  ExceptionsAreBooked
