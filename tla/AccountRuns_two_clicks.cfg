\* Two clicks on the same button.
CONSTANTS
  Threads = {t1, t2}
  Runs = {r1, r2}
  Contacts = {c1}
  NoThread = NoThread
  NoRun = NoRun
  Stale = 0
  Backoff = 0
  MaxRetries = 1
  Breaker = 1
  DayLen = 2
  Times = {1}
  MaxTime = 0
  Requests = {"user_auto", "form"}
  Faults = {}
SPECIFICATION Spec
SYMMETRY Symmetry
INVARIANTS
  OneFreshAutoRun
