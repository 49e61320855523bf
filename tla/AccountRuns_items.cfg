\* A run and its retry or rival, two contacts, crashes, items that cannot be
\* written: what the rows say of the messages.
CONSTANTS
  Threads = {t1, t2}
  Runs = {r1, r2}
  Contacts = {c1, c2}
  NoThread = NoThread
  NoRun = NoRun
  Stale = 0
  Backoff = 0
  MaxRetries = 2
  Breaker = 2
  DayLen = 2
  Times = {1}
  MaxTime = 1
  Requests = {"user_auto"}
  Faults = {"crash", "commit"}
SPECIFICATION Spec
SYMMETRY Symmetry
INVARIANTS
  UserRunHasRunner
  RetryRepeatsNobody
  AtMostOneUnrecorded
  SummaryIsComplete
