\* A browser, the resident subscription and two callers that change it.
CONSTANTS
  Watchers = {w1, w2}
  Browsers = {b1}
  Residents = {s1, s2, s3}
  Callers = {c1, c2}
  Intervals = {"slow", "fast"}
  NoWatcher = NoWatcher
  NoSub = NoSub
  MaxErrors = 2
SPECIFICATION Spec
SYMMETRY Symmetry
INVARIANTS
  TypeOK
  StrayThreadsAreStopped
  WatchedIsPolled
  NoWakeIsLost
  ResidentIsSubscribed
