\* The AI settings are saved again after the polling gave up.
CONSTANTS
  Watchers = {w1}
  Browsers = {}
  Residents = {s1, s2}
  Callers = {c1}
  Intervals = {"slow"}
  NoWatcher = NoWatcher
  NoSub = NoSub
  MaxErrors = 2
SPECIFICATION Spec
SYMMETRY Symmetry
PROPERTIES
  EnsureKeepsPolling
