\* What a polling thread does once nobody is subscribed.
CONSTANTS
  Watchers = {w1, w2}
  Browsers = {b1}
  Residents = {s1}
  Callers = {c1}
  Intervals = {"slow"}
  NoWatcher = NoWatcher
  NoSub = NoSub
  MaxErrors = 2
SPECIFICATION FairSpec
PROPERTIES
  UnwatchedThreadEnds
