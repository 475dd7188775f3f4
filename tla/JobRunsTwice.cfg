CONSTANTS
  Jobs = {j1}
  Consumers = {c1, c2}
  Workers = {w1}
  JobTimeout = 0
  ProgressTimeout = 0
  MaxUpdates = 1
SPECIFICATION SafeSpec
INVARIANT JobRunsOnce
CHECK_DEADLOCK FALSE
