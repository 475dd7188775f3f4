SPECIFICATION SafeSpec
CONSTANTS
  Requests = {r1}
  Repliers = {p}
  Timeout = 1
  ProgressTimeout = 1
  MaxDepth = 1
  MaxProgress = 1
INVARIANT ProgressPreventsTimeouts
CHECK_DEADLOCK FALSE
