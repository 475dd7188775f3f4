CONSTANTS
  Jobs = {j1}
  Consumers = {c1, c2}
  Workers = {w1}
  JobTimeout = 1
  ProgressTimeout = 0
  MaxUpdates = 2
SPECIFICATION Spec
INVARIANTS TypeOK ClaimsPerJob ResultFromWinner TerminatedByFinishedJob
PROPERTIES TimeoutsGoOn PromisesSpec
CHECK_DEADLOCK FALSE
