CONSTANTS
  Requests = {r1}
  Repliers = {p, q}
  Timeout = 1
  ProgressTimeout = 0
  MaxDepth = 2
  MaxProgress = 1
SPECIFICATION Spec
INVARIANTS TypeOK EchoOnlyIfOverlooked
PROPERTIES QuietAfterDestroy TimeoutsGoOn PromisesSpec
CHECK_DEADLOCK FALSE
