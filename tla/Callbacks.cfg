SPECIFICATION Spec
CONSTANTS
  Calls = {a, cb}
  CallbackCalls = {cb}
  RequestTimeout = 0
  EnablePing = FALSE
INVARIANT TimeoutCrashNeedsFailedSend CallbackCallsUnanswered
PROPERTIES TimeoutsGoOn CallsReturn PromisesSpec
CHECK_DEADLOCK FALSE
