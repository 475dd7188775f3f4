SPECIFICATION Spec
CONSTANTS
  Calls = {cb}
  CallbackCalls = {cb}
  RequestTimeout = 0
  EnablePing = FALSE
PROPERTY CallbackCallsReturn
CHECK_DEADLOCK FALSE
