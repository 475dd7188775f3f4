SPECIFICATION SafeSpec
CONSTANTS
  Calls = {a, b}
  CallbackCalls = {}
  RequestTimeout = 0
  EnablePing = FALSE
INVARIANT NoCrossedAnswers
CHECK_DEADLOCK FALSE
