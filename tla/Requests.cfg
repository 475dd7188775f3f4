SPECIFICATION SafeSpec
CONSTANTS
  Calls = {a, b}
  CallbackCalls = {}
  RequestTimeout = 0
  EnablePing = FALSE
INVARIANTS TypeOK NoLostWaiter EntryMatchesPromise NoStrandedMessage CrossedOnlyBySharedNumber ShutdownThrowNeedsFailedSend
PROPERTIES ConnSafeSpec PromisesSafeSpec
CHECK_DEADLOCK FALSE
