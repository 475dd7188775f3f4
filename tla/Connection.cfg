SPECIFICATION Spec
CONSTANTS
  Listeners = {"right"}
  BinaryListeners = {"right"}
  ValueListeners = {}
  Pattern <- MCPattern
  Events <- MCEvents
  EnablePing = TRUE
INVARIANTS NoLinkReplaced RegisterCrashNeedsClose PingNotKilledByClose NoThreadOutlivesClose
PROPERTIES Reconnects CloseReturnsIfFlagKept ListenersGetSubscribed ListenersGoOn
CHECK_DEADLOCK FALSE
