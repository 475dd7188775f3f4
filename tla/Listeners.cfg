SPECIFICATION SafeSpec
CONSTANTS
  Listeners = {"left", "right"}
  BinaryListeners = {}
  ValueListeners = {"left"}
  Pattern <- MCPattern
  Events <- MCEvents
  EnablePing = FALSE
INVARIANTS TypeOK SubscriptionAgrees LateAtMostOnce
CHECK_DEADLOCK FALSE
