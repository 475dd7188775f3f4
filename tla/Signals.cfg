SPECIFICATION SafeSpec
CONSTANTS
  Signals = {"text", "short", "long", "raw"}
  Signal <- MCSignal
  ApiKey <- MCApiKey
  Listeners = {"text_exact", "exact", "longer", "all"}
  BinaryListeners = {"exact", "longer", "all"}
  Pattern <- MCPattern
  Star = 15
  NameLimit = 2
  HeaderSize = 11
  ByteRange = 16
  EnablePing = FALSE
INVARIANTS TypeOK HeardAsSignalled ListenersHear
CHECK_DEADLOCK FALSE
