SPECIFICATION ClientSpec
CONSTANTS
  None = None
  Caller = {c1}
  Beat = Beat
  MaxSends = 6
  MaxBeats = 1
INVARIANTS StreamInv
PROPERTIES CallsEnd
CHECK_DEADLOCK FALSE
