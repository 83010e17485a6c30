SPECIFICATION AdapterSpec
CONSTANTS
  Limits <- NoneOrOne
  MaxFaults = 3
  MaxStarts = 2
  MaxTools = 1
INVARIANTS
  HoldsWhatItSays
PROPERTIES
  StoppingEnds
  StaysConnected
CHECK_DEADLOCK FALSE
