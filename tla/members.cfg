SPECIFICATION MembersFairSpec
CONSTANTS
  c1 = c1
  c2 = c2
  Callers = {c1, c2}
  ModesOf <- MCModesOf
  Lifetime = 2
  Debounce = 1
  Timeout = 1
  MaxTime = 3
  MaxTasks = 2
  MaxFaults = 2
INVARIANTS
  AnswersAreCurrent
PROPERTIES
  MembersSingleFlight
  SparinglyAnswered
CHECK_DEADLOCK FALSE
