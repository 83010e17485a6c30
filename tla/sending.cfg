SPECIFICATION Spec
CONSTANTS
  Jobs <- MCJobs
  Turns = {1, 2}
  Requests <- MCRequests
  Answers <- MCAnswers
  Begun <- MCBegun
  MaxSent = 3
  MaxCalls = 2
  MaxTime = 1
  SilenceTtl = 1
INVARIANTS
  PacketsAreAcceptable
  ToldAsDelivered
  SilenceIsEarned
PROPERTIES
  OnlyTheMeant
CHECK_DEADLOCK FALSE
