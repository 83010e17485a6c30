SPECIFICATION Spec
CONSTANTS
  mention = mention
  quote = quote
  dm = dm
  o1 = o1
  o2 = o2
  r1 = r1
  g = g
  Groups = {g}
  Base <- MCBase
  Overrides <- NoOverrides
  RequireMention = TRUE
  EngagedWindow = 1
  Group = g
  Foreign = {mention}
  Direct = {}
  Mentioning = {mention}
  Quoting <- MCQuoting
  Plain <- MCPlain
  AdminCommands = {}
  Replies = {r1}
  ChunksOf <- MCChunks
  ToGroup = {r1}
  Copies <- MentionTwice
  RobotKnown = {FALSE}
  Lookups = {TRUE}
  LostReplies = TRUE
  MaxTime = 2
INVARIANT
  DispatchedOnce
CHECK_DEADLOCK FALSE
