SPECIFICATION MCSpec
CONSTANTS
  mention = mention
  quote = quote
  dm = dm
  o1 = o1
  o2 = o2
  r1 = r1
  g = g
  g2 = g2
  alice = alice
  bob = bob
  Groups = {g, g2}
  Base <- MCBase
  Overrides <- MCOverrides
  RequireMention = TRUE
  EngagedWindow = 1
  Group = g
  Foreign = {mention, quote, dm}
  Direct = {dm}
  Mentioning = {mention}
  Quoting <- MCQuoting
  Plain <- MCPlain
  AdminCommands = {dm}
  Replies = {r1}
  ChunksOf <- MCChunks
  ToGroup = {r1}
  Copies <- MentionQuoteAndEchoes
  RobotKnown = {TRUE, FALSE}
  Lookups = {TRUE}
  LostReplies = TRUE
  MaxTime = 1
  Senders = {alice, bob}
  Inbox <- MCInbox
  MaxPolicyTime = 3
  MaxEvents = 3
  forward1 = forward1
  mention1 = mention1
  forward2 = forward2
  directFrame = directFrame
  broken = broken
  other = other
  k1 = k1
  k2 = k2
  k3 = k3
  NoFrame = NoFrame
  Frames = {forward1, mention1, forward2, directFrame, broken, other}
  Keys = {k1, k2, k3}
  KeyOf <- MCKeyOf
  KindOf <- MCKindOf
  Ttl = 1
  MaxSize = 1
  HandlerFails = TRUE
  MaxClock = 3
  MaxDeliveries = 4
  robot2 = robot2
  Us = Us
  f1 = f1
  n1 = n1
  n2 = n2
  n3 = n3
  n4 = n4
  n5 = n5
  n6 = n6
  n7 = n7
  n8 = n8
  n9 = n9
  n10 = n10
  Chat = g
  Users = {alice, bob}
  Robots = {Us, robot2}
  AuthorOf <- MCAuthorOf
  Messages <- MCMessages
  Names = {TRUE, FALSE}
  MaxParsed = 2
  MaxRestarts = 1
  hook1 = hook1
  hook2 = hook2
  hook3 = hook3
  hook4 = hook4
  Requests = {hook1, hook2, hook3, hook4}
  ShapeOf <- MCShapeOf
  MaxBinds = 3
  MaxSends = 3
INVARIANTS
  OwnStaysOwn
  SignalsReach
  FollowUpsAreEarned
  MessageIsUnderstood
  ParsedAlike
  RequestsAreHandled
  PortIsOwned
PROPERTIES
  NoRepeatedDispatch
  FramesAreHandled
CHECK_DEADLOCK FALSE
