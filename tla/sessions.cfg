SPECIFICATION Spec
CONSTANTS
  m1 = m1
  m2 = m2
  m3 = m3
  m4 = m4
  m5 = m5
  a = a
  b = b
  g = g
  NoMsg = NoMsg
  Msgs = {m1, m2, m3, m4, m5}
  Sessions = {a, b}
  Chats = {g}
  SessionOf <- MCSessionOf
  ChatOf <- MCChatOf
  Created <- MCCreated
  IdRank <- MCIdRank
  Local = {m5}
  Commands = {m4}
  Media = {}
  Shared = {}
  ScopeLimit = 2
  MaxResets <- MCMaxResets
  MaxTrims = 1
INVARIANTS
  BelowCursorTold
  AnswersAreAnchored
PROPERTIES
  SwitchesAreSafe
CHECK_DEADLOCK FALSE
