SPECIFICATION MCSpec
CONSTANTS
  t1 = t1
  t2 = t2
  w1 = w1
  w2 = w2
  None = None
  Terminals = {t1, t2}
  Sockets = {w1, w2}
  ViewOf <- MCViewOf
  Fds = {1, 2}
  MaxOpen = 1
  Retention = 1
  BufferLimit = 2
  MaxOutput = 4
  BufferSize = 2
  MaxLines = 3
  MaxRestarts = 1
  MaxHistories = 1
  Calls = {1, 2, 3}
  Tools = {t1, t2}
  NoStream = NoStream
INVARIANT
  NoDeadWatcher
CHECK_DEADLOCK FALSE
