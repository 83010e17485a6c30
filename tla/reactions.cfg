SPECIFICATION FairSpec
CONSTANTS
  r1 = r1
  r2 = r2
  r3 = r3
  g = g
  d = d
  m1 = m1
  m2 = m2
  m3 = m3
  NoRun = NoRun
  NoScope = NoScope
  NoAnchor = NoAnchor
  Runs = {r1, r2, r3}
  Scopes = {g, d}
  Anchors = {m1, m2, m3}
  ScopeOf <- DistinctScope
  AnchorOf <- DistinctAnchor
  Faults = {"add_rejected", "add_reply_lost", "delete_failed"}
INVARIANTS
  MarkersInStep
PROPERTIES
  
  MarkerEventuallyCleared
CHECK_DEADLOCK FALSE
