SPECIFICATION FairSpec
CONSTANTS
  c1 = c1  c2 = c2  s1 = s1  w1 = w1  w2 = w2  d1 = d1  d2 = d2
  Commands = {c1}
  Sessions = {s1}
  SessionOf <- OneSession
  Remote = {s1}
  Workflows = {c1}
  Runs = {c1}
  Workers = {w1}
  Closers = {d1}
  Recovery = Recovery
  NoCmd = NoCmd
  NoSession = NoSession
  MaxCrashes = 1
  MaxFailures = 0
PROPERTIES ClosingCloses CancelEnds RunCloses AcceptedEnds
CHECK_DEADLOCK FALSE
