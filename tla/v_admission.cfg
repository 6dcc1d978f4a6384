SPECIFICATION Spec
CONSTANTS
  c1 = c1  c2 = c2  s1 = s1  w1 = w1  w2 = w2  d1 = d1  d2 = d2
  Commands = {c1}
  Sessions = {s1}
  SessionOf <- OneSession
  Remote = {s1}
  Workflows = {}
  Runs = {}
  Workers = {w1}
  Closers = {d1}
  Recovery = Recovery
  NoCmd = NoCmd
  NoSession = NoSession
  MaxCrashes = 0
  MaxFailures = 0
INVARIANT ClosedSessionQuiet
CHECK_DEADLOCK FALSE
