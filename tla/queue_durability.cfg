SPECIFICATION Spec
CONSTANTS
  c1 = c1  c2 = c2  s1 = s1  w1 = w1  w2 = w2  d1 = d1  d2 = d2
  Commands = {c1}
  Sessions = {s1}
  SessionOf <- OneSession
  Remote = {s1}
  Workflows = {c1}
  Runs = {c1}
  Workers = {w1}
  Closers = {d1}
  Recovery = Recovery
  NoCmd = NoCmd
  NoSession = NoSession
  MaxCrashes = 2
  MaxFailures = 1
INVARIANTS LogAgreesWithRow CurrentContainerOwned
PROPERTY ImplementsLifecycle
CHECK_DEADLOCK FALSE
