SPECIFICATION Spec
CONSTANTS
  r1 = r1  r2 = r2  r3 = r3  b1 = b1  b2 = b2
  Requests = {r1, r2, r3}
  BodyOf <- Bodies
  Routes = {"session", "command", "run"}
  NoReq = NoReq
  MaxCrashes = 1
  MaxFailures = 1
INVARIANTS TypeOK OneAdmission RepliesAreTrue
CHECK_DEADLOCK FALSE
