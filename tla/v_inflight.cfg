SPECIFICATION Spec
CONSTANTS
  r1 = r1  r2 = r2  r3 = r3  b1 = b1  b2 = b2
  Requests = {r1, r2}
  BodyOf <- Bodies
  Routes = {"run"}
  NoReq = NoReq
  MaxCrashes = 1
  MaxFailures = 0
PROPERTY InFlightIsHandled
CHECK_DEADLOCK FALSE
