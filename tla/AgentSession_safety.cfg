SPECIFICATION Spec
CONSTANTS
    c1 = c1  c2 = c2  t1 = t1  t2 = t2  r1 = r1  r2 = r2
    NoRoute = NoRoute  NoCell = NoCell
    Inputs <- ChatsAndOutput
    KindOf <- KindOfInput
    RouteOf <- RouteOfInput
    MaxQueue = 2
    MaxIterations = 2
    MaxAttempts = 2
    MaxAborts = 2
    MaxShutdowns = 1
INVARIANTS AcceptedOnce RunningTurnIsBusy
PROPERTIES AbortIsHeeded
CHECK_DEADLOCK FALSE
