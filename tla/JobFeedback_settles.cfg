SPECIFICATION SweptSpec
CONSTANTS
    t1 = t1  j1 = j1  j2 = j2  r1 = r1
    NoRoute = NoRoute  NoCell = NoCell
    Inputs <- OutputAndJobs
    Jobs <- BothJobs
    KindOf <- KindOfInput
    RouteOf <- RouteOfInput
    MaxQueue = 2
    MaxIterations = 1
    MaxAttempts = 1
    MaxAborts = 1
    MaxShutdowns = 0
    MaxParked = 1
INVARIANTS ResultOnce ParkedHasFlusher
PROPERTIES ResultSettles ImplementsInputPipe
