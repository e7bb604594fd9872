SPECIFICATION Spec
CONSTANTS
    d1 = d1  d2 = d2  c1 = c1  r1 = r1  w1 = w1  w2 = w2
    Watchdog = Watchdog  NoJob = NoJob
    Msgs = {d1, d2, c1}
    Direct = {d1, d2}
    Results = {}
    Workers = {w1, w2}
    FirstWorkers = {w1, w2}
    QueueSize = 1
    BufferLimit = 1
    BatchLimit = 1
    MaxLapses = 1
    MaxFreezes = 1
    MaxFaults = 1
INVARIANTS NothingVanishes GivenOnce OneMayReply
SYMMETRY Alike
CHECK_DEADLOCK FALSE
