SPECIFICATION Spec
CONSTANTS
    a = a  b = b  e1 = e1  e2 = e2  e3 = e3
    noTime = noTime  NoTime = noTime
    Tasks = {a, b}
    Runs = {e1, e2, e3}
    Kinds = {"once", "repeat"}
    Period = 1
    MaxTime = 1
    MaxWrites = 2
    MaxCrashes = 1
    MaxFaults = 1
    Lossy = TRUE
SYMMETRY RunSymmetry
INVARIANTS OneRunAtATime OnceIsOnce RunningHasRun
CHECK_DEADLOCK FALSE
