SPECIFICATION Spec
CONSTANTS
    a = a  b = b  e1 = e1  e2 = e2  e3 = e3
    noTime = noTime  NoTime = noTime
    Tasks = {a}
    Runs = {e1, e2, e3}
    Kinds = {"once"}
    Period = 1
    MaxTime = 1
    MaxWrites = 2
    MaxCrashes = 1
    MaxFaults = 0
    Lossy = FALSE
PROPERTIES OnceTaskRuns
CHECK_DEADLOCK FALSE
