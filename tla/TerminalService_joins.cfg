SPECIFICATION Spec
CONSTANTS
    Sids = {s1, s2, s3}
    NoSid = NoSid
    MaxStarts = 2
    MaxFailures = 1
    Users = {user}
    Restorers = {restorer}
    Objs = {o1, o2}
    NoObj = NoObj
    MaxAsks = 2
    MaxFaults = 1
INVARIANTS TypeOK DaemonInStep NoOrphanShell ConnectedIsHeard
PROPERTIES DaemonSteps SuccessMeansJoined DroppedSocketRejoins StartJoins
CHECK_DEADLOCK FALSE
