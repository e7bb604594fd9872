SPECIFICATION Spec
CONSTANTS
    s1 = s1  s2 = s2  a1 = a1  a2 = a2  k1 = k1  k2 = k2
    Sync = {s1, s2}
    Async = {a1, a2}
    Keys = {k1, k2}
    NoToken = NoToken
    NoKey = NoKey
    MaxResets = 1
INVARIANTS TypeOK MutualExclusion LeaseHasRunningTurn NoLostWakeup
PROPERTIES OnlyHolderReleases WaiterIsServed ImplementsTurnLock
