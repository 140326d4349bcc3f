\* One command of a waiting client fails.
SPECIFICATION Spec
CONSTANTS
    Clients = {c1, c2, c3}
    Keys = {k1}
    NoClient = NoClient
    Lease = 3
    WaitTimes = {0, 1}
    WaitCap = 2
    MaxHold = 2
    MaxFaults = 1
    MaxCrashes = 0
INVARIANTS MutualExclusion
