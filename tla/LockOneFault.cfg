\* Any one redis command fails, before or after redis ran it, and one client
\* may die; callers release within their lease.
SPECIFICATION FairSpec
CONSTANTS
    Clients = {c1, c2}
    Keys = {k1, k2}
    NoClient = NoClient
    Lease = 3
    WaitTimes = {0, 1}
    WaitCap = 2
    MaxHold = 2
    MaxFaults = 1
    MaxCrashes = 1
INVARIANTS ExclusiveUntilFault OwnLease NoOrphanLock
PROPERTIES ImplementsLockService GetLockReturns
