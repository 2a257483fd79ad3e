SPECIFICATION MCFairSpec
CONSTANTS
    Processes = {p1, p2}
    Updates = {u1, u2}
    NoUpdate = NoUpdate
    Free = Free
    Gone = Gone
    MaxSlow = 1
    MaxCrashes = 1
    MaxFailures = 1
    MaxDamages = 2
INVARIANTS OneUpdatePerDamage
PROPERTIES IsAtomic StoreRecovers
