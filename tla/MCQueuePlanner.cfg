SPECIFICATION FairSpec
CONSTANTS
    Plans = {p1}
    Ids = {i1, i2, i3}
    Runtimes = {q1, q2}
    Users = {u1}
    None = None
    MaxFailures = 1
    MaxCrashes = 1
INVARIANTS ItemTracked
 
