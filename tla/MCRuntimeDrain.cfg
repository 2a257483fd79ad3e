SPECIFICATION MCSpec
CONSTANTS
    Ids = {i1, i2}
    NoKey = NoKey
    Tokens = {t1, t2}
    NoToken = NoToken
    Nothing = Nothing
    r1 = r1
    r2 = r2
    s1 = s1
    s2 = s2
    Runtimes = {r1, r2}
    Sends = {s1, s2}
    At <- Apart
    Gone = Gone
    MaxFaults = 0
    MaxExternal = 1
    MaxNudges = 0
SYMMETRY Symmetry
INVARIANTS OneDrain PauseOverrunsByOne NoLostWakeup
