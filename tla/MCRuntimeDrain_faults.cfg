SPECIFICATION MCSpec
CONSTANTS
    Ids = {i1, i2}
    NoKey = NoKey
    Tokens = {t1, t2}
    NoToken = NoToken
    Nothing = Nothing
    r1 = r1
    r2 = r2
    s1 = s1
    s2 = s2
    Runtimes = {r1, r2}
    Sends = {s1, s2}
    At <- Together
    Gone = Gone
    MaxFaults = 1
    MaxExternal = 0
    MaxNudges = 1
SYMMETRY Symmetry
INVARIANTS DrainingMarked
PROPERTIES UsesPromptQueue
