SPECIFICATION MCSpec
CONSTANTS
    Ids = {i1, i2, i3}
    NoKey = NoKey
    Tokens = {t1, t2, t3}
    NoToken = NoToken
    Nothing = Nothing
    Drain = drain
    Directs = {d1, d2}
    Users = {u1}
    Adapter = "bridge"
    MaxFaults = 1
    MaxExternal = 1
    MaxDirects = 2
SYMMETRY Symmetry
INVARIANTS TypeOK DrainingMarked RunsAgainOnlyIfReleased PauseOverrunsByOne
PROPERTIES UsesPromptQueue
