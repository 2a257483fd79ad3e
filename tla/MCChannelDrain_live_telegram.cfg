SPECIFICATION MCFairSpec
CONSTANTS
    Ids = {i1}
    NoKey = NoKey
    Tokens = {t1, t2, t3, t4, t5}
    NoToken = NoToken
    Nothing = Nothing
    Drain = drain
    Directs = {d1}
    Users = {u1}
    Adapter = "telegram"
    MaxFaults = 1
    MaxExternal = 0
    MaxDirects = 1
PROPERTIES EveryPromptLeaves
