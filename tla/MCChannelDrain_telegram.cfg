SPECIFICATION MCSpec
CONSTANTS
    Ids = {i1, i2}
    NoKey = NoKey
    Tokens = {t1, t2}
    NoToken = NoToken
    Nothing = Nothing
    Drain = drain
    Directs = {d1}
    Users = {u1}
    Adapter = "telegram"
    MaxFaults = 1
    MaxExternal = 1
    MaxDirects = 1
SYMMETRY Symmetry
INVARIANTS  NoCollision
 
