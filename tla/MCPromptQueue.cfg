SPECIFICATION MCSpec
CONSTANTS
    Ids = {i1, i2}
    Keys = {k1}
    NoKey = NoKey
    Tokens = {t1, t2, t3}
    NoToken = NoToken
    Workers = {w1, w2}
    Users = {u1}
    Nothing = Nothing
SYMMETRY Symmetry
INVARIANTS TypeOK QueuedOnce NoPromptLost LeasesDisjoint OneExecution
PROPERTIES LeaseProtected
