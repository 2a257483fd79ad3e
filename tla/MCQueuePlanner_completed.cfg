SPECIFICATION FairSpec
CONSTANTS
    Plans = {p1}
    Ids = {i1}
    Runtimes = {q1}
    Users = {u1}
    None = None
    MaxFailures = 0
    MaxCrashes = 0
PROPERTIES CompletedIsShown
