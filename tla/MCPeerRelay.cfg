SPECIFICATION MCSpec
CONSTANTS
    r1 = r1
    r2 = r2
    connector = connector
    dashboard = dashboard
    Requests = {r1, r2}
    Processes = {connector, dashboard}
    Server = connector
    Loops = {l1}
    Nobody = Nobody
    Nothing = Nothing
    MaxRestarts = 1
    MaxAbandoned = 1
    MaxSwitches = 2
INVARIANTS CallerHeld SettledIsForgotten
PROPERTIES EveryCallEnds PeerKeepsPolling
