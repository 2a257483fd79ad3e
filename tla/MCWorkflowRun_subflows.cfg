CONSTANTS
  Procs = {connector}
  Schedulers = {connector}
  Runs = {1, 2, 3}
  Slots = {k1}
  Flows = {1}
  Plan <- NestedPlan
  MaxDepth = 1
  RerunFrom <- AnyStatus
  MaxCommands = 2
  MaxCrashes = 1
  MaxOthers = 1
  Nothing = Nothing
SPECIFICATION MCFairSpec
INVARIANTS TypeOK ChildHeld
PROPERTIES CancelStops ExecutionEnds RunningEnds
