CONSTANTS
  Procs = {web, connector}
  Schedulers = {connector}
  Runs = {1}
  Slots = {k1, k2}
  Flows = {1}
  Plan <- StepsPlan
  MaxDepth = 1
  RerunFrom <- AnyStatus
  MaxCommands = 3
  MaxCrashes = 1
  MaxOthers = 0
  Nothing = Nothing
SPECIFICATION MCSpec
SYMMETRY Symmetry
INVARIANTS SettledIsIdle CompletedIsDone StepsInOrder ApprovedFirst RunningIsOwned ActiveIsLive
