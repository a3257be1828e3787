SPECIFICATION Spec
CONSTANTS
  Pids = {p1, p2}
  InitAddons = TRUE
  MaxCrashes = 2
INVARIANTS TypeOK OneDaemon NoDanglingPage UpdateRepairs BootHeals
