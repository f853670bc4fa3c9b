SPECIFICATION FairSpec
CONSTANTS
  N = 2
  K = 1
  Coords = {c1}
  Submitter = c1
  c1 = c1
  Outcomes = {"success"}
  Faults = {"slow", "kill", "crash", "interrupt", "fork", "locked", "config", "force", "cancel"}
  MaxLaunches = 4
  MaxFaults = 2
INVARIANT TypeOK
PROPERTIES LifeSpec Concludes
CHECK_DEADLOCK FALSE
