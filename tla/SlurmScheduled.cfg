SPECIFICATION Spec
CONSTANTS
  N = 2
  K = 1
  Coords = {c1}
  Submitter = c1
  c1 = c1
  Retries = 0
  LostAfter = 2
  Verdicts = {"success"}
  KillStates = {"NODE_FAIL"}
  Faults = {}
  MaxSubmits = 2
  MaxFaults = 0
INVARIANT ScheduledWithinK
