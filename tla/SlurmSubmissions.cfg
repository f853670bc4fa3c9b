SPECIFICATION Spec
CONSTANTS
  N = 5
  K = 1
  Coords = {c1, c2}
  Submitter = c1
  c1 = c1
  c2 = c2
  Retries = 0
  LostAfter = 2
  Verdicts = {"success"}
  KillStates = {"NODE_FAIL"}
  Faults = {"sbatch", "outage", "config"}
  MaxSubmits = 6
  MaxFaults = 1
INVARIANTS OneSubmission Window TwoWindows
