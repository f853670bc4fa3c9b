SPECIFICATION FairSpec
CONSTANTS
  N = 3
  K = 1
  Coords = {c1}
  Submitter = c1
  c1 = c1
  Retries = 0
  LostAfter = 2
  Verdicts = {"success"}
  KillStates = {"NODE_FAIL"}
  Faults = {"kill"}
  MaxSubmits = 5
  MaxFaults = 1
PROPERTY Concludes
