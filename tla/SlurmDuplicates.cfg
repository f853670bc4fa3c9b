SPECIFICATION Spec
CONSTANTS
  N = 2
  K = 1
  Coords = {c1}
  Submitter = c1
  c1 = c1
  Retries = 0
  LostAfter = 2
  Verdicts = {"success"}
  KillStates = {"NODE_FAIL"}
  Faults = {"crash"}
  MaxSubmits = 4
  MaxFaults = 1
INVARIANT DuplicatesAreHarmless
