SPECIFICATION Spec
CONSTANTS
  N = 2
  K = 2
  Coords = {c1}
  Submitter = c1
  c1 = c1
  Outcomes = {"success"}
  Faults = {"slow"}
  MaxLaunches = 4
  MaxFaults = 1
INVARIANT DuplicatesAreHarmless
CHECK_DEADLOCK FALSE
