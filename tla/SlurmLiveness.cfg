SPECIFICATION FairSpec
CONSTANTS
  N = 3
  K = 1
  Coords = {c1}
  Submitter = c1
  c1 = c1
  Retries = 1
  LostAfter = 2
  Verdicts = {"success", "error"}
  KillStates = {"NODE_FAIL"}
  Faults = {"kill", "crash", "sbatch", "config", "slow", "outage", "resume"}
  MaxSubmits = 5
  MaxFaults = 1
PROPERTY ConcludesUnlessStranded
