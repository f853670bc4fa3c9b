SPECIFICATION Spec
CONSTANTS
  N = 2
  K = 1
  Coords = {c1}
  Submitter = c1
  c1 = c1
  Retries = 1
  LostAfter = 2
  Verdicts = {"success", "error"}
  KillStates = {"NODE_FAIL"}
  Faults = {"kill", "crash", "sbatch", "config", "slow", "outage", "resume", "cancel"}
  MaxSubmits = 4
  MaxFaults = 2
INVARIANTS TypeOK LedgerIds NoIdBeforeSubmission SuccessIsEarned VerdictIsTrue SuccessIsKept LostNeedsOutages
PROPERTY LifeSpec
