SPECIFICATION Spec
CONSTANTS
  N = 3
  K = 2
  Coords = {c1, c2}
  Submitter = c1
  c1 = c1
  c2 = c2
  Outcomes = {"success", "timeout", "error"}
  Faults = {"slow", "kill", "fork", "config", "interrupt", "cancel"}
  MaxLaunches = 4
  MaxFaults = 1
INVARIANTS VerdictIsTrue OneChild SuccessIsKept Window FinishedIsQuiet CancelEndsEveryCase
CHECK_DEADLOCK FALSE
