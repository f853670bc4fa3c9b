SPECIFICATION FairSpec
CONSTANTS
  Providers = {"SMARTSIM", "AIX"}
  Outputs <- MCOutputs
  Tolerance = 1
  MaxAttempts = 3
  Faults = {"ports", "fork", "setup", "profile", "controller", "solver", "stubborn", "node"}
  MaxFaults = 3
INVARIANTS TypeOK SolverHasDatabase ControllerStopped SuccessIsWhole ReanalysisAgrees NothingRunsOn
PROPERTY CaseEnds
CHECK_DEADLOCK FALSE
