SPECIFICATION FairSpec
CONSTANTS
  Axis <- MCAxis
  Args <- MCArgs
  Source <- MCSource
  Results <- MCResults
  Commands = {c1, c2}
  c1 = c1
  c2 = c2
  MostRows = 2
  Faults = {"submit", "template", "preflight", "cancel", "kill", "crash", "broken", "tar", "force", "second"}
  MaxFaults = 1
INVARIANTS TypeOK RowsAreOfTheRun RowsAreTheSelection AnalysedOnce SummaryIsFinal ProfilesKept
CHECK_DEADLOCK FALSE
PROPERTY Analysed
