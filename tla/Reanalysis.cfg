SPECIFICATION Spec
CONSTANTS
  Jobs <- MCJobs
  Group <- MCGroup
  Logs <- MCLogs
  Readers = {r1, r2}
  r1 = r1
  r2 = r2
  Tolerance = 1
  MaxChanges = 1
INVARIANTS TypeOK ReportIsOfOneLedger FinalAttemptOnly MajorityIsNoAnomaly TransitiveIsClasses
CHECK_DEADLOCK FALSE
