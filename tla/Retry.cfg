\* One record, two threads, two possible limits, two process deaths.
SPECIFICATION FairSpec
CONSTANTS
  r1 = r1
  t1 = t1
  t2 = t2
  Records = {r1}
  Tasks = {t1, t2}
  NoRecord = NoRecord
  NoTask = NoTask
  MaxRetryCounts = {2, 3}
  ClaimLimit = 1
  ClaimLease = 1
  MaxCrashes = 2
INVARIANTS
  RunningBelowLimit
  BudgetKept
  BackoffRespected
  FailedRowsStayScheduled
  SchedulerStaysAway
PROPERTIES
  CutoffLeftByOperatorOnly
  KeepsRows
  FailedRowsRetried
