SPECIFICATION FairSpec
CONSTANTS
  Runs = {r1, r2}
  Clients = {c1, c2}
  Workers = {w1}
  MaxCopies = 2
  MaxLeft = 1
  NoRun = NoRun
INVARIANTS
  TypeOK
  ReportDownloads
  SucceededHasReport
  DispatchedOnce
PROPERTY
  EvaluationsSettle
CHECK_DEADLOCK FALSE
