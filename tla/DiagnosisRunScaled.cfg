SPECIFICATION FairSpec
CONSTANTS
  Runs = {r1}
  IncidentOf <- OneIncident
  Clients = {c1}
  Workers = {w1, w2}
  MaxRetries = 2
  MaxCopies = 2
  AgentMode = "B0"
  NoRun = NoRun
INVARIANTS
  QueuedBeforeDispatch
  CompletedHasReport
  ResultAnnouncedOnce
PROPERTY
  RunsSettle
CHECK_DEADLOCK FALSE
