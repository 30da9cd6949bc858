SPECIFICATION Spec
CONSTANTS
  Runs = {r1, r2}
  IncidentOf <- OneIncident
  Clients = {c1, c2}
  Workers = {w1}
  MaxRetries = 2
  MaxCopies = 1
  AgentMode = "B2"
  NoRun = NoRun
INVARIANTS
  TypeOK
  SingleDelivery
  NoResultLost
  RetryOfSettledRun
PROPERTY
  KeepsLifecycle
CHECK_DEADLOCK FALSE
