SPECIFICATION Spec
CONSTANTS
  Runs = {r1}
  IncidentOf <- OneIncident
  Clients = {c1}
  Workers = {w1}
  MaxRetries = 2
  MaxCopies = 1
  AgentMode = "B2"
  NoRun = NoRun
PROPERTY
  RetryExecutes
CHECK_DEADLOCK FALSE
