SPECIFICATION Spec
CONSTANTS
  Runs = {r1}
  IncidentOf <- OneIncident
  Clients = {c1}
  Workers = {w1}
  MaxRetries = 1
  MaxCopies = 1
  AgentMode = "B2"
  NoRun = NoRun
PROPERTY
  DispatchFailureRecorded
CHECK_DEADLOCK FALSE
