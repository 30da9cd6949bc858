SPECIFICATION Spec
CONSTANTS
  Kinds = {"channel_timeout", "normal"}
  Data = {d1, d2}
  Evaluations = {"e1", "e2"}
  Runs = {"r1"}
  Clients = {c1, c2}
  Setups <- MCSetups
  Pipeline <- MCPipeline
  Probes <- MCProbes
  Stores = {"r1", "e1", "e2"}
  Worker = Worker
  Absent = Absent
  Torn = Torn
  Listed = Listed
  None = None
INVARIANTS
  TypeOK
  RestsOnOwnData
  EveryKindScored
  ModelUseEarned
  ModelUseAccounted
PROPERTIES
  ArtifactsMatchWhenRecorded
SYMMETRY MCSymmetry
CHECK_DEADLOCK FALSE
