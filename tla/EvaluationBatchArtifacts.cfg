SPECIFICATION Spec
CONSTANTS
  Kinds = {"channel_timeout", "normal"}
  Data = {d1}
  Evaluations = {}
  Runs = {"r1", "r2"}
  Clients = {c1, c2}
  Setups <- MCSetups
  Pipeline <- MCPipeline
  Probes <- MCProbes
  Stores = {"r1", "r2"}
  Worker = Worker
  Absent = Absent
  Torn = Torn
  Listed = Listed
  None = None
INVARIANTS
  ArtifactsReadable
CHECK_DEADLOCK FALSE
