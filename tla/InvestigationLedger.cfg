SPECIFICATION Spec
CONSTANTS
  Setups <- MCScripted
  Stages <- MCStages
  Narrowed <- MCNarrowed
INVARIANT
  LedgerAgrees
