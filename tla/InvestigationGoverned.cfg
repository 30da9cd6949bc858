SPECIFICATION FairSpec
CONSTANTS
  Setups <- MCSetups
  Stages <- MCStages
  Narrowed <- MCNarrowed
INVARIANTS
  TypeOK
  BudgetHolds
  ScriptNotRefused
  VerdictsEarned
PROPERTIES
  SettledStays
  InvestigationEnds
