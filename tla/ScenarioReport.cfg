SPECIFICATION ScenarioSpec
CONSTANTS
  PaymentMethods <- MCMethods
  PaymentChannels <- MCChannels
  FaultyChannel = "channel_b"
  Gaps <- MCGaps
  Datasets <- MCDatasets
  NoData = NoData
  Contexts <- MCContexts
  Drafts <- MCDrafts
  MaxRetries = 1
  NoLoss = NoLoss
  NoReport = NoReport
INVARIANTS
  TypeOK
  SupportedIsBacked
  ClaimsBalance
  NothingSilentlyAltered
  RulesKeepContract
  ChargedOnce
  LossWithinAttrition
  TruthIsCounterfactual
  ViewsAgree
  GapNeverBlamed
  FaultsAreFound
CHECK_DEADLOCK FALSE
