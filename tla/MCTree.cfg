SPECIFICATION Spec
CONSTANTS
  Keys <- StackKeys
  Offers <- StackOffers
  OverrideSets = {{"db"}}
  DeferCycleCheck = FALSE
  MaxVersion <- Mostly
  MaxLayers = 1
  NoRule = NoRule
  NoObj = NoObj
  NoView = NoView
INVARIANTS TypeOK ViewsAccepted LocalRulesWin SharedIdentity
CHECK_DEADLOCK FALSE
