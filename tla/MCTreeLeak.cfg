SPECIFICATION Spec
CONSTANTS
  Keys <- PairKeys
  Offers <- PairOffers
  OverrideSets = {}
  DeferCycleCheck = FALSE
  MaxVersion <- Few
  MaxLayers = 1
  NoRule = NoRule
  NoObj = NoObj
  NoView = NoView
INVARIANT ChildStaysOut
CHECK_DEADLOCK FALSE
