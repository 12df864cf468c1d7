SPECIFICATION Spec
CONSTANTS
  Keys <- ThreeKeys
  RuleSets <- YieldRules
  OverrideSets = {{2}}
  MaxLayers = 1
  MaxFreezes = 1
  Literals = {1, 2}
  NoObj = NoObj
INVARIANT PlanGivesKey
