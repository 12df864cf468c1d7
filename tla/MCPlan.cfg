SPECIFICATION Spec
CONSTANTS
  Keys <- ThreeKeys
  RuleSets <- PlainRules
  OverrideSets = {{2}}
  MaxLayers = 1
  MaxFreezes = 2
  Literals = {1, 2}
  NoObj = NoObj
INVARIANTS TypeOK PlanAgrees CacheConsistent
PROPERTIES CachesItsClosure ReplacedByFreezing
