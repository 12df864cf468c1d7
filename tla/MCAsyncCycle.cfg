SPECIFICATION Spec
CONSTANTS
  q1 = q1
  q2 = q2
  task = task
  Requests = {q1}
  Asks <- RootAsked
  Contexts = {task}
  Context <- OneContext
  Keys <- DiamondKeys
  Registered <- DiamondKeys
  Singletons = {}
  AsyncKeys = {"shared"}
  Resources = {}
  Deps <- DiamondDeps
  FinalizationErrors = TRUE
  NoObj = NoObj
INVARIANT CyclesAreReal
CHECK_DEADLOCK FALSE
