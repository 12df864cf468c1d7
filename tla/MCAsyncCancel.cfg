SPECIFICATION Spec
CONSTANTS
  q1 = q1
  q2 = q2
  task = task
  Requests = {q1}
  Asks <- RootAsked
  Contexts = {task}
  Context <- OneContext
  Keys <- SessionKeys
  Registered <- SessionKeys
  Singletons = {"res"}
  AsyncKeys = {"slow"}
  Resources = {"res"}
  Deps <- SessionDeps
  FinalizationErrors = TRUE
  NoObj = NoObj
INVARIANT CachedIsOpen
CHECK_DEADLOCK FALSE
