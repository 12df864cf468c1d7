SPECIFICATION FairSpec
CONSTANTS
  q1 = q1
  q2 = q2
  task = task
  Requests = {q1, q2}
  Asks <- ForestAsks
  Contexts = {task}
  Context <- OneContext
  Keys <- ForestKeys
  Registered <- ForestRegistered
  Singletons <- ForestSingletons
  AsyncKeys <- ForestAsync
  Resources = {"res"}
  Deps <- ForestDeps
  FinalizationErrors = TRUE
  NoObj = NoObj
INVARIANTS TypeOK PathDrains LevelsInOrder SequentialIdentity CancelFinalizes OutcomeExact
PROPERTY RequestEnds
CHECK_DEADLOCK FALSE
