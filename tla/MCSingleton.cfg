SPECIFICATION FairSpec
CONSTANTS
  t1 = t1
  t2 = t2
  Threads = {t1, t2}
  Keys <- GraphKeys
  Registered <- GraphRegistered
  Singletons <- GraphSingletons
  AsyncKeys = {"feed"}
  PlanKeys <- AppKeys
  Deps <- GraphDeps
  Order <- GraphOrder
  NoThread = NoThread
  NoObj = NoObj
INVARIANTS TypeOK SingletonIdentity LockDiscipline PathMatchesCall OutcomeExact
PROPERTIES GetBuildsUnpublished RegistrySpec SomeCallEnds
