SPECIFICATION Spec
CONSTANTS
  Threads = {"a", "b"}
  Keys <- AppKeys
  Setups <- AllSetups
  NoEntry = NoEntry
  NoThread = NoThread
  NoKey = NoKey
INVARIANTS TypeOK RulesExact AcyclicRules GetExact
PROPERTIES KeptRules
CHECK_DEADLOCK FALSE
