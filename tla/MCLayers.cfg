SPECIFICATION Spec
CONSTANTS
  t1 = t1
  t2 = t2
  Threads = {t1, t2}
  Keys <- AppKeys
  Setups <- AllSetups
  MaxTime = 4
  MaxLoops = 2
  NoCall = NoCall
SYMMETRY Symmetry
INVARIANTS TypeOK OrderSound WindowExact GuardExact PolicyHonoured
CHECK_DEADLOCK FALSE
