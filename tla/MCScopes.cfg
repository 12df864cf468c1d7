SPECIFICATION FairSpec
CONSTANTS
  q1 = q1
  q2 = q2
  q3 = q3
  s1 = s1
  s2 = s2
  Requests = {q1, q2}
  Scopes = {s1, s2}
  Namings <- BothPolicies
  Slots = {1, 2}
  Resources = {"db"}
  ContextKeys = {"req"}
  MaxLevel = 2
  None = None
INVARIANTS TypeOK DepthCounts ReuseIsClean HeldIsOpen AllClosed
PROPERTY LeavingEnds
CHECK_DEADLOCK FALSE
