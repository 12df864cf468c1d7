-------------------------- MODULE MCPlanExecution --------------------------
(* Rules with which TLC checks PlanExecution. *)
EXTENDS PlanExecution

ThreeKeys == 1..3
Rules(deps, lifes, yields) ==
  {[deps |-> deps, life |-> l, yields |-> y] : l \in lifes, y \in yields}

\* A root over two keys one of which needs the other, and a chain; the names
\* come neither in the order of the dependencies nor against it.
Triangle == <<<<3, 2>>, <<>>, <<2>>>>
Chain == <<<<>>, <<3>>, <<1>>>>
Lives == {l \in [ThreeKeys -> Lifetimes] : Cardinality({k \in ThreeKeys : l[k] = "custom"}) < 2}
PlainRules ==
  Rules(Triangle, Lives, {{}}) \cup Rules(Chain, [ThreeKeys -> {"singleton", "transient"}], {{}, {1}, {3}})

\* A yield provider and a service that has nothing to do with it.
YieldRules == Rules(<<<<>>, <<>>, <<2>>>>, {<<"transient", "singleton", "singleton">>}, {{1}})
=============================================================================
