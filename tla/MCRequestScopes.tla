--------------------------- MODULE MCRequestScopes ---------------------------
(* Requests on which TLC checks RequestScopes. *)
EXTENDS RequestScopes

CONSTANTS q1, q2, q3, s1, s2

\* ScopePolicy.NAMED: one object for the name.  UNIQUE: each request its own.
OneName == [q \in Requests |-> s1]
OneEach == [q \in Requests |-> IF q = q1 THEN s1 ELSE s2]
BothPolicies == {OneName, OneEach}
=============================================================================
