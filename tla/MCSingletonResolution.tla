----------------------- MODULE MCSingletonResolution -----------------------
(* The graph on which TLC checks SingletonResolution. *)
EXTENDS SingletonResolution

CONSTANTS t1, t2

\* A diamond whose services are compiled: two singletons, over a transient and
\* a common singleton.  Beside it, below roots of their own, what no plan holds:
\* a cycle that registration was told not to check, a key nobody registered
\* and an async provider.
AppKeys == {"app", "svc", "cfg"}
GraphKeys == AppKeys \cup {"a", "s", "feed", "gone"}
GraphDeps ==
  [app |-> <<"svc", "cfg">>, svc |-> <<"cfg">>, cfg |-> <<>>,
   a |-> <<"svc", "a">>, s |-> <<"gone", "feed">>, feed |-> <<>>, gone |-> <<>>]
GraphOrder == <<"cfg", "svc", "app">>
GraphRegistered == GraphKeys \ {"gone"}
GraphSingletons == {"app", "cfg", "a"}
=============================================================================
