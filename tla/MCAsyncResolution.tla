-------------------------- MODULE MCAsyncResolution --------------------------
(* Graphs on which TLC checks AsyncResolution. *)
EXTENDS AsyncResolution

CONSTANTS q1, q2, task

\* Every request runs in the same context: sequential calls of one task, or
\* tasks that inherited its context.
OneContext == [q \in Requests |-> task]

\* The keys two requests ask for.  The requests are alike, so one order of a
\* pair is enough.
AskedPairs(pairs) == {[q \in Requests |-> IF q = q1 THEN p[1] ELSE p[2]] : p \in pairs}
RootAsked == {[q \in Requests |-> "root"]}

\* A service over two branches with a common awaiting singleton, and a
\* resource that is a singleton.  Beside them, asked for by requests of their
\* own: a cycle next to the resource, and a dependency that nobody registered
\* next to a plain value.
BranchKeys == {"root", "left", "right", "shared", "res"}
BadKeys == {"top", "res", "knot", "loop", "half", "cfg", "gone"}
ForestKeys == BranchKeys \cup BadKeys
ForestDeps ==
  [root |-> <<"left", "right", "res">>, left |-> <<"shared">>,
   right |-> <<"shared">>, shared |-> <<>>, res |-> <<>>,
   top |-> <<"res", "knot">>, knot |-> <<"loop">>, loop |-> <<"knot">>,
   half |-> <<"cfg", "gone">>, cfg |-> <<>>, gone |-> <<>>]
ForestRegistered == ForestKeys \ {"gone"}
ForestSingletons == {"left", "shared", "res"}
ForestAsync == {"shared", "left"}
ForestAsks ==
  AskedPairs({<<"root", "left">>, <<"left", "left">>, <<"top", "top">>, <<"top", "knot">>,
              <<"top", "half">>, <<"knot", "half">>, <<"half", "half">>})

\* Two branches over a transient with an asynchronous factory.
DiamondKeys == {"root", "left", "right", "shared"}
DiamondDeps == [root |-> <<"left", "right">>, left |-> <<"shared">>,
                right |-> <<"shared">>, shared |-> <<>>]

\* A resource used by a service whose factory awaits.
SessionKeys == {"root", "res", "slow"}
SessionDeps == [root |-> <<"res", "slow">>, res |-> <<>>, slow |-> <<>>]
=============================================================================
