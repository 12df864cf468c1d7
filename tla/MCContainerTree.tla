--------------------------- MODULE MCContainerTree ---------------------------
(* Registrations on which TLC checks ContainerTree. *)
EXTENDS ContainerTree

Rule(k, deps, single_) == [key |-> k, deps |-> deps, single |-> single_]

\* A service over a database, a transient between them, and a rule that
\* closes a cycle.
StackKeys == {"app", "dao", "db"}
StackOffers == {Rule("app", {"dao"}, TRUE), Rule("dao", {"db"}, FALSE),
                Rule("db", {}, TRUE), Rule("db", {"app"}, TRUE)}

\* How many registrations each container accepts.
Mostly == [parent |-> 3, child |-> 1]
Few == [parent |-> 2, child |-> 1]

\* A service over a database.
PairKeys == {"app", "db"}
PairOffers == {Rule("app", {"db"}, TRUE), Rule("db", {}, TRUE)}
=============================================================================
