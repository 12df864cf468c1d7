----------------------------- MODULE MCDevLayers -----------------------------
(* Containers on which TLC checks DevLayers. *)
EXTENDS DevLayers

CONSTANTS t1, t2

\* A service with a transient dependency, a nested part, and a singleton that
\* it has nothing to do with.
AppKeys == {"app", "dep", "part", "other"}
AppDeps == [app |-> <<"dep">>, dep |-> <<>>, part |-> <<>>, other |-> <<>>]
AppListed == <<"app", "dep", "part", "other">>

None == [k \in AppKeys |-> <<>>]
App(seq) == [None EXCEPT !["app"] = seq]
Plain ==
  [layers |-> {}, policy |-> "none", deps |-> AppDeps, listed |-> AppListed,
   singletons |-> {"app", "other"}, faulty |-> FALSE, window |-> 2, max |-> 1,
   countHits |-> FALSE, ignored |-> {}, before |-> None, after |-> None, nested |-> None,
   asked |-> {"app"}, calls |-> 0]

\* The limiter alone, on singletons that are counted once built or not, and on
\* transients.
Limited ==
  {[Plain EXCEPT !.layers = {"limit"}, !.countHits = TRUE, !.max = m, !.calls = 5] : m \in 1..2}
  \cup {[Plain EXCEPT !.layers = {"limit"}, !.asked = {"app", "dep"}, !.ignored = i, !.calls = 3] :
          i \in {{}, {"app"}}}

\* The guard alone, with the nested part resolved before, after, and compared.
Guarded ==
  {[Plain EXCEPT !.layers = {"guard"}, !.faulty = TRUE, !.before = App(b), !.after = App(a),
                 !.nested = App(n), !.asked = {"app", "part"}, !.calls = 4] :
     b \in {<<>>, <<"part">>}, a \in {<<>>}, n \in {<<>>, <<"part">>}}
  \cup {[Plain EXCEPT !.layers = {"guard"}, !.after = App(<<"part">>), !.calls = 3]}

\* A policy alone, and below both layers.
Ordered ==
  {[Plain EXCEPT !.policy = p, !.faulty = TRUE, !.calls = 3] :
     p \in {"lazy", "children", "parent", "eager", "parallel"}}
  \cup {[Plain EXCEPT !.policy = "eager", !.calls = 3, !.asked = {"app", "dep"}]}
Stacked ==
  {[Plain EXCEPT !.layers = {"limit", "guard"}, !.policy = "eager", !.calls = 3]}

\* Every graph of three services, with and without a rule for the third, for
\* the orders alone.
Three == {"app", "dep", "part"}
DepLists == {<<>>, <<"app">>, <<"dep">>, <<"part">>, <<"app", "dep">>, <<"dep", "part">>,
             <<"part", "app">>, <<"part", "dep">>, <<"dep", "app", "dep">>}
Shapes ==
  {[Plain EXCEPT !.policy = p, !.deps = g, !.listed = l, !.singletons = {}] :
     p \in {"children", "parent", "eager", "parallel"}, l \in {<<"part", "app", "dep">>},
     g \in [Three -> DepLists]}
  \cup
  {[Plain EXCEPT !.policy = p, !.deps = g, !.listed = l, !.singletons = {}] :
     p \in {"children", "parent", "eager", "parallel"}, l \in {<<"dep", "app">>},
     g \in [{"app", "dep"} -> DepLists]}

AllSetups == Limited \cup Guarded \cup Ordered \cup Stacked \cup Shapes

Symmetry == Permutations(Threads)
=============================================================================
