--------------------------- MODULE ResolutionOrder ---------------------------
(***************************************************************************)
(* The orders in which resolution policies have a container resolve keys   *)
(* (resolution.py).  A graph g maps each registered key to the sequence of *)
(* its declared dependencies; other keys may occur as dependencies.        *)
(*                                                                         *)
(* A policy's order is given as a sequence of batches, sets of keys that   *)
(* are resolved one after the other in any order: one key each, but for    *)
(* ParallelPolicy, whose levels Python keeps as sets.                      *)
(***************************************************************************)
EXTENDS Integers, SequencesExt

DepsOf(g, k) == IF k \in DOMAIN g THEN g[k] ELSE <<>>
Needs(g, k) == ToSet(DepsOf(g, k))
\* How often k declares dependencies on the keys of S.
Declares(g, k, S) == Cardinality({i \in DOMAIN DepsOf(g, k) : DepsOf(g, k)[i] \in S})

\* The members of S among the items of s, as they stand there.
Keep(s, S) ==
  LET Kept[n \in 0..Len(s)] ==
        IF n = 0 THEN <<>>
        ELSE IF s[n] \in S THEN Append(Kept[n - 1], s[n]) ELSE Kept[n - 1]
  IN Kept[Len(s)]

\* The stack of the depth-first search takes the last dependency first.
Visit(g, s) ==
  IF s.stack = <<>> THEN s
  ELSE LET k == Last(s.stack)
       IN IF k \in ToSet(s.seen) THEN [s EXCEPT !.stack = Front(@)]
          ELSE [seen |-> Append(s.seen, k), stack |-> Front(s.stack) \o DepsOf(g, k)]
\* The root is popped once, and so is whatever a declaration pushes.
Pushes(g, S) == UNION {{k} \X DOMAIN g[k] : k \in S \cap DOMAIN g}
Reachable(g, root) ==
  LET pops == 1 + Cardinality(Pushes(g, DOMAIN g))
      Walk[n \in 0..pops] ==
        IF n = 0 THEN [seen |-> <<>>, stack |-> <<root>>] ELSE Visit(g, Walk[n - 1])
  IN Walk[pops].seen

\* Kahn's algorithm with a queue: the first key that is ready goes out, and
\* those that waited for it alone line up.
Release(g, scope, s) ==
  IF s.ready = <<>> THEN s
  ELSE LET node == Head(s.ready)
           left == [k \in ToSet(scope) |-> s.indegree[k] - Declares(g, k, {node})]
       IN [order |-> Append(s.order, node), indegree |-> left,
           ready |-> Tail(s.ready)
                       \o Keep(scope, {k \in ToSet(scope) : left[k] = 0 /\ s.indegree[k] > 0})]
\* Mutant: the search's own order, which is no topological one, is used.
TopologicalUnsorted(g, scope) == Reverse(scope)
\* Keys that wait for one another come last, as they stood.
Topological(g, scope) ==
  LET indegree == [k \in ToSet(scope) |-> Declares(g, k, ToSet(scope))]
      Kahn[n \in 0..Len(scope)] ==
        IF n = 0
        THEN [order |-> <<>>, indegree |-> indegree,
              ready |-> Keep(scope, {k \in ToSet(scope) : indegree[k] = 0})]
        ELSE Release(g, scope, Kahn[n - 1])
      order == Kahn[Len(scope)].order
  IN order \o Keep(scope, ToSet(scope) \ ToSet(order))

\* Container._independent_levels: a level is what depends on earlier levels
\* only.  Keys that wait for one another are in no level.
Levels(g, keys) ==
  LET L[n \in 0..Cardinality(keys)] ==
        IF n = 0 THEN {} ELSE {k \in keys : Needs(g, k) \subseteq L[n - 1]}
      level == [n \in 1..Cardinality(keys) |-> L[n] \ L[n - 1]]
  IN Keep(level, (SUBSET keys) \ {{}})

OneByOne(s) == [i \in DOMAIN s |-> {s[i]}]

\* policy.order(graph, root), with the split into levels that the container
\* makes for ParallelPolicy.  "listed" is the order of registration.
Batches(policy, g, listed, root) ==
  CASE policy \in {"none", "lazy"} -> <<{root}>>
    [] policy = "children" -> OneByOne(Topological(g, Reachable(g, root)))
    [] policy = "parent" -> OneByOne(Reverse(Topological(g, Reachable(g, root))))
    [] policy = "eager" -> OneByOne(Topological(g, listed))
    [] policy = "parallel" -> Levels(g, ToSet(Topological(g, Reachable(g, root))))
-----------------------------------------------------------------------------
(* What an order has to be *)

\* Chains of dependencies, k included, by a definition of its own.
Below(g, keys, k) ==
  LET Chain[n \in 0..Cardinality(keys)] ==
        IF n = 0 THEN {k} ELSE UNION {{j} \cup Needs(g, j) : j \in Chain[n - 1]}
  IN Chain[Cardinality(keys)]
\* k waits for a cycle: something below it is below one of its own dependencies.
Stuck(g, keys, k) ==
  \E j \in Below(g, keys, k) : \E d \in Needs(g, j) : j \in Below(g, keys, d)

\* What the policy has to resolve for the root.
Covered(policy, g, keys, root) ==
  CASE policy \in {"none", "lazy"} -> {root}
    [] policy \in {"children", "parent"} -> Below(g, keys, root)
    [] policy = "eager" -> DOMAIN g
    [] policy = "parallel" -> {k \in Below(g, keys, root) : ~Stuck(g, keys, k)}

\* The batches hold what they have to, each key once, and no key that can be
\* resolved stands before (for "parent": after) one of its dependencies.
SoundOrder(policy, g, keys, root, batches) ==
  /\ UNION ToSet(batches) = Covered(policy, g, keys, root)
  /\ \A i, j \in DOMAIN batches :
       /\ i # j => batches[i] \cap batches[j] = {}
       /\ \A k \in batches[i], d \in batches[j] :
            d \in Needs(g, k) /\ ~Stuck(g, keys, k)
              => IF policy = "parent" THEN i < j ELSE j < i
=============================================================================
