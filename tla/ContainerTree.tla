---------------------------- MODULE ContainerTree ----------------------------
(***************************************************************************)
(* A container and a child container created from it (Container.           *)
(* create_child): rules registered on either, the child's cached view of   *)
(* the merged rules (CompositeRuleSet), the two singleton caches that are  *)
(* shared key by key (_ChildSingletonCache), and overrides.                *)
(*                                                                         *)
(* The application calls the two containers in any order, one call at a    *)
(* time; a call is one step.  Threads are the subject of                   *)
(* SingletonResolution, tasks that of AsyncResolution.                     *)
(***************************************************************************)
EXTENDS Integers, SequencesExt

CONSTANTS
  Keys,
  Offers,       \* rules the application may register: [key, deps, single]
  OverrideSets, \* sets of keys it may override together
  DeferCycleCheck, \* the parent was built with check_cycles_on_register=False
  MaxVersion,   \* bound: MaxVersion[c], the registrations accepted on c
  MaxLayers,    \* bound: override contexts open on each container
  NoRule, NoObj, NoView

ASSUME TreeAssumption ==
  /\ \A r \in Offers : r.key \in Keys /\ r.deps \subseteq Keys /\ r.single \in BOOLEAN
  /\ OverrideSets \subseteq SUBSET Keys
  /\ DeferCycleCheck \in BOOLEAN
  /\ MaxVersion \in [{"parent", "child"} -> Nat] /\ MaxLayers \in Nat
  /\ NoRule \notin Offers

VARIABLES
  own,      \* own[c][k]: the rule container c holds for k in its own layer
  version,  \* version[c]: the counter add increments
  mapView,  \* CompositeRuleSet.map_cache
  graphView,  \* CompositeRuleSet.graph_cache
  seen,     \* CompositeRuleSet.parent_version_seen, one for both views
  single,   \* single[c][k]: what container c's own cache holds
  layers,   \* layers[c]: the override layers, as sets of keys
  made,     \* history: instances of each singleton that factories produced
  handed,   \* history: handed[c][k], the instances c returned for k
  accepted  \* history: rules whose registration on either was accepted

vars == <<own, version, mapView, graphView, seen, single, layers, made, handed, accepted>>

Containers == {"parent", "child"}
Origins == Containers \cup {"override"}
\* An instance, and whose rules and values made all that it was built from.
Obj == [key : Keys, n : Nat \ {0}, from : SUBSET Origins]
ASSUME NoObjAssumption == NoObj \notin Obj

TypeOK ==
  /\ own \in [Containers -> [Keys -> Offers \cup {NoRule}]]
  /\ \A c \in Containers : version[c] \in 0..MaxVersion[c]
  /\ mapView \in [Keys -> Offers \cup {NoRule}] \cup {NoView}
  /\ graphView \in [Keys -> SUBSET Keys] \cup {NoView}
  /\ seen \in -1..MaxVersion["parent"]
  /\ single \in [Containers -> [Keys -> Obj \cup {NoObj}]]
  /\ layers \in [Containers -> Seq(OverrideSets)]
  /\ made \in [Keys -> Nat]
  /\ handed \in [Containers -> [Keys -> SUBSET Obj]]
  /\ accepted \subseteq Offers

Init ==
  /\ own = [c \in Containers |-> [k \in Keys |-> NoRule]]
  /\ version = [c \in Containers |-> 0]
  /\ mapView = NoView
  /\ graphView = NoView
  /\ seen = -1
  /\ single = [c \in Containers |-> [k \in Keys |-> NoObj]]
  /\ layers = [c \in Containers |-> <<>>]
  /\ made = [k \in Keys |-> 0]
  /\ handed = [c \in Containers |-> [k \in Keys |-> {}]]
  /\ accepted = {}

-----------------------------------------------------------------------------
(* Rules and graphs *)

\* Keys reachable through the edges E from the keys S, S included.
Reach(E, S) ==
  {j \in Keys : \A T \in SUBSET Keys :
     (S \subseteq T /\ \A i \in T \cap Keys : E[i] \subseteq T) => j \in T}
OnCycle(E, k) == k \in Reach(E, E[k])

DepsIn(rs, k) == IF rs[k] = NoRule THEN {} ELSE rs[k].deps
Graph(rs) == [k \in Keys |-> DepsIn(rs, k)]

\* _dfs_no_cycle raises: a cycle can be reached from start through keys that
\* are known.
FindsCycle(rs, graph, start) ==
  LET E == [k \in Keys |-> {d \in graph[k] : rs[d] # NoRule}]
  IN \E j \in Reach(E, {start}) : OnCycle(E, j)

Overlay(local, base) == [k \in Keys |-> IF local[k] # NoRule THEN local[k] ELSE base[k]]
Merged == Overlay(own["child"], own["parent"])

\* The views are rebuilt when they were dropped or when the parent's version
\* is not the one last seen; whichever is read first marks it as seen.
MapRead == IF mapView = NoView \/ seen # version["parent"] THEN Merged ELSE mapView
GraphRead ==
  IF graphView = NoView \/ seen # version["parent"] THEN Graph(Merged) ELSE graphView
GraphReadAfterMap == IF graphView = NoView THEN Graph(Merged) ELSE graphView

-----------------------------------------------------------------------------
(* Registration: Container.value and service, RuleSet.add *)

RegisterOnParent(r) ==
  /\ version["parent"] < MaxVersion["parent"]
  /\ LET new == [own["parent"] EXCEPT ![r.key] = r]
     IN /\ DeferCycleCheck \/ ~FindsCycle(new, Graph(new), r.key)
        /\ own' = [own EXCEPT !["parent"] = new]
  /\ version' = [version EXCEPT !["parent"] = @ + 1]
  /\ accepted' = accepted \cup {r}
  /\ UNCHANGED <<mapView, graphView, seen, single, layers, made, handed>>

\* Mutant: the child's views are dropped when the rule is rejected only.
RegisterOnChildKeepingViews(r) ==
  /\ version["child"] < MaxVersion["child"]
  /\ LET new == [own["child"] EXCEPT ![r.key] = r]
         merged == Overlay(new, own["parent"])
     IN IF FindsCycle(merged, Graph(merged), r.key)
        THEN /\ mapView' = NoView /\ graphView' = NoView
             /\ UNCHANGED <<own, version, seen, accepted>>
        ELSE /\ own' = [own EXCEPT !["child"] = new]
             /\ version' = [version EXCEPT !["child"] = @ + 1]
             /\ mapView' = MapRead /\ graphView' = GraphReadAfterMap
             /\ seen' = version["parent"]
             /\ accepted' = accepted \cup {r}
  /\ UNCHANGED <<single, layers, made, handed>>

\* Mutant: the views that the cycle check built survive a rejection.
RegisterOnChildKeepingRejected(r) ==
  /\ version["child"] < MaxVersion["child"]
  /\ LET new == [own["child"] EXCEPT ![r.key] = r]
         merged == Overlay(new, own["parent"])
     IN /\ mapView' = merged /\ graphView' = Graph(merged)
        /\ seen' = version["parent"]
        /\ IF FindsCycle(merged, Graph(merged), r.key)
           THEN UNCHANGED <<own, version, accepted>>
           ELSE /\ own' = [own EXCEPT !["child"] = new]
                /\ version' = [version EXCEPT !["child"] = @ + 1]
                /\ accepted' = accepted \cup {r}
  /\ UNCHANGED <<single, layers, made, handed>>

\* The child drops its views, and the cycle check builds them again from the
\* layer with the new rule.  A rejected rule is taken back and the views with
\* it.
RegisterOnChild(r) ==
  /\ version["child"] < MaxVersion["child"]
  /\ LET new == [own["child"] EXCEPT ![r.key] = r]
         merged == Overlay(new, own["parent"])
     IN IF FindsCycle(merged, Graph(merged), r.key)
        THEN /\ mapView' = NoView /\ graphView' = NoView
             /\ UNCHANGED <<own, version, accepted>>
        ELSE /\ mapView' = merged /\ graphView' = Graph(merged)
             /\ own' = [own EXCEPT !["child"] = new]
             /\ version' = [version EXCEPT !["child"] = @ + 1]
             /\ accepted' = accepted \cup {r}
  /\ seen' = version["parent"]
  /\ UNCHANGED <<single, layers, made, handed>>

-----------------------------------------------------------------------------
(* Overrides *)

\* Every key must have a rule.
EnterOverride(c, S) ==
  /\ Len(layers[c]) < MaxLayers
  /\ \A k \in S : (IF c = "child" THEN MapRead ELSE own["parent"])[k] # NoRule
  /\ layers' = [layers EXCEPT ![c] = Append(@, S)]
  /\ IF c = "child" THEN mapView' = MapRead /\ seen' = version["parent"]
     ELSE UNCHANGED <<mapView, seen>>
  /\ UNCHANGED <<own, version, graphView, single, made, handed, accepted>>

\* The exit of any open context pops the last layer.
ExitOverride(c) ==
  /\ layers[c] # <<>>
  /\ layers' = [layers EXCEPT ![c] = Front(@)]
  /\ UNCHANGED <<own, version, mapView, graphView, seen, single, made, handed, accepted>>

Overridden(c) == UNION ToSet(layers[c])

-----------------------------------------------------------------------------
(* Resolution: get and aget *)

IsLocal(k) == own["child"][k] # NoRule
Layer(c, k) == IF c = "child" /\ IsLocal(k) THEN "child" ELSE "parent"

\* Mutant: the child looks into its own cache only.
CachedOwn(c, k) == single[c][k]

\* "lookup in self.single": the child falls through to the parent's cache for
\* keys it has no rule of its own for.
Cached(c, k) ==
  IF c = "parent" \/ single["child"][k] # NoObj THEN single[c][k]
  ELSE IF IsLocal(k) THEN NoObj ELSE single["parent"][k]

\* Mutant: the cache is read without looking whether it has the key.
HitUnchecked(c, k) ==
  /\ k \notin Overridden(c)
  /\ handed' = [handed EXCEPT ![c][k] = @ \cup {Cached(c, k)}]
  /\ UNCHANGED <<own, version, mapView, graphView, seen, single, layers, made, accepted>>

Hit(c, k) ==
  /\ k \notin Overridden(c) /\ Cached(c, k) # NoObj
  /\ handed' = [handed EXCEPT ![c][k] = @ \cup {Cached(c, k)}]
  /\ UNCHANGED <<own, version, mapView, graphView, seen, single, layers, made, accepted>>

Stops(c, k) == k \in Overridden(c) \/ Cached(c, k) # NoObj

\* Where the child reads the rules: its view of the map for get; for aget of a
\* service with dependencies its view of the graph after that.
RulesOf(c) == IF c = "child" THEN MapRead ELSE own["parent"]
GraphOf(c) == IF c = "child" THEN GraphReadAfterMap ELSE Graph(own["parent"])
ReadViews(c, k, mode) ==
  IF c = "child"
  THEN /\ mapView' = MapRead
       /\ graphView' = IF mode = "aget" /\ DepsIn(MapRead, k) # {}
                       THEN GraphReadAfterMap ELSE graphView
       /\ seen' = version["parent"]
  ELSE UNCHANGED <<mapView, graphView, seen>>

\* What must be resolved before the factory of k: its dependencies; for aget
\* all that the levels hold.
Needs(c, mode) ==
  [k \in Keys |->
    IF Stops(c, k) THEN {}
    ELSE IF mode = "get" THEN DepsIn(RulesOf(c), k)
    ELSE Reach(GraphOf(c), DepsIn(RulesOf(c), k))]
Resolvable(c, mode, k) ==
  LET E == Needs(c, mode)
  IN \A j \in Reach(E, {k}) :
       (Stops(c, j) \/ RulesOf(c)[j] # NoRule) /\ ~OnCycle(E, j)

\* The rules and values that k is made of.
Provenance(c, k) ==
  LET E == [j \in Keys |-> IF Stops(c, j) THEN {} ELSE DepsIn(RulesOf(c), j)]
      origin(j) == IF j \in Overridden(c) THEN {"override"}
                   ELSE IF Cached(c, j) # NoObj THEN Cached(c, j).from
                   ELSE {Layer(c, j)}
  IN UNION {origin(j) : j \in Reach(E, {k})}

\* "self.single[lookup] = obj": the child mirrors the keys it has no rule of
\* its own for into the parent's cache.
Cache(c, objs) ==
  single' = [d \in Containers |-> [k \in Keys |->
    IF k \in DOMAIN objs /\ (d = c \/ (c = "child" /\ ~IsLocal(k)))
    THEN objs[k] ELSE single[d][k]]]

\* A miss.  The keys in done are built, each after all it needs.  If k is not
\* among them, the call has failed at a missing rule, at a cycle or in a
\* factory, and what it had cached before that stays cached; the order in
\* which dependencies are tried is abstracted.
Resolve(c, k, mode) ==
  /\ ~Stops(c, k)
  /\ LET E == Needs(c, mode)
         open(j) == {i \in E[j] : ~Stops(c, i)}
     IN \E done \in SUBSET {j \in Reach(E, {k}) : ~Stops(c, j) /\ Resolvable(c, mode, j)} :
          /\ \A j \in done : open(j) \subseteq done
          /\ LET built == {j \in done : RulesOf(c)[j].single}
                 objs == [j \in built |-> [key |-> j, n |-> made[j] + 1, from |-> Provenance(c, j)]]
             IN /\ Cache(c, objs)
                /\ made' = [j \in Keys |-> IF j \in built THEN made[j] + 1 ELSE made[j]]
                /\ handed' = IF k \in built
                             THEN [handed EXCEPT ![c][k] = @ \cup {objs[k]}] ELSE handed
  /\ ReadViews(c, k, mode)
  /\ UNCHANGED <<own, version, layers, accepted>>

\* get_many(parallel=True) on the child computes the levels first, from the
\* graph alone, and then calls aget for the keys.
GetManyLevels ==
  /\ graphView' = GraphRead
  /\ seen' = version["parent"]
  /\ UNCHANGED <<own, version, mapView, single, layers, made, handed, accepted>>

\* Container.validate on the child; what it reports is not kept.
Validate ==
  /\ mapView' = MapRead
  /\ graphView' = IF \A k \in Keys : MapRead[k] = NoRule THEN graphView ELSE GraphReadAfterMap
  /\ seen' = version["parent"]
  /\ UNCHANGED <<own, version, single, layers, made, handed, accepted>>

-----------------------------------------------------------------------------
Next ==
  \/ \E r \in Offers : RegisterOnParent(r)
  \/ \E r \in Offers : RegisterOnChild(r)
  \/ \E c \in Containers, S \in OverrideSets : EnterOverride(c, S)
  \/ \E c \in Containers : ExitOverride(c)
  \/ \E c \in Containers, k \in Keys : Hit(c, k)
  \/ \E c \in Containers, k \in Keys, mode \in {"get", "aget"} : Resolve(c, k, mode)
  \/ GetManyLevels
  \/ Validate

Spec == Init /\ [][Next]_vars
-----------------------------------------------------------------------------
(* Properties *)

\* What the child believes its rules to be never includes a rule whose
\* registration was rejected.
ViewsAccepted ==
  mapView # NoView => \A k \in Keys : mapView[k] \in accepted \cup {NoRule}

\* The child finds its own rules before the parent's, however old its view.
LocalRulesWin ==
  mapView # NoView => \A k \in Keys : IsLocal(k) => mapView[k] = own["child"][k]

\* As long as the child has no rule of its own for a key, both containers
\* return the same instance of it, whichever resolved it first.
SharedIdentity ==
  \A k \in Keys : ~IsLocal(k) =>
    \A o1, o2 \in handed["parent"][k] \cup handed["child"][k] : o1 = o2

\* Rules added to the parent after the child was created stay visible.
ParentRulesVisible ==
  \A k \in Keys : own["parent"][k] # NoRule => MapRead[k] # NoRule

\* Registrations and overrides on the child do not leak into the parent.
ChildStaysOut ==
  \A k \in Keys : \A o \in handed["parent"][k] : "child" \notin o.from
=============================================================================
