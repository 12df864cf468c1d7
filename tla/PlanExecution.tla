---------------------------- MODULE PlanExecution ----------------------------
(***************************************************************************)
(* What Container.compile computes, and what the plan then returns.        *)
(*                                                                         *)
(* A plan resolves a key in one of three ways: through a resolver built    *)
(* beforehand (composed makers, or a flattened expression over a prelude   *)
(* of singletons), by interpreting the list of nodes up to the key, or     *)
(* through Container.get.  All of them read and write the container's      *)
(* singleton cache.  One caller uses the container and its plans; threads  *)
(* are the subject of SingletonResolution.                                 *)
(*                                                                         *)
(* An instance is a term: its key, a number, and what its factory was      *)
(* given.  Instances of singletons are numbered from 1; 0 is any instance  *)
(* of another service, -1 the value of an override, and -2 the text that   *)
(* repr gives for the instance in its args.                                *)
(***************************************************************************)
EXTENDS Integers, SequencesExt

CONSTANTS
  Keys,          \* 1..n: a key is the rank of its repr, which orders the plan
  RuleSets,      \* the rules a container may have been built with
  OverrideSets,  \* sets of keys that are overridden together
  MaxLayers,     \* bound: override contexts open at the same time
  MaxFreezes,    \* bound: plans compiled with their singletons built
  Literals,      \* keys whose factories return strings, numbers, booleans or None
  NoObj

\* "custom": one that was added to LifetimePolicy.known; nothing caches it.
Lifetimes == {"singleton", "transient", "custom"}
Modes == {"live", "frozen", "guardless"}

ASSUME RuleAssumption ==
  /\ \A r \in RuleSets :
       /\ r.deps \in [Keys -> Seq(Keys)] /\ r.life \in [Keys -> Lifetimes]
       /\ r.yields \subseteq Keys
       /\ \A S \in SUBSET Keys \ {{}} : \E k \in S : ToSet(r.deps[k]) \cap S = {}
  /\ OverrideSets \subseteq SUBSET Keys
  /\ MaxLayers \in Nat /\ MaxFreezes \in Nat /\ Literals \subseteq Keys

VARIABLES
  rules,    \* the dependencies, lifetimes and yield providers, fixed
  single,   \* Container.single
  layers,   \* the container's override layers
  tracer,   \* a tracer is attached to the container
  plans,    \* the modes in which a plan was compiled
  cell,     \* the memo cells in the resolvers of the live plan
  const,    \* the singletons that a frozen or guardless plan has built
  made,     \* history: instances of each singleton that factories produced
  freezes   \* how many plans were frozen

vars == <<rules, single, layers, tracer, plans, cell, const, made, freezes>>

NoValues == [k \in Keys |-> NoObj]

RECURSIVE IsInstance(_)
IsInstance(v) ==
  /\ v.key \in Keys /\ v.n \in -1..made[v.key]
  /\ \A i \in DOMAIN v.args : IsInstance(v.args[i])
IsCache(c) == \A k \in DOMAIN c : c[k] # NoObj => IsInstance(c[k]) /\ c[k].key = k /\ c[k].n > 0

TypeOK ==
  /\ rules \in RuleSets
  /\ IsCache(single) /\ \A m \in {"flat", "maker"} : IsCache(cell[m])
  /\ layers \in Seq(OverrideSets)
  /\ tracer \in BOOLEAN
  /\ plans \subseteq Modes
  /\ \A p \in Modes \ {"live"} : IsCache(const[p])
  /\ made \in [Keys -> Nat]
  /\ freezes \in 0..MaxFreezes

Init ==
  /\ rules \in RuleSets
  /\ single = NoValues
  /\ layers = <<>>
  /\ tracer = FALSE
  /\ plans = {}
  /\ cell = [m \in {"flat", "maker"} |-> NoValues]
  /\ const = [p \in Modes \ {"live"} |-> NoValues]
  /\ made = [k \in Keys |-> 0]
  /\ freezes = 0

-----------------------------------------------------------------------------
(* The graph *)

Deps(k) == rules.deps[k]
IsSingle(k) == rules.life[k] = "singleton"
Yields(k) == k \in rules.yields

\* Keys reachable from k through dependencies, k included.
Reach ==
  [r \in RuleSets |-> [k \in Keys |->
    {j \in Keys : \A S \in SUBSET Keys :
       (k \in S /\ \A i \in S : ToSet(r.deps[i]) \subseteq S) => j \in S}]]
Closure(k) == Reach[rules][k]

\* Kahn's algorithm; of the keys that are ready, the one with the least name.
Topological ==
  [r \in RuleSets |->
    LET prefix[n \in 0..Cardinality(Keys)] ==
          IF n = 0 THEN <<>>
          ELSE LET before == ToSet(prefix[n - 1])
               IN Append(prefix[n - 1],
                         Min({k \in Keys \ before : ToSet(r.deps[k]) \subseteq before}))
    IN prefix[Cardinality(Keys)]]
Order == Topological[rules]
Position(k) == CHOOSE i \in DOMAIN Order : Order[i] = k

\* Everything below these keys is built inline: no yield provider.
WithResolver == {k \in Keys : \A j \in Closure(k) : ~Yields(j)}
\* And nothing is of a custom lifetime.
Flattened == {k \in WithResolver : \A j \in Closure(k) : rules.life[j] # "custom"}

-----------------------------------------------------------------------------
(* Evaluation: a value, and the state that computing it leaves behind *)

Now == [single |-> single, cell |-> cell, made |-> made]
Out(v, st) == [value |-> v, st |-> st]

\* Evaluate the keys ks from left to right.
Each(eval(_, _), ks, st) ==
  FoldLeft(LAMBDA acc, k : LET r == eval(k, acc.st) IN Out(Append(acc.value, r.value), r.st),
           Out(<<>>, st), ks)

\* "rule.make(*args)".
Make(k, args, st) ==
  LET n == IF IsSingle(k) THEN st.made[k] + 1 ELSE 0
  IN Out([key |-> k, n |-> n, args |-> args], [st EXCEPT !.made[k] = n])

Overridden == UNION ToSet(layers)
OverrideValue(k) == [key |-> k, n |-> -1, args |-> <<>>]

RECURSIVE ContainerGet(_, _)
ContainerGet(k, st) ==
  IF k \in Overridden THEN Out(OverrideValue(k), st)
  ELSE IF st.single[k] # NoObj THEN Out(st.single[k], st)
  ELSE LET args == Each(LAMBDA d, s : ContainerGet(d, s), Deps(k), st)
           obj == Make(k, args.value, args.st)
       IN IF IsSingle(k) THEN Out(obj.value, [obj.st EXCEPT !.single[k] = obj.value]) ELSE obj

-----------------------------------------------------------------------------
(* Resolvers *)

\* _wrap_singleton: the memo cell, the container's cache, or inner; what inner
\* has built is dropped if the cache has an instance by then.
Memo(m, k, st, inner(_)) ==
  IF st.cell[m][k] # NoObj THEN Out(st.cell[m][k], st)
  ELSE IF st.single[k] # NoObj THEN Out(st.single[k], [st EXCEPT !.cell[m][k] = st.single[k]])
  ELSE LET obj == inner(st)
           winner == IF obj.st.single[k] # NoObj THEN obj.st.single[k] ELSE obj.value
       IN Out(winner, [obj.st EXCEPT !.single[k] = winner, !.cell[m][k] = winner])

\* The composed resolver of a node: its factory over the makers of what it
\* depends on; in a frozen plan a singleton is a constant.
RECURSIVE Maker(_, _, _)
Maker(p, k, st) ==
  LET inner(s) == LET args == Each(LAMBDA d, x : Maker(p, d, x), Deps(k), s)
                  IN Make(k, args.value, args.st)
  IN CASE ~IsSingle(k) -> inner(st)
       [] IsSingle(k) /\ p = "live" -> Memo("maker", k, st, inner)
       [] OTHER -> Out(const[p][k], st)

\* Mutant: every singleton of the plan.
PreludeAll(k) == SelectSeq(Order, IsSingle)
\* The singletons of the closure, the root's own included, in plan order.
Prelude(k) == SelectSeq(Order, LAMBDA j : j \in Closure(k) /\ IsSingle(j))

\* An argument of a flattened resolver: an item of the prelude, or the factory
\* of a transient over its own arguments, evaluated wherever it occurs.
RECURSIVE Expr(_, _)
Expr(k, prelude) ==
  IF IsSingle(k) THEN prelude[k]
  ELSE [key |-> k, n |-> 0,
        args |-> [i \in DOMAIN Deps(k) |-> Expr(Deps(k)[i], prelude)]]

\* The prelude, as a function from the keys in it; a root without dependencies
\* fetches none.
Fetch(p, k, st) ==
  LET keys == IF Deps(k) = <<>> THEN <<>> ELSE Prelude(k)
      got == Each(LAMBDA j, s : Maker(p, j, s), keys, st)
  IN Out([j \in ToSet(keys) |-> got.value[CHOOSE i \in DOMAIN keys : keys[i] = j]], got.st)

RootArgs(k, prelude) == [i \in DOMAIN Deps(k) |-> Expr(Deps(k)[i], prelude)]

\* The flattened resolver: the prelude is fetched once, then the root's
\* factory runs over its argument expressions.
Flat(p, k, st) ==
  LET inner(s) == LET f == Fetch(p, k, s) IN Make(k, RootArgs(k, f.value), f.st)
  IN IF IsSingle(k) THEN Memo("flat", k, st, inner) ELSE inner(st)

\* _build_frozen_resolver: factories over one another and the constants of a
\* frozen plan, without a prelude.  It is not built over a transient that
\* several arguments below the root name.
Uses(j, k) == {u \in Closure(k) \X (1..Cardinality(Keys)) :
                 u[2] \in DOMAIN Deps(u[1]) /\ Deps(u[1])[u[2]] = j}
SharesTransient(k) ==
  \E j \in Closure(k) : rules.life[j] = "transient" /\ Cardinality(Uses(j, k)) > 1

Inlined(p, k, st) == Make(k, RootArgs(k, const[p]), st)

\* A frozen plan has the constant of a singleton as its resolver; Maker gives
\* that too.
Resolver(p, k, st) ==
  CASE k \notin Flattened \/ (p # "live" /\ IsSingle(k)) -> Maker(p, k, st)
    [] p # "live" /\ k \in Flattened /\ ~IsSingle(k) /\ ~SharesTransient(k) ->
         Inlined(p, k, st)
    [] OTHER -> Flat(p, k, st)

-----------------------------------------------------------------------------
(* The interpreter of the node list *)

\* Mutant: overrides are not looked at.
AvailableUnlayered(p, k, st) ==
  IF p # "live" THEN IF IsSingle(k) THEN const[p][k] ELSE NoObj ELSE st.single[k]
\* Mutant: the cache is not looked at.
AvailableUncached(p, k, st) ==
  CASE p # "live" -> IF IsSingle(k) THEN const[p][k] ELSE NoObj
    [] p = "live" /\ k \in Overridden -> OverrideValue(k)
    [] OTHER -> NoObj
\* _cached_node: the constant of a frozen plan; else an override, else the cache.
Available(p, k, st) ==
  CASE p # "live" -> IF IsSingle(k) THEN const[p][k] ELSE NoObj
    [] p = "live" /\ k \in Overridden -> OverrideValue(k)
    [] OTHER -> st.single[k]

\* Mutant: the value of an override is cached as well.
NodeCachingOverrides(p, run, k) ==
  LET found == Available(p, k, run.st)
      obj == Make(k, [i \in DOMAIN Deps(k) |-> run.at[Deps(k)[i]]], run.st)
      v == IF found # NoObj THEN found ELSE obj.value
  IN [run EXCEPT !.at[k] = v, !.value = v,
        !.st = IF IsSingle(k) /\ p = "live"
               THEN [IF found # NoObj THEN run.st ELSE obj.st EXCEPT !.single[k] = v]
               ELSE run.st]
\* One node: available, or delegated to the container, which ends the run with
\* the value of that node, or built from the nodes before it.
Node(p, run, k) ==
  LET found == Available(p, k, run.st)
      delegated == ContainerGet(k, run.st)
      obj == Make(k, [i \in DOMAIN Deps(k) |-> run.at[Deps(k)[i]]], run.st)
  IN CASE run.ended -> run
       [] ~run.ended /\ found # NoObj -> [run EXCEPT !.at[k] = found, !.value = found]
       [] ~run.ended /\ found = NoObj /\ Yields(k) ->
            [run EXCEPT !.ended = TRUE, !.value = delegated.value, !.st = delegated.st]
       [] OTHER ->
            [run EXCEPT !.at[k] = obj.value, !.value = obj.value,
                        !.st = IF IsSingle(k) THEN [obj.st EXCEPT !.single[k] = obj.value]
                               ELSE obj.st]

\* Every node up to k, needed or not.
Interpret(p, k, st) ==
  LET upTo == SubSeq(Order, 1, Position(k))
      run == FoldLeft(LAMBDA acc, j : Node(p, acc, j),
                      [at |-> NoValues, st |-> st, value |-> NoObj, ended |-> FALSE], upTo)
  IN Out(run.value, run.st)

\* The resolver is used, unless there is none or, in a live plan, an override
\* or a tracer must be seen.  A bound resolver decides the same at each call.
Direct(p, k) == k \in WithResolver /\ (p = "live" => layers = <<>> /\ ~tracer)
PlanGet(p, k, st) == IF Direct(p, k) THEN Resolver(p, k, st) ELSE Interpret(p, k, st)

-----------------------------------------------------------------------------
(* Actions *)

Becomes(st) == single' = st.single /\ cell' = st.cell /\ made' = st.made

Get(k) ==
  /\ Becomes(ContainerGet(k, Now).st)
  /\ UNCHANGED <<rules, layers, tracer, plans, const, freezes>>

UsePlan(p, k) ==
  /\ p \in plans
  /\ Becomes(PlanGet(p, k, Now).st)
  /\ UNCHANGED <<rules, layers, tracer, plans, const, freezes>>

Compile ==
  /\ plans' = plans \cup {"live"}
  /\ cell' = [m \in {"flat", "maker"} |-> NoValues]
  /\ UNCHANGED <<rules, single, layers, tracer, const, made, freezes>>

\* Mutant: a singleton that the container has keeps its instance there.
InstalledIfNew(built) ==
  [k \in Keys |-> IF single[k] # NoObj THEN single[k] ELSE built[k]]
\* "container.single.update(frozen)".
Installed(built) == [k \in Keys |-> IF IsSingle(k) THEN built[k] ELSE single[k]]

\* Compile with allow_post_compile_overrides=False, which active overrides
\* refuse, or with guardless=True.  Every singleton is built anew, over
\* singletons only (another dependency is a KeyError and nothing changes), and
\* replaces the one in the container.
Freeze(p) ==
  /\ p = "frozen" => layers = <<>>
  /\ \A k \in Keys : IsSingle(k) => \A d \in ToSet(Deps(k)) : IsSingle(d)
  /\ freezes < MaxFreezes /\ freezes' = freezes + 1
  /\ LET built ==
           FoldLeft(LAMBDA acc, k :
                      LET obj == Make(k, [i \in DOMAIN Deps(k) |-> acc.value[Deps(k)[i]]], acc.st)
                      IN Out([acc.value EXCEPT ![k] = obj.value], obj.st),
                    Out(NoValues, Now), SelectSeq(Order, IsSingle))
     IN /\ const' = [const EXCEPT ![p] = built.value]
        /\ single' = Installed(built.value)
        /\ made' = built.st.made
  /\ plans' = plans \cup {p}
  /\ UNCHANGED <<rules, layers, tracer, cell>>

\* Mutant: a frozen plan does not refuse overrides.
EnterOverrideAnyway(S) ==
  /\ Len(layers) < MaxLayers
  /\ layers' = Append(layers, S)
  /\ UNCHANGED <<rules, single, tracer, plans, cell, const, made, freezes>>
\* OverrideLayer.__init__: refused once a plan was frozen.
EnterOverride(S) ==
  /\ Len(layers) < MaxLayers
  /\ plans \subseteq {"live"}
  /\ layers' = Append(layers, S)
  /\ UNCHANGED <<rules, single, tracer, plans, cell, const, made, freezes>>

ExitOverride ==
  /\ layers # <<>>
  /\ layers' = Front(layers)
  /\ UNCHANGED <<rules, single, tracer, plans, cell, const, made, freezes>>

\* Mutant: singletons that nobody has asked for yet are not in the snapshot.
SnapshotOfCache(p) == Out(single, Now)
\* _singleton_snapshot: the container's cache, a frozen plan's constants before
\* it, and what Container.get returns for the singletons in neither.
Snapshot(p) ==
  LET known == [k \in Keys |-> IF p # "live" /\ IsSingle(k) THEN const[p][k] ELSE single[k]]
  IN FoldLeft(LAMBDA acc, k : LET r == ContainerGet(k, acc.st)
                              IN Out([acc.value EXCEPT ![k] = r.value], r.st),
              Out(known, Now), SelectSeq(Order, LAMBDA k : IsSingle(k) /\ known[k] = NoObj))

\* Writing a plan builds the singletons that nobody has asked for.
Serialize(p) ==
  /\ p \in plans
  /\ Becomes(Snapshot(p).st)
  /\ UNCHANGED <<rules, layers, tracer, plans, const, freezes>>

\* "{"__repr__": repr(value)}".
AsText(v) == [key |-> v.key, n |-> -2, args |-> <<v>>]
\* Mutant: literals are written as text too.
RereadAsText(k, v) == AsText(v)
\* What is read for the value v of k that was written: a literal is itself, of
\* anything else only the text is left.
Reread(k, v) == IF k \in Literals THEN v ELSE AsText(v)

\* A plan that was read again has no container and no factories:
\* _resolve_static finds every node up to k among the recorded singletons, or
\* raises ServiceNotFoundError, here NoObj.
RestoredGet(recorded, k) ==
  LET upTo == {Order[i] : i \in 1..Position(k)}
  IN IF \E j \in upTo : ~IsSingle(j) \/ recorded[j] = NoObj THEN NoObj
     ELSE Reread(k, recorded[k])

SetTracer ==
  /\ tracer' = ~tracer
  /\ UNCHANGED <<rules, single, layers, plans, cell, const, made, freezes>>

Next ==
  \/ \E k \in Keys : Get(k)
  \/ \E p \in Modes, k \in Keys : UsePlan(p, k)
  \/ Compile
  \/ \E p \in Modes \ {"live"} : Freeze(p)
  \/ \E S \in OverrideSets : EnterOverride(S)
  \/ ExitOverride
  \/ SetTracer
  \/ \E p \in Modes : Serialize(p)

Spec == Init /\ [][Next]_vars
-----------------------------------------------------------------------------
(* Properties *)

\* All that an instance was made of, itself included.
RECURSIVE Parts(_)
Parts(v) == {v} \cup UNION {Parts(v.args[i]) : i \in DOMAIN v.args}

\* Two evaluations in one state are compared up to the numbers of the
\* instances that they would create.
RECURSIVE Shape(_)
Shape(v) == [key |-> v.key, n |-> IF v.n > made[v.key] THEN 0 ELSE v.n,
             args |-> [i \in DOMAIN v.args |-> Shape(v.args[i])]]

\* Nothing was frozen since the plan was compiled or its memos were filled.
Current(p) ==
  \A k \in Keys :
    IF p = "live" THEN \A m \in {"flat", "maker"} : cell[m][k] \in {NoObj, single[k]}
    ELSE IsSingle(k) => const[p][k] = single[k]

\* The interpreter meets a yield provider before it comes to k.
Blocked(p, k) ==
  /\ ~Direct(p, k)
  /\ \E j \in Keys \ {k} :
       /\ Yields(j) /\ Available(p, j, Now) = NoObj
       /\ Position(j) < Position(k)

\* A plan returns what Container.get would return: the same instances of the
\* singletons there are, and otherwise the same factories over the same
\* arguments, overrides and tracing included.  A frozen plan reads no overrides,
\* and yet no sequence of compilations and overrides may let it serve a container
\* that has one.  Left out are plans that a later freeze has made stale, guardless
\* plans under overrides, which they are meant not to see, and keys behind a node
\* that the interpreter delegates.  A plan that is written and read again gives,
\* whatever had been resolved by then, the literal that Container.get would
\* return or else the text of what it would return, and finds every key that has
\* only singletons up to it in the plan.
PlanAgrees ==
  /\ \A p \in plans, k \in Keys :
       Current(p) /\ ~Blocked(p, k) /\ (p # "guardless" \/ layers = <<>>)
         => Shape(PlanGet(p, k, Now).value) = Shape(ContainerGet(k, Now).value)
  /\ \A p \in plans, k \in Keys :
       Current(p) /\ layers = <<>> =>
         LET restored == RestoredGet(Snapshot(p).value, k)
             live == ContainerGet(k, Now).value
         IN IF \A j \in Keys : Position(j) <= Position(k) => IsSingle(j)
            THEN restored # NoObj
                 /\ Shape(restored) = Shape(IF k \in Literals THEN live ELSE AsText(live))
            ELSE restored = NoObj

\* The cached singletons are made of one another: none holds an instance of a
\* singleton that is not the cached one, whichever of container, resolvers,
\* interpreter and freezing built them, and in whatever order.
CacheConsistent ==
  \A k \in Keys : single[k] # NoObj =>
    \A v \in Parts(single[k]) : v.n > 0 => v = single[v.key]

\* A resolver caches all that Container.get would have cached, and nothing
\* that its key does not need.  The interpreter caches every singleton that
\* comes in the plan before its key, needed or not, unless that is overridden or
\* it meets a node it delegates, and none that comes after.
CachesItsClosure ==
  [][\A p \in Modes, k \in Keys :
       /\ UsePlan(p, k) /\ Direct(p, k) =>
            /\ \A j \in Keys : ContainerGet(k, Now).st.single[j] # NoObj => single'[j] # NoObj
            /\ \A j \in Keys \ Closure(k) : single'[j] = single[j]
       /\ UsePlan(p, k) /\ ~Direct(p, k) =>
            \A j \in Keys :
              IF Position(j) > Position(k) THEN single'[j] = single[j]
              ELSE p = "live" /\ IsSingle(j) /\ j \notin Overridden /\ ~Blocked(p, k)
                     => single'[j] # NoObj]_vars

\* Once cached, an instance is only ever replaced by freezing a plan.
ReplacedByFreezing ==
  [][freezes' = freezes => \A k \in Keys : single[k] # NoObj => single'[k] = single[k]]_vars

\* A plan resolves the key it is asked for.
PlanGivesKey == \A p \in plans, k \in Keys : PlanGet(p, k, Now).value.key = k
=============================================================================
