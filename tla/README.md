# doppy-di: a TLA+ model of the container

doppy-di is a dependency-injection container for Python. Rules say which factory
builds which service, what it depends on and how long an instance lives
(singleton, scoped, transient). A container resolves services recursively,
synchronously from any number of threads or asynchronously on an event loop,
keeps the instances its lifetimes ask for, and finalizes the resources that
yield providers opened. This directory models that, with what surrounds it
(registration, resolution policies, the development wrappers), checks it with TLC
on small graphs, and proves with TLAPS, for every graph and any number of threads or
requests, what the synchronous and the asynchronous resolution, the scopes, a parent with
its child, the registration of rules and the development wrappers have to keep.

Line numbers below are those of `src/src/doppy_di/...`; `PROJECT.json` has, under
"map", the lines each definition stands for.

## The system

| Component | State | Operations | Interacts with |
|---|---|---|---|
| Container, synchronous (`container.py` 1707-1985) | `single`, the singleton cache; `lock`, re-entrant; the resolution path in a context variable | `get` and its helpers | rules, overrides, policies, plans |
| ExecutionPlan (`plan.py`) | node list in topological order; a resolver per synchronous key, each with memo cells; frozen values | `compile`, `get`, `freeze` | reads and writes `single` and takes `lock` of its container |
| Container, asynchronous (`container.py` 1987-2285) | the same cache and path, and one list of exit stacks per request | `aget`, `get_many(parallel=True)` | gathers its own calls, level by level |
| Scope, AsyncScope (`container.py` 1185-1449, 2432-2479) | instance cache, context values, exit stacks, depth, the resolver active before | `enter`, `exit`, `get`, `aget`, `close` | one object per name under `ScopePolicy.NAMED`; the container is its factory |
| Integrations (`ext/*.py`) and `inject.py` | the open scope of the request | open a scope, put the request in its context, resolve, close | scopes |
| RuleSet, CompositeRuleSet, child containers (`container.py` 663-960, 1451-1506, 2344-2393) | rules, version, cached views of map and graph, mirrored singleton cache | `add`, `map`, `graph`, `child_container` | parent and child share rules, overrides and singletons |
| Overrides (`container.py` 1089-1183, 2481-2524) | stack of layers | enter, exit | looked at by every resolution, scope and plan |
| Resolution policies (`resolution.py`, `container.py` 1556-1638) | a depth counter | order the keys of a graph; wrap a resolution | container |
| Providers (`providers.py`) | none | build rules from callables, generators, context values | registration |
| Modules, configuration (`module.py`, `configuration.py`) | none of their own | install several rules | rule sets |
| Auto-wiring (`auto_wiring.py`) | none | make a rule on demand from a signature | lookup of a missing rule |
| devkit (`devkit/*.py`) | windows of timestamps, set of keys under resolution | wrap a container | container |
| graph views, CLI, visualisation, builder, `_legacy.py` | none | pure functions over rules | read only |

What is hard to get right here, and to test:

* threads that race for a singleton through two entry points with different
  locking (`get` builds under the lock, a compiled resolver outside it);
* concurrent branches of one `aget`, which share a path list and a list of exit
  stacks, and run on after a sibling has failed or the request was cancelled;
* requests that share a named scope, one after another or at the same time,
  whose handlers are cancelled, fail, or leave calls behind;
* views of the rules that are cached by version in parent and child, and
  registrations that are taken back after the views have been rebuilt;
* registrations in a rule set without a lock, single or in groups, next to others
  that look first whether a key is free;
* counters, marks and time stamps that wrappers keep for all threads together;
* errors several frames deep, in the middle of a finalization or a registration.

Each is listed in `PROJECT.json` under "hazards" at its line, with the
properties about it.

What makes each component correct:

* synchronous resolution and plans: one instance per singleton for everybody;
  the lock and the path are left as they were found, errors included; the
  outcome of a call says what is wrong with the graph; no deadlock;
* asynchronous resolution: a service is built after what it needs; sequential
  callers share singletons; a cancelled request finalizes what it opened; every
  request ends, and its outcome is right;
* scopes: an instance lives from its creation until the last one leaves, no
  longer and no shorter; every opened resource is finalized; nothing passes from
  one request to the next;
* rules and children: what is visible is what was accepted; the child's rules win
  in the child; the parent is never changed by the child; no cycles;
* registration: a refused registration leaves no trace; explicit rules are never
  replaced by made-up ones; a missing rule is made up exactly when it may be;
* policies and wrappers: every order is one the graph allows; the depth comes back to
  0 and the marks are taken away, failures included; the window counts what it should.

## The modules

| Module | Models |
|---|---|
| `SingletonResolution` | `Container.get`, the resolvers of a compiled plan, by several threads |
| `SingletonRegistry` | the abstract promise: one instance chosen per key |
| `SingletonResolutionProofs` | theorems about `SingletonResolution` |
| `PlanExecution` | what `Container.compile` computes, what plans return, freezing |
| `AsyncResolution` | `Container.aget`, its gathers, its exit stacks and cancellation |
| `AsyncResolutionProofs` | theorems about `AsyncResolution` |
| `ContainerTree` | a parent and a child container: rules, cached views, overrides, singletons |
| `ContainerTreeProofs` | theorems about `ContainerTree` |
| `RequestScopes` | scopes as the asynchronous integrations use them |
| `RequestScopesProofs` | theorems about `RequestScopes` |
| `ResolutionOrder` | the orders of the resolution policies, and what an order has to be |
| `ResolutionOrderProofs` | theorems about `ResolutionOrder` |
| `DevLayers` | the rate limiter, the validating wrapper and the policy loop, by several threads |
| `DevLayersProofs` | theorems about `DevLayers` |
| `Registration` | all the ways to register rules, and rules made up by `get`, by several threads |
| `RegistrationProofs` | theorems about `Registration` |
| `SharedLemmas` | lemmas on iterations and sequences, for `ResolutionOrderProofs` and `RegistrationProofs` |
| `MC...` | the graphs, rules and requests on which TLC checks each |

### SingletonResolution

A thread's call is a stack of frames, one per service being resolved, each with
a program counter. One action is what the code does between two points at which
another thread can matter: a look at the cache, the acquisition of the lock, a
factory, a publication.

| Code | Actions |
|---|---|
| `get`, first look at the cache and the path (1738-1763) | `GetHit`, `GetMiss` |
| `with self.lock`, second look, `_find` and the check for asynchronous rules | `GetRecheck`, `GetLocked` |
| dependencies, factory, `_store_result`, `finally: path.pop()` | `ResolveDep`, `Make`, `MakeFails`, `Store` |
| closures of `_wrap_singleton`, `_build_node_maker`, `_flatten_root` (`plan.py`) | `PlanHit`, `PlanMiss`, `Publish`, `PlanTransient` |
| an exception that leaves the call | `Raise`, the whole of it: pops one path entry per frame and releases the lock as often as it was taken |

A factory returns a fresh instance or raises; instances of transients are not
followed. The path is one per thread, because a new thread begins with an empty
context. A plan is assumed to be one that `Container.compile` accepts
(`PlanAssumption`), within the caps (64 nodes, depth 32) under which the code
generates flat resolvers. Overrides, policies, tracing and aliases are off.
`made`, `handed` and `last` are history variables, read by properties only (and by
`Make`, to number instances).

### PlanExecution

`SingletonResolution` has the interleavings of one kind of resolver; this module has
all that a plan does, for one caller. A call is one step, and an evaluation is an
operator from a state (cache, memo cells) to a value and the next state.

| Code | Definitions |
|---|---|
| `_topological_order`, `_plan_nodes` | `Order`: Kahn's algorithm, ties broken by the repr of the key, which is the key itself |
| `_node_makers`, `_refine_resolvers` | `WithResolver`, `Flattened`, `Resolver`: which keys get which resolver |
| `_build_node_maker`, `_wrap_singleton` | `Maker`, `Memo` |
| `_build_frozen_resolver` | `Inlined`, unless `SharesTransient` |
| `_flat_prelude`, `_make_prelude_fetch`, the emitters | `Prelude`, `Fetch`, `Expr`, `RootArgs`, `Flat` |
| `_resolve_live`, `_cached_node`, `_finish_node` | `Interpret`, `Available`, `Node` |
| `ExecutionPlan.get`, `BoundResolver.__call__` | `Direct`, `PlanGet` |
| `from_container`, `_freeze_singletons` | `Compile`, `Freeze` |
| `OverrideLayer.__init__`, `OverrideContext.__exit__`, `set_tracer` | `EnterOverride`, `ExitOverride`, `SetTracer` |
| `serialize`, `_singleton_snapshot`, `_resolve_static` | `Serialize`, `Snapshot`, `RestoredGet` |
| `_value_to_serializable`, `_value_from_serializable` | `Reread`, `AsText` |

An instance is a term: key, number, and the instances its factory was given. So a
property can say what a service was made of, and two evaluations can be compared.
A plan that is written keeps of each singleton a JSON literal, if it is one (`Literals` are
the keys whose instances are), and else only its `repr`; a plan that is read again has no container
and returns that. `PlanAgrees` says which keys it has, and that they are the literals and texts of
what `Container.get` would return. `CachesItsClosure` has a clause for each way of resolving: a resolver
caches what the key's closure needs and nothing else, the interpreter nothing behind the key in the
node list and, on a live plan, every singleton up to it that is not overridden.
Left out: `CompilePolicy.STRICT`, nested aliases, asynchronous
providers, rules registered after the compilation, factories that raise, JSON's own
syntax, and the node and depth caps, whose effect (a composed resolver) a custom lifetime also has.
It has recursive operators, so it is checked only.

### AsyncResolution

A request is a tree of calls, named by their positions; one action is what a
call does between two awaits, so the event loop is exactly the interleaving of
actions, in any order of ready tasks. `Hit`, `Refuse`, `BuildLeaf` and `Enter` begin
a call; `Collect`, `Abort`, `FactoryEnds`, `Opens` resume it; `Cancel`, `Throw`,
`Close` and `Finalized` are the cancellation of a task, the `CancelledError` thrown
into each call that runs, and `_finalize_on_cancel`. `Waiting` and `Level` are the
topological levels (`graphlib`) that `aget` gathers one after the other. A failed
gather lets the other calls run on: their results are dropped, what they store
in the cache stays. The closing of an exit stack is one step (`closed` means that
the finalizer was started), a request is cancelled at most once, and a failure
reaches the gather at once. There are no overrides, policies or rules made on
demand.

### ContainerTree

One call of a parent or child container is one step: `RegisterOnParent`, `RegisterOnChild`,
`EnterOverride`, `ExitOverride`, `Hit` and `Resolve` (both of `get` and of `aget`), `GetManyLevels`
(which reads the graph before anything else), `Validate`. The state
that matters is which cached view was built from which versions (`seen`, one for
both views, as in the code) and which container built or mirrored which
singleton. A registration includes the cycle check, the rollback when it refuses, and
the views that the check has rebuilt by then. The order in which dependencies
are resolved is abstracted: a call that fails leaves any downward-closed part of
what it would have built. `share_singletons` is on; there is one caller.

### RequestScopes

Each request runs in a task with a context of its own, and uses one scope that
`Namings` assigns it: all the same one (`NAMED`), or one each (`UNIQUE`). `Enter` and
`Reenter` are `__aenter__` and the first line of the handler, `GetHit`, `GetContext`,
`GetStarts`/`GetEnds`/`GetFails` are `aget` in the scope before and after the await of
the provider, `Cancel`, `Exit`, `CloseNext`, `Finish` are the ways out. A handler may
start several calls (`Slots`), and leave them pending when it ends: they go on to
open resources in the scope. A finalizer that raises is not told from one that
returns, since the loop goes on in both cases.

`hooked` chooses between the two kinds of integration. Most keep the scope with the
request. `faststream` and `taskiq` keep it in one attribute of the application, set by
the hook before the handler and taken out by the hook after it: `slot`. `Left` is the
scope object that the hook after leaves, which may be another message's, and
`HookFindsNothing` is that hook when the attribute is empty. `closing` is the object a
request closes, and `lost` counts the entries that the attribute forgot. `Reenter`
(`inject(scope=...)`) happens under `NAMED` only: under `UNIQUE` the call gets an
object that nobody else has.
Services without a resource behave
as those with one, less the exit stack, and are left out. The synchronous `Scope`
is the same code without awaits. `session_context` is left out.

### ResolutionOrder

The orders are pure functions of a graph. `Reachable` is the depth-first search with its
explicit stack, `Topological` Kahn's algorithm with its queue and with what waits for a
cycle at the end (`resolution.py`), `Levels` is `_independent_levels`, and `Batches` is
`policy.order` of all seven policies (two of them resolve the root alone). They are
written as recursive functions over sequences, statement by statement. `SoundOrder` is what an order
has to be, by definitions of its own (`Below`, `Stuck`). The step counts that bound the searches (`Pushes`,
the length of the scope) are not in the code: its loops end when stack or queue is empty, and
the proofs show that they are by then.

### DevLayers

| Code | Actions |
|---|---|
| `RateLimitedContainer.get`, `_check`, `usage_report` (`devkit/rate_limit.py`) | `CheckHit`, `ReadClock`, `Count`; `UsageReport` |
| `ValidatingContainer.get` (`devkit/validation.py`) | `CheckGuard`, `Mark`, `Invalid`, `Leave` |
| `OrderPolicy`, `NestedRules` (`devkit/policy.py`, `devkit/nested.py`) | the keys that `Mark` puts in `todo` |
| `Container.get`, `_resolve_with_policy`, `_resolve_missing` | `Work`, `Load`, `StoreUp`, `NextKey`, `StoreDown` |

The clock is read before the limiter's lock is taken, the check of the guard and its
mark are two steps, and `_policy_depth += 1` is a read and a write: `Container` has a
`__setattr__` in Python, so threads may switch between them. A build is one
step, which leaves any downward-closed part of what it builds if it fails. Wrappers
can be stacked; in the model the limiter is the outer one, and a setup may have either,
both or none.
`aget` has the same code; in tasks fewer of these steps are apart.

### Registration

One rule set, and threads that each do a list of jobs.

| Code | Actions |
|---|---|
| `RuleSet.add`, statement by statement (740-751), and `_check_cycle` | `CopyMap`, `CopyGraph`, `WriteMap`, `WriteGraph`, `Accept` or `Refuse`, `UndoMap`, `UndoGraph` |
| `service`, `value`, `alias`, `apply_modules` under both `DuplicateKeyPolicy` (`module.py`) | `Install`, `RefuseDuplicate`, `TakeItem`, `EndJob` |
| `Container.__setattr__` for providers of `providers.py` | `AssignRefused`, `Assign` (`ProviderRules`, `RefKeys`), `EndJob`, which binds the attribute |
| `pre_validate_registration`, `to_rules` (`configuration.py`) | `Duplicate`, `Validate`, `ReadAgain`; `ChangeSource` is the file or environment |
| `scan_package`, injectable classes (`auto_wiring.py`) | `Scan`, `PassOver`, `Unreadable`, `TakeItem` |
| `Container.get`, `_find`, `_implicit_fallback_rule`, `implicit_collection_rule` | `Get`, `Hit`, `MeetItself`, `Find`, `Collect`, `MakeUp` (then an add), `Ambiguous`, `NotAnnotated`, `NotFound`, `FactoryRaises`, `Build` (`StoreResult`), `Return` |

How annotations are read, and what kind of class a key is, are parameters of a setup
(`annotated`, `kind`, `members`). A rule has its dependencies, who made it, whether it
is cached, and whether its factory raises when it is called with these dependencies: because the
setup says so (`failing`), or because it needs more arguments (`needs`) than the registration has left it.
A reference is a key, an attribute of the container, or a provider object that was never assigned. The
last is an error for every provider, an attribute that is not bound is one for aggregates and is dropped by the
others (`Rejects`, `RefKeys`). Of the singleton cache, `cached` has the keys. `get` takes the
container's lock at the first key it does not find cached and is one step between two
dictionary operations; `touched`, `crossed`, `alone`, `before`, `accepted`, `mixed` and `ended`
are history variables. Left out: the providers `Resource` and `Coroutine`, iteration over
the rules by one thread while another inserts one.

## The runs

Every run finishes within about two and a half minutes. "violation" runs show a
disagreement between the code and a statement of the repository.

| Run | Instance | Shows |
|---|---|---|
| `singleton_threads` | 2 threads, both entry points; a diamond of two singletons over a transient and a shared singleton, and beside it a cycle, a missing rule, an asynchronous provider | `SingletonIdentity`, `LockDiscipline`, `PathMatchesCall`, `OutcomeExact`, `GetBuildsUnpublished`, the refinement `RegistrySpec`; under fairness `SomeCallEnds` |
| `plan_values` | 3 keys: a triangle with every choice of lifetimes (at most one custom), a chain with or without a yield provider; 1 override layer, 2 freezes; plans written and read again at any time | `PlanAgrees`, `CacheConsistent`, `CachesItsClosure`, `ReplacedByFreezing` |
| `async_requests` | 2 requests in one context, in 7 pairs: a root over two branches with a shared awaiting singleton and a resource, a cycle beside a resource, a missing rule beside a plain value; cancellation, finalizers that raise | `PathDrains`, `LevelsInOrder`, `SequentialIdentity`, `CancelFinalizes`, `OutcomeExact`; under fairness `RequestEnds` |
| `tree` | 2 containers, 3 keys, 4 rules on offer of which one closes a cycle, one override layer | `ViewsAccepted`, `LocalRulesWin`, `SharedIdentity` |
| `scopes` | 2 requests, 2 calls each, nesting, both policies, both kinds of integration, failures and cancellation | `DepthCounts`, `ReuseIsClean`, `HeldIsOpen`, `AllClosed`; under fairness `LeavingEnds` |
| `layers` | 2 threads; the limiter alone, the guard alone, each policy alone, all together; the orders on every graph of three services | `OrderSound`, `WindowExact`, `GuardExact`, `PolicyHonoured` |
| `registration` | 2 threads with two or three jobs each, in 36 setups | `RulesExact`, `AcyclicRules`, `GetExact`, `KeptRules` |
| `plan_key` | 3 keys: a yield provider, a singleton over another | `PlanGivesKey` fails: the interpreter returns the value of the node that needed the container (`plan.py` 1122) |
| `async_cycle` | 1 request, an acyclic diamond with an awaiting transient | `CyclesAreReal` fails: a branch that another branch awaits is reported as a cycle (1832) |
| `async_cancel` | 1 request, a singleton resource and a slow service | `CachedIsOpen` fails: the finalized resource stays in the cache (1981) |
| `tree_visible` | 2 containers, 2 keys | `ParentRulesVisible` fails: the graph view marks the parent's version as seen for the map view too (912) |
| `tree_leak` | 2 containers, 2 keys | `ChildStaysOut` fails: a singleton built from the child's own rules is mirrored into the parent (1504) |

The setups of `registration` (module `MCRegistration`) come in seven groups. `Crossing`: two threads register
rules that close a cycle together, with and without the policy that refuses
duplicates. `Wiring`: types are wired while the application registers a qualified
rule and scans. `Refusals`: types that cannot be wired, annotations that form a cycle, and
cycles that are only found when they are resolved. `Providing`: providers that refer to
attributes the other thread is assigning, or to their own class; an alias of an attribute that is not bound
yet is a rule whose factory raises. `Configuring`: the
source of a configuration changes between its two readings. `Detours`: a collection of a
class that is made up on the way, a class that needs the collection it is in, and a call after adds
that were mixed. `Raising`: factories that raise, for the key that was asked for or below it, after the
call has made up rules and built instances; and references that have no key.

Why these bounds are enough. Two threads are the smallest number that can race;
a third adds no new pair of steps, and the theorems cover any number. The
diamond has what can matter in a graph: a node reached along two ways, a
singleton below a transient, a singleton root. The services with errors have one of
each kind below another, so that every exception crosses frames. For
scopes, two slots let two calls for one key race, level 2 is the first nesting, and two
messages are enough for the attribute of a hooked integration to forget one.
In the tree, three versions of the parent allow a rule, its replacement and a
third that closes a cycle through it; the child's one version already separates
own from inherited. Plans differ in which keys are singletons, transient or custom, not
in how many keys there are: the triangle has a key reached along two ways and every
lifetime at every place, the names agree neither with the order of dependencies nor
with its reverse, and a second freeze makes an earlier plan stale. Orders differ on
graphs with a shared dependency, a cycle, a key listed twice and a missing rule, all of which
three services can have. The clock goes to 4 with a window of 2, so that the window leaves
whole batches of calls behind; five calls fill a window of two. A rule set shows a race
when two threads are inside `add` at once, which two jobs of one rule each allow.

`MaxVersion`, `MaxLayers`, `MaxFreezes`, `MaxLevel`, `MaxTime`, `MaxLoops` and a setup's `calls` are
the only counters that are capped, in the guards of the actions that increase them.
`MaxLoops` bounds how often policy loops nest in one call: once does without a race, and each lost update of
the depth may add one. Instance numbers are bounded because threads cannot rebuild a
cached singleton for ever, requests are made once and a slot's call ends with its handler.
Threads are symmetric in `layers`, whose properties are invariants.

Deadlock is checked in the runs of `SingletonResolution` and `PlanExecution`, where
some call can always be made. The others stop when every request or job has ended, or when every
counter is at its bound.

### Fairness

`SingletonResolution`: weak fairness of each thread inside a call. A factory
returns or raises and the operating system runs a thread that can run. The lock is
not assumed fair, so no single thread is promised its turn: `SomeCallEnds` is about
all of them together. Nobody is assumed to call.
`AsyncResolution`: weak fairness of each request's calls, taken together: the event
loop runs ready callbacks, and what is awaited completes. Requests need not begin,
and need not be cancelled.
`RequestScopes`: only of what a request does once it leaves: exit (or a hook that finds
nothing), the next finalizer, the end of the loop. Handlers and what they await may
take for ever.
`ContainerTree` and `PlanExecution` have no liveness property: each of their calls is a step.
`DevLayers` and `Registration` have none either: beside the container's lock, which
`SomeCallEnds` is about, nothing in them waits.

## What is proved

Eight modules hold proofs: `SingletonResolutionProofs`, `AsyncResolutionProofs`, `RequestScopesProofs`,
`ContainerTreeProofs`, `RegistrationProofs`, `ResolutionOrderProofs`, `DevLayersProofs`, and
`SharedLemmas` with what two of them need. Each theorem is about the
specification that the runs check, for every value of the constants that satisfies the assumptions
of its module: any finite or infinite set of threads or requests, any graph, plan and setup.

| Theorem | Property |
|---|---|
| *SingletonResolution* | |
| `TypeCorrect` | `TypeOK` |
| `Identity` | `SingletonIdentity` |
| `Locking` | `LockDiscipline` |
| `Paths` | `PathMatchesCall` |
| `Cells` | `CellsAgree`: no memo cell disagrees with the container; checked by no run, since identity and the refinement say more |
| `Published` | `PublishedForever`: a published singleton is never replaced; implied by the refinement, and checked by no run |
| `BuildsUnpublished` | `GetBuildsUnpublished` |
| `OutcomesAreJustified` | `OutcomeExact` |
| `Implements` | `RegistrySpec` |
| *AsyncResolution* | |
| `AsyncTypes` | `TypeOK` |
| `OutcomesAreExact` | `OutcomeExact` |
| `LevelsComeInOrder` | `LevelsInOrder` |
| `PathsDrain` | `PathDrains` |
| `CancelledFinalize` | `CancelFinalizes` |
| `SequentialsShare` | `SequentialIdentity` |
| *RequestScopes* | |
| `ScopeTypes` | `TypeOK` |
| `DepthIsCounted` | `DepthCounts` |
| `ReuseIsAlwaysClean` | `ReuseIsClean` |
| `HeldStaysOpen` | `HeldIsOpen` |
| `AllAreClosed` | `AllClosed` |
| *ContainerTree* | |
| `TreeTypes` | `TypeOK` |
| `ViewsStayAccepted` | `ViewsAccepted` |
| `LocalRulesComeFirst` | `LocalRulesWin` |
| `OneSharedInstance` | `SharedIdentity` |
| *Registration* | |
| `RegistrationTypes` | `TypeOK` |
| `AddsAreExact` | `RulesExact` |
| `ExplicitRulesStay` | `KeptRules` |
| `NoCycleIsLeft` | `AcyclicRules` |
| `GetsAreExact` | `GetExact` |
| *ResolutionOrder* | |
| `BatchesAreSound` | `SoundOrder` of every `Batches` |
| *DevLayers* | |
| `LayersTypes` | `TypeOK` |
| `OrdersAreSound` | `OrderSound` |
| `Guard` | `GuardExact` |
| `WindowStaysExact` | `WindowExact` |
| `PolicyIsHonoured` | `PolicyHonoured` |

`Invariance`, `RegistrationInvariance` and `GuardInvariance` are inductive invariants that other
theorems start from.

### Assumptions

* `SingletonResolution`: `NoThread` is no thread; lifetimes and providers are those of registered
  keys; dependencies are sequences of keys; the plan's keys resolve and are closed under dependencies.
* `AsyncResolution` (`AsyncAssumption`): the graph is finite; what is asked for is a key;
  singletons, awaiting factories and resources are registered; resources take no dependencies.
* `RequestScopes` (`ScopeAssumption`): resources are not context values, a request may enter its
  scope at least once, and `None`, requests and instances are told apart.
* `ContainerTree` (`TreeAssumption`, `NoObjAssumption`): rules and bounds have their shapes, `NoRule` is no
  rule and `NoObj` no instance.
* `Registration` and `DevLayers` (`SetupAssumption`, `KeysAssumption`): the setups have their shapes;
  the keys are finite. With the cycle check on, the rules that are there from the start have no cycle, because they went
  through it too. In `DevLayers` there is a key, the rules are registered in some
  order, each once, the clock's bound is a natural number and `NoCall` is not a call.

Keys are finite in the code because somebody wrote them down; the proofs need it where
something is counted along a chain of dependencies.

### Synchronous resolution

`SingletonIdentity` is not inductive: what makes a thread's next step harmless is
that nobody else can publish between its look at the cache and its own `Store`.
The invariant (`Invariance`) says so. It has, per thread, the shape of the stack (all
frames of one call of `get`, or one flat frame with makers above it; only the top
frame differs from "waiting for a dependency"), the path that goes with it, and
how often it holds the lock; and across threads, that an instance under
construction in a `get` frame is of a key that is unpublished (the frame holds
the lock, and publication needs the lock), and that whatever was handed out or
memoised is the instance published. A compiled resolver builds without the lock,
so nothing is said of its instance: `Publish` looks again and hands out the winner.
Each action has one step of the proof and a lemma where frames are pushed, popped or
unwound. The refinement maps the chosen instance to `single`: `Store` and `Publish`
choose or hand out, the hits hand out, everything else stutters.

`OutcomeExact` relates how a call ended to the whole graph, and needs an invariant of its own
(`EndInv`) about the branch that a call is on: every frame's key is below the key of each frame
that waits for it, the frame above a frame of `get` is for its next dependency, the dependencies
that have returned resolve, and whatever is made, cached or compiled resolves. A key that is met
again on the path is thus needed by a dependency of its own, which is a cycle; an exception
passes frames whose closure has its cause; and a frame that makes its instance has a
rule and only dependencies that resolve. That a key is resolved with its dependencies is no
induction here: `Closure` is what every set closed under dependencies has in common, so a closed
set is named wherever one is needed. What a compiled resolver calls does not matter to this argument,
since a plan has resolvable keys only.

### Asynchronous resolution

The invariants are layers, each proved from those below.

* `CallsInv` says of each call why it is where it is: a call that is not the root is for a key its
  caller needs and that is on no cycle; whatever its key needs is settled (a singleton of it is
  cached, or it can be built); a call at level *n* has settled all that the levels before it
  contain. `OutcomeExact` is part of it, `LevelsInOrder` follows.
* `PathInv` adds `PathDrains`: entries of calls abandoned by a failed gather count too.
* `TreeInv` has the shape of a tree of calls in which nothing has gone wrong: every caller
  waits for the calls it started (`Attached`), and a request that has not begun has nothing.
* `StopInv` follows a cancelled request: the cancellation has reached each of its calls or one that
  the call waits for (`Halted`, `Held`), and a call that finalizes has emptied the list of stacks
  up to where it is (`Swept`); hence `CancelFinalizes`.
* `QuietInv` is about requests one after the other: calls belong to the one request that
  runs, what was handed out is what is cached, and whoever is about to produce a singleton finds none
  cached, since a tree has at most one call for it; hence `SequentialIdentity`.

That the rounds of the topological sort put a key after all it needs, and that keys in no round are on a
cycle or need such keys, are lemmas about the graph, proved from a least counterexample.

### Scopes

`CountInv` accounts for the depth: every entry of a scope is held by a request that is inside, by the
slot of a hooked integration, or has been forgotten by it (`lost`). So a depth of 0 means that
nobody is inside, and as long as the slot has forgotten nothing hooked messages come one
after the other. `IInv` adds what a scope keeps: whatever it has cached or given to somebody is finalized or
on its exit stack, a scope that nobody is in has nothing (`ScopeKept`), the request that closes it is
alone in it, and of a request that met nobody the scope has its own instances and request
object only (`OwnScope`). `ReuseIsClean`, `HeldIsOpen` and `AllClosed` follow. Scopes that requests
share at the same time, and what the slot forgot, are excepted, as in the properties.

### Parent and child

The invariant has that every rule in force was accepted and that the child's view, however
old, has its own rules before the parent's; and that of a key which the child has no
rule of its own for, the child's cache holds what the parent's does or nothing, and everything either
returned is the instance in the parent's cache. A failed call caches any downward-closed part of what it would have
built: the proof covers each of them.

### Registration

`RulesExact` says nothing of a key while it is being added, so it is not inductive. The
invariant (`RegistrationInvariance`; TLC confirms its part `~mixed => Exact` on the instance of
`registration`) looks inside `add`: no two threads write
for one key; what nobody is writing is as it was accepted; what a thread wrote stands; and, as
long as nobody else wrote since they were taken, its copies are the map and the graph of now less its own rule,
and hold what was accepted for its key. So an add that is taken back without having been
crossed puts exactly its own key back. A step disturbs other threads only through
the keys it writes, which one lemma (`OthersInOrder`) says for all of them; the many ways to
start, continue and end a job come down to `StartKeeps`, `BetweenKeeps` and `EndKeeps`.

`KeptRules` is an action property. It needs `LookInv`: a key that a thread found free still is, or another
thread has touched it since.

`AcyclicRules` needs more than the absence of cycles between adds. A cycle is a set of keys each of which leads to
another of the set, and the invariant (`CycleInv`) has: every such set, in the rules of now, has a
key whose add is under way; an add is refused because its key leads to a cycle; and a copy from which
an uncrossed add will be taken back has no cycle but through somebody else's unfinished key. Two adds that
close a cycle together are both under way when the second writes its edges, and the check of
whichever comes last sees the cycle.

`GetExact` relates how a call ended to all that it has met, as it was before the call. Its invariant
(`GetsInv`) is about a call that runs alone. A key is `Fine` when nothing below it has a cycle and all of it has
rules whose factories do not raise (`Buildable`). Every instance there is was made of something fine; every path still to take
starts at the key that was asked for, goes from a key to one it needs, and has no key twice but perhaps
its last; longer paths come first; and whoever waits for its dependencies has each of them fine or still on
the list, and remembers what its rule says of the factory. So when nothing is left the key is fine, a key that is built has no dependency left to
wait for (the paths to them would be longer and come first), and whatever stops the call was reached by
a path from its key: the cycle, the missing rule, the ambiguous class or the factory that raises is one of what it
needs. A path is no longer than what can be reached, which is why `maxDepth` is compared with that
number. A rule under way is one that the call may make up; that it is refused means a cycle, by
`RulesExact`, unless adds were mixed before.

Proving it found three cases in which an earlier version of the property was false, each confirmed by
TLC in `Detours`: a collection can have members that the call itself makes up, or come back to the class
through them, and after mixed adds `get` can refuse a cycle that the rules do not have.

### Orders

The searches are recursive functions on the number of steps done. An invariant of the steps is proved
from the least step that breaks it (`UpTo`, `Iterated`), and the number of steps is shown to be enough.

* Depth-first search (`Walked`): what was seen or is on the stack is below the root; the dependencies
  of what was seen are seen or on the stack; no key is seen twice; and the pops to come are no
  more than the declarations not yet pushed. So the stack is empty in the end, and what was seen is the
  least set closed under dependencies (`BelowIs`).
* Kahn's algorithm (`Sorted`): the count of a key is the number of its declarations that are not in the
  order; the queue has the keys with a count of 0 that are not yet out, once each; and what
  is out stands after all it needs. A key that is left over when the queue has run empty needs another one that is,
  and so has a cycle below it (`WaitingIsStuck`).
* Levels (`Climbs`): a key is in a level if everything below it climbs in the rounds there are; a key that
  never does leads to a cycle, as above.

`OrdersAreSound` follows for every setup, and `LayersTypes` from it that a loop goes through keys.

### The development wrappers and the policy loop

`GuardExact` needs (`GuardInvariance`) that of two calls under way each has met the other's key,
that a thread inside the wrapper whose mark is gone has met its own key, and that each mark is
that of a thread inside. A second thread slips in between another's check and its mark only
while both are under way: then both know of it, and the one that ends second, whose mark the
first has taken away, has met its own key.

`WindowExact` needs to know what the queue of stamps is (`LimitInv`): the calls of the key in the log, in
their order, by an increasing numbering; and whatever call of the key is not in the queue any more is older, by a
window, than another one that was logged. So what was dropped cannot be in a window that ends now, although clock
readings may reach the queue out of order. Counting is a bijection between queue and
log (`FS_Bijection`).

`PolicyHonoured` needs (`PolicyInv`) that whatever a loop has resolved is built and that a loop that ended
well has built its whole order; that the outermost loop is for the first key that a call has left; that
unless two threads changed the depth at once no loop is inside another and the depth is the
number of threads whose loop has raised it; and that a call which met nobody still has its key to
resolve or has its order built. The depth is then 0 when such a call asks for its key, so the policy
applies. The proof takes the order as it is, whatever the policy computed; that it is a sound one is
`OrdersAreSound`.

### Not proved

* Liveness (`SomeCallEnds`, `RequestEnds`, `LeavingEnds`), which this prover does not reach.
* `PlanExecution`, all of it: its operators are `RECURSIVE`, over nested terms.

These are checked by TLC only.

## Known behaviours

Beside the five that the violation runs show, the models have these behaviours of the
code, which no property forbids:

* the flattened resolver of a singleton with dependencies has the root in its own
  prelude (`plan.py` 716): the first call runs the root's factory twice, and drops the
  second instance;
* freezing a plan builds every singleton anew and replaces instances that were handed
  out; resolvers of a live plan compiled before keep handing out the old ones;
* a singleton over a transient makes freezing fail with a `KeyError`;
* under an override or a tracer the interpreter builds every node up to the requested one,
  caches the singletons among them (made of overridden values, if there are), and
  gives the parents of a transient one instance of it, where the resolvers and
  `Container.get` make one each;
* under `ScopePolicy.NAMED`, requests that are served at the same time under one name share
  one cache and one request context (2468);
* two concurrent `aget` requests build a singleton twice, and each keeps its own
  (`SequentialIdentity` is about requests that do not overlap);
* a resource opened by a call that outlived its gather is finalized by nobody;
* a key in a deferred cycle ends in a bare `KeyError` ("uncollected");
* in a child, a rule registered for a key after an inherited instance of it was
  cached is not used;
* a singleton built while a dependency is overridden stays cached after the override;
* the resolver that was active before a scope is kept in one slot of the scope: a nested entry overwrites it, and
  after the outer exit the closed scope stays the active one of that task (1424);
* a cancelled closing leaves the remaining stacks until the scope is closed again;
* with three requests on one named scope, the `clear()` of one that leaves can drop a stack
  that a later one has appended;
* `OverrideContext.__exit__` pops the last layer, whichever it is: contexts that are left out
  of order, or by two threads, end each other's overrides (1182);
* in `faststream` and `taskiq`, of two messages in flight the attribute keeps the second's
  scope only: the first one's is never closed, or the hook that ends first closes the
  scope of the other, and what that one opens afterwards stays open;
* a restored plan raises `ServiceNotFoundError` for every key behind a node that is no
  singleton, and returns the JSON literal, or else the `repr` text, of an instance (`plan.py` 1425-1437);
* two adds of one key at once may leave the map with the rule of one and the graph with the edges of the
  other, though neither is refused;
* of two adds that run at once, the one that is refused restores the whole map as it had
  copied it: a rule that the other added is gone although its `add` returned, or one that was
  taken back is there again; until then a refused rule is visible to others;
* a rule made up by `get`, a scan or a strict registration replaces an explicit one that another
  thread registered after the look that found the key free, though `auto_wiring.py` says that
  explicitly registered rules are never overridden;
* a collection has the members that are registered when it is resolved: whether it has a class that the
  same call makes up, or comes back to itself through one, depends on the order of dependencies;
* a rule that is lost because another thread's refused add restored the map can leave its edges in the
  graph: `get` then refuses, for a cycle that the rules do not have, a rule that it made up;
* a configuration is checked for the paths of its first reading and registers those of its
  second: a rule that has the new path's key is replaced;
* a plain class is wired by the fallback if it is asked for before a qualified one is registered,
  and ambiguous if it is asked for afterwards;
* `UnboundProvider` says that it resolves to its name when it is used as a dependency (`providers.py` 186-189), but a
  rule drops an unbound reference from its dependencies (85-86), for good: an alias of an attribute that is assigned
  later, or a factory that needs the argument, raises a `TypeError` whenever it is asked for; a provider whose class alias is refused leaves the rule for its name in, and
  the attribute unbound;
* an alias, a `Dependency` and a `Factory` of a class are registered as singletons;
* two calls that change `_policy_depth` at once may lose an update: below 0 or above it for good,
  it turns policies off for all later calls; a call made while another resolves under a
  policy skips its own;
* `EagerPolicy` fails for a missing dependency of a service that was not asked for; a
  policy builds the transients of its order once for the loop, and again for the parents;
* the limiter's stamps may be out of order, since the clock is read before the lock is taken;
  it counts the calls that it refuses;
* `ValidatingContainer` reports a cycle when two threads ask for one key, and the one that
  ends second a bare `KeyError`.

## What is not modelled

* Threads that share a synchronous `Scope`: its `_depth += 1` and its cache have no lock.
* `session_context`, `share_singletons=False`, `CompilePolicy.STRICT`, nested aliases.
* Overrides and policies inside `SingletonResolution` and `AsyncResolution`; freezing a plan while
  threads resolve.
* The iteration of fallback and collections over the rules while another thread inserts
  one, which raises a `RuntimeError`.
* `build(validate=True)`, warm-up, and the providers `Resource` and `Coroutine` in `Registration`.

Left out for good: graph views, the CLI and the visualisation (output only), logging and
telemetry, the builder's own record (no state beyond the rules), `_legacy.py` (nothing imports it),
the conversion of configuration values, the text of error messages.

## Plan

1. A statement of what a plan computes without recursive operators, so that `PlanExecution` can be
   proved about.
2. Frozen plans in `SingletonResolution`, so that freezing races threads.
3. A synchronous `Scope` under threads; `session_context`.
4. `CompilePolicy.STRICT` and nested aliases in `PlanExecution`.
