------------------------------ MODULE DevLayers ------------------------------
(***************************************************************************)
(* The layers around a container during development, and the resolution    *)
(* policy inside it, called by several threads:                            *)
(*                                                                         *)
(*   RateLimitedContainer.get  counts calls in a sliding window;           *)
(*   ValidatingContainer.get   refuses a key that is under resolution, and *)
(*                             resolves and compares nested values;        *)
(*   Container.get             resolves a policy's keys first.             *)
(*                                                                         *)
(* None of the three has a lock around a call, only the limiter has one    *)
(* around its counting.  A build itself is one step here: it runs inside   *)
(* the container's lock (module SingletonResolution).  aget goes through   *)
(* the same checks, in tasks that give way between fewer of them.          *)
(***************************************************************************)
EXTENDS ResolutionOrder

CONSTANTS
  Threads,
  Keys,       \* registered keys, nested keys, and keys without a rule
  Setups,     \* the containers under study; the fields are in SetupShape
  MaxTime,    \* bound: the clock stops there
  MaxLoops,   \* bound: policy loops nested in one call; a race may nest them
  NoCall      \* the thread is outside

Policies == {"none", "lazy", "children", "parent", "eager", "parallel"}
SetupShape(s) ==
  /\ s.layers \in SUBSET {"limit", "guard"}
  /\ s.policy \in Policies                 \* of the container, or of every call
  /\ DOMAIN s.deps \subseteq Keys /\ \A k \in DOMAIN s.deps : s.deps[k] \in Seq(Keys)
  /\ s.listed \in Seq(Keys) /\ IsInjective(s.listed)     \* in the order of registration
  /\ ToSet(s.listed) = DOMAIN s.deps
  /\ s.singletons \subseteq DOMAIN s.deps
  /\ s.faulty \in BOOLEAN                  \* factories and validators may raise
  /\ s.window \in Nat \ {0} /\ s.max \in Nat \ {0}
  /\ s.countHits \in BOOLEAN /\ s.ignored \subseteq Keys
  /\ s.before \in [Keys -> Seq(Keys)]      \* devkit OrderPolicy: nested keys to
  /\ s.after \in [Keys -> Seq(Keys)]       \*   resolve before and after a key
  /\ s.nested \in [Keys -> Seq(Keys)]      \* NestedRules: keys compared after it
  /\ s.asked \subseteq Keys /\ s.calls \in Nat    \* bound: calls of the application

ASSUME KeysAssumption == IsFiniteSet(Keys) /\ Keys # {}
ASSUME SetupAssumption == \A s \in Setups : SetupShape(s)
ASSUME TimeAssumption == MaxTime \in Nat

VARIABLES
  setup,      \* which container
  order,      \* order[k]: the batches the policy gives for root k
  clock,
  stamps,     \* RateLimitedContainer._per_key
  resolving,  \* ValidatingContainer._resolving
  single,     \* Container.single: the singletons built
  depth,      \* Container._policy_depth
  call,       \* the call of each thread: where it is, and what it has to resolve
  frames,     \* _resolve_with_policy, under way in each thread
  log,        \* history: the calls counted, in that order
  begun,      \* how many calls the application has made
  met,        \* history: keys other threads asked for during the thread's call
  last,       \* history: how the thread's last call ended
  raced       \* history: two threads changed _policy_depth at the same time

vars == <<setup, order, clock, stamps, resolving, single, depth, call, frames, log, begun, met,
          last, raced>>
fixed == <<setup, order, begun>>
limiter == <<clock, stamps, log>>
container == <<single, depth, frames, raced>>

Results == {"none", "ok", "limited", "cycle", "KeyError", "failed"}
Call == [pc : {"hit", "stamp", "count", "check", "mark", "work"},
         key : Keys, at : 0..MaxTime, todo : Seq(Keys), result : {"ok", "failed"}]
ASSUME NoCallAssumption == NoCall \notin Call
Frame == [pc : {"load", "store", "keys", "unload", "unstore"}, root : Keys,
          left : Seq(SUBSET Keys), cache : SUBSET Keys, loaded : Int,
          result : {"ok", "failed"}]
Ended == [key : Keys, result : Results, met : SUBSET Keys]

TypeOK ==
  /\ SetupShape(setup)
  /\ order \in [Keys -> Seq(SUBSET Keys)]
  /\ clock \in 0..MaxTime
  /\ stamps \in [Keys -> Seq(0..MaxTime)]
  /\ resolving \subseteq Keys
  /\ single \subseteq setup.singletons
  /\ depth \in Int
  /\ call \in [Threads -> Call \cup {NoCall}]
  /\ frames \in [Threads -> Seq(Frame)]
  /\ log \in Seq([key : Keys, at : 0..MaxTime, refused : BOOLEAN])
  /\ begun \in 0..setup.calls
  /\ met \in [Threads -> SUBSET Keys]
  /\ last \in [Threads -> Ended]
  /\ raced \in BOOLEAN

Init ==
  /\ setup \in Setups
  /\ order = [k \in Keys |-> Batches(setup.policy, setup.deps, setup.listed, k)]
  /\ clock = 0
  /\ stamps = [k \in Keys |-> <<>>]
  /\ resolving = {}
  /\ single = {}
  /\ depth = 0
  /\ call = [t \in Threads |-> NoCall]
  /\ frames = [t \in Threads |-> <<>>]
  /\ log = <<>>
  /\ begun = 0
  /\ met = [t \in Threads |-> {}]
  /\ last = [t \in Threads |-> [key |-> CHOOSE k \in Keys : TRUE, result |-> "none", met |-> {}]]
  /\ raced = FALSE

Busy == {t \in Threads : call[t] # NoCall}
At(t, pc) == call[t] # NoCall /\ call[t].pc = pc
Goes(t, pc) == call' = [call EXCEPT ![t].pc = pc]
End(t, r) ==
  /\ call' = [call EXCEPT ![t] = NoCall]
  /\ last' = [last EXCEPT ![t] = [key |-> call[t].key, result |-> r, met |-> met[t]]]

-----------------------------------------------------------------------------
(* The application *)

\* Layer by layer, the outermost first.
AfterLimit == IF "guard" \in setup.layers THEN "check" ELSE "work"
Enter(t, k) ==
  /\ call[t] = NoCall /\ k \in setup.asked
  /\ begun < setup.calls /\ begun' = begun + 1
  /\ call' = [call EXCEPT ![t] =
       [pc |-> IF "limit" \in setup.layers THEN "hit" ELSE AfterLimit,
        key |-> k, at |-> 0, todo |-> <<k>>, result |-> "ok"]]
  /\ met' = [u \in Threads |->
       IF u = t THEN {call[v].key : v \in Busy}
       ELSE IF u \in Busy THEN met[u] \cup {k} ELSE met[u]]
  /\ UNCHANGED <<setup, order, limiter, container, resolving, last>>

\* Only the limiter looks at the clock.
Tick ==
  /\ "limit" \in setup.layers
  /\ clock < MaxTime /\ clock' = clock + 1
  /\ UNCHANGED <<fixed, stamps, log, container, resolving, call, met, last>>

-----------------------------------------------------------------------------
(* RateLimitedContainer *)

\* A cached singleton is not counted, unless the container was told to.
CheckHit(t) ==
  /\ At(t, "hit")
  /\ LET k == call[t].key
         skip == (k \in single /\ ~setup.countHits) \/ k \in setup.ignored
     IN Goes(t, IF skip THEN AfterLimit ELSE "stamp")
  /\ UNCHANGED <<fixed, limiter, container, resolving, met, last>>

\* The clock is read before the lock is taken.
ReadClock(t) ==
  /\ At(t, "stamp")
  /\ call' = [call EXCEPT ![t].pc = "count", ![t].at = clock]
  /\ UNCHANGED <<fixed, limiter, container, resolving, met, last>>

\* Mutant: a stamp as old as the window is long stays.
FreshLate(queue, now) ==
  LET fresh == {i \in DOMAIN queue : queue[i] >= now - setup.window}
  IN IF fresh = {} THEN <<>> ELSE SubSeq(queue, CHOOSE i \in fresh : \A j \in fresh : i <= j, Len(queue))
\* The queue from its first stamp within the window on; older ones may be
\* behind that one.
Fresh(queue, now) ==
  LET fresh == {i \in DOMAIN queue : queue[i] > now - setup.window}
  IN IF fresh = {} THEN <<>>
     ELSE SubSeq(queue, CHOOSE i \in fresh : \A j \in fresh : i <= j, Len(queue))
Count(t) ==
  /\ At(t, "count")
  /\ LET k == call[t].key
         queue == Append(Fresh(stamps[k], call[t].at), call[t].at)
         refused == Len(queue) > setup.max
     IN /\ stamps' = [stamps EXCEPT ![k] = queue]
        /\ log' = Append(log, [key |-> k, at |-> call[t].at, refused |-> refused])
        /\ IF refused THEN End(t, "limited") ELSE Goes(t, AfterLimit) /\ last' = last
  /\ UNCHANGED <<fixed, clock, container, resolving, met>>

\* usage_report: the calls of the last window, by the clock at that moment.
UsageReport(k) == Cardinality({i \in DOMAIN stamps[k] : stamps[k][i] > clock - setup.window})

-----------------------------------------------------------------------------
(* ValidatingContainer *)

CheckGuard(t) ==
  /\ At(t, "check")
  /\ IF call[t].key \in resolving THEN End(t, "cycle") ELSE Goes(t, "mark") /\ last' = last
  /\ UNCHANGED <<fixed, limiter, container, resolving, met>>

\* The keys the layer asks the container for: the order policy's, the key
\* itself, and those it is compared with.
Mark(t) ==
  /\ At(t, "mark")
  /\ LET k == call[t].key
     IN /\ resolving' = resolving \cup {k}
        /\ call' = [call EXCEPT ![t].pc = "work",
                      ![t].todo = setup.before[k] \o <<k>> \o setup.after[k] \o setup.nested[k]]
  /\ UNCHANGED <<fixed, limiter, container, met, last>>

\* A validator raises, or a nested value is not the one the parent holds.
Invalid(t) ==
  /\ At(t, "work") /\ frames[t] = <<>> /\ call[t].result = "ok"
  /\ "guard" \in setup.layers /\ setup.faulty
  /\ Len(call[t].todo) <= Len(setup.nested[call[t].key])
  /\ call' = [call EXCEPT ![t].result = "failed"]
  /\ UNCHANGED <<fixed, limiter, container, resolving, met, last>>

\* Mutant: the mark is taken away on success only.
LeaveMarked(t) ==
  /\ At(t, "work") /\ frames[t] = <<>>
  /\ call[t].todo = <<>> \/ call[t].result = "failed"
  /\ resolving' = IF call[t].result = "ok" THEN resolving \ {call[t].key} ELSE resolving
  /\ End(t, call[t].result)
  /\ UNCHANGED <<fixed, limiter, container, met>>

\* "finally: self._resolving.remove(key)", which raises if another thread has
\* taken the mark away.
Leave(t) ==
  /\ At(t, "work") /\ frames[t] = <<>>
  /\ call[t].todo = <<>> \/ call[t].result = "failed"
  /\ resolving' = resolving \ {call[t].key}
  /\ IF "guard" \in setup.layers /\ call[t].key \notin resolving
     THEN End(t, "KeyError") ELSE End(t, call[t].result)
  /\ UNCHANGED <<fixed, limiter, container, met>>

-----------------------------------------------------------------------------
(* Container.get, under a policy or not *)

BelowOf(k) == Below(setup.deps, Keys, k)
Buildable(k) == BelowOf(k) \subseteq DOMAIN setup.deps /\ ~Stuck(setup.deps, Keys, k)
\* Mutant: transients are cached as well.
BuildingAll(k) == BelowOf(k)
Building(k) == BelowOf(k) \cap setup.singletons

\* What a build may end in: everything below the key is built, or something
\* raised after some of it was.
Outcomes(k) ==
  (IF Buildable(k) THEN {[single |-> single \cup Building(k), result |-> "ok"]} ELSE {})
  \cup
  (IF k \in single \/ (Buildable(k) /\ ~setup.faulty) THEN {}
   ELSE {[single |-> single \cup done, result |-> "failed"] :
           done \in {d \in SUBSET (Building(k) \ {k}) :
                       \A j \in d : Buildable(j) /\ Building(j) \subseteq d \cup single}})

\* The result of a Container.get goes to the policy loop that asked for the
\* key, or else to the layer above.
Deliver(t, fs, k, r) ==
  IF fs = <<>>
  THEN /\ call' = [call EXCEPT ![t].todo = IF r = "ok" THEN Tail(@) ELSE @, ![t].result = r]
       /\ frames' = [frames EXCEPT ![t] = fs]
  ELSE /\ LET f == Last(fs)
              g == IF r = "ok" THEN [f EXCEPT !.cache = @ \cup {k}]
                   ELSE [f EXCEPT !.pc = "unload", !.result = "failed"]
          IN frames' = [frames EXCEPT ![t] = Append(Front(fs), g)]
       /\ call' = call

\* Under a policy, and not inside one as far as _policy_depth tells, the
\* policy's keys come first.
Get(t, k) ==
  IF setup.policy # "none" /\ depth = 0
  THEN /\ Len(frames[t]) < MaxLoops
       /\ frames' = [frames EXCEPT ![t] = Append(@,
            [pc |-> "load", root |-> k, left |-> order[k], cache |-> {}, loaded |-> 0,
             result |-> "ok"])]
       /\ UNCHANGED <<single, call>>
  ELSE \E o \in Outcomes(k) : single' = o.single /\ Deliver(t, frames[t], k, o.result)

Work(t) ==
  /\ At(t, "work") /\ frames[t] = <<>>
  /\ call[t].todo # <<>> /\ call[t].result = "ok"
  /\ Get(t, Head(call[t].todo))
  /\ UNCHANGED <<fixed, limiter, resolving, depth, met, last, raced>>

InFrame(t, pc) == frames[t] # <<>> /\ Last(frames[t]).pc = pc
SetFrame(t, f) == frames' = [frames EXCEPT ![t] = Append(Front(@), f)]

\* _policy_depth += 1 and -= 1 read the attribute and set it through
\* Container.__setattr__, a call between which and the read the other threads
\* run.
Load(t) ==
  /\ InFrame(t, "load") \/ InFrame(t, "unload")
  /\ LET f == Last(frames[t])
     IN SetFrame(t, [f EXCEPT !.loaded = depth,
                              !.pc = IF f.pc = "load" THEN "store" ELSE "unstore"])
  /\ UNCHANGED <<fixed, limiter, resolving, single, depth, call, met, last, raced>>
StoreUp(t) ==
  /\ InFrame(t, "store")
  /\ LET f == Last(frames[t])
     IN /\ depth' = f.loaded + 1
        /\ raced' = (raced \/ depth # f.loaded)
        /\ SetFrame(t, [f EXCEPT !.pc = "keys"])
  /\ UNCHANGED <<fixed, limiter, resolving, single, call, met, last>>

\* _resolve_missing, then the key itself unless it was among them.
NextKey(t) ==
  /\ InFrame(t, "keys")
  /\ LET f == Last(frames[t])
         known == single \cup f.cache
         missing == {i \in DOMAIN f.left : ~(f.left[i] \subseteq known)}
         first == CHOOSE i \in missing : \A j \in missing : i <= j
     IN IF missing = {} /\ f.root \in f.cache
        THEN SetFrame(t, [f EXCEPT !.pc = "unload"]) /\ UNCHANGED <<single, call>>
        ELSE \E k \in IF missing = {} THEN {f.root} ELSE f.left[first] \ known : Get(t, k)
  /\ UNCHANGED <<fixed, limiter, resolving, depth, met, last, raced>>

\* Mutant: no "finally": a failure leaves the depth as it is.
StoreDownOnSuccess(t) ==
  /\ InFrame(t, "unstore")
  /\ LET f == Last(frames[t])
     IN /\ depth' = IF f.result = "ok" THEN f.loaded - 1 ELSE depth
        /\ raced' = (raced \/ depth # f.loaded)
        /\ Deliver(t, Front(frames[t]), f.root, f.result)
  /\ UNCHANGED <<fixed, limiter, resolving, single, met, last>>
StoreDown(t) ==
  /\ InFrame(t, "unstore")
  /\ LET f == Last(frames[t])
     IN /\ depth' = f.loaded - 1
        /\ raced' = (raced \/ depth # f.loaded)
        /\ Deliver(t, Front(frames[t]), f.root, f.result)
  /\ UNCHANGED <<fixed, limiter, resolving, single, met, last>>
-----------------------------------------------------------------------------
Step(t) ==
  \/ CheckHit(t) \/ ReadClock(t) \/ Count(t)
  \/ CheckGuard(t) \/ Mark(t) \/ Invalid(t) \/ Leave(t)
  \/ Work(t) \/ Load(t) \/ StoreUp(t) \/ NextKey(t) \/ StoreDown(t)

Next == Tick \/ \E t \in Threads : Step(t) \/ \E k \in Keys : Enter(t, k)

Spec == Init /\ [][Next]_vars
-----------------------------------------------------------------------------
(* Properties *)

\* Every policy's order has exactly the keys it has to, each once, and keeps
\* dependencies before what needs them (for ParentFirstPolicy, after), cycles
\* and missing rules elsewhere in the graph notwithstanding.  (It is what it
\* was before the first call.)
OrderSound ==
  begun = 0 => \A k \in Keys : SoundOrder(setup.policy, setup.deps, Keys, k, order[k])

\* usage_report gives the number of calls counted in the last window, in
\* whatever order their stamps came into the queue; and as long as they came
\* in order, a call is refused exactly if it is one too many in the window
\* that it ends.
Counted(k, i, now) ==
  {j \in 1..i : log[j].key = k /\ log[j].at > now - setup.window}
InOrder(k, i) ==
  \A j, l \in 1..i : j < l /\ log[j].key = k /\ log[l].key = k => log[j].at <= log[l].at
WindowExact ==
  /\ \A k \in Keys : UsageReport(k) = Cardinality(Counted(k, Len(log), clock))
  /\ \A i \in DOMAIN log :
       InOrder(log[i].key, i) =>
         (log[i].refused <=> Cardinality(Counted(log[i].key, i, log[i].at)) > setup.max)

\* The guard refuses a key, or loses its mark, only if another thread asked
\* for that key meanwhile; and no mark stays behind, failures included.
GuardExact ==
  /\ \A t \in Threads : last[t].result \in {"cycle", "KeyError"} => last[t].key \in last[t].met
  /\ \A k \in resolving : \E t \in Busy : call[t].key = k /\ call[t].pc = "work"

\* As long as no two threads changed _policy_depth at the same time (so that it
\* comes back to 0), a call that no other thread's call overlapped has had every
\* singleton of its policy's order built, whatever happened and failed before.
PolicyHonoured ==
  \A t \in Threads :
    last[t].result = "ok" /\ last[t].met = {} /\ ~raced
      => setup.singletons \cap UNION ToSet(order[last[t].key]) \subseteq single
=============================================================================
