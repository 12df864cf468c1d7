------------------------- MODULE SingletonResolution -------------------------
(***************************************************************************)
(* Synchronous resolution of services by several threads of one container. *)
(*                                                                         *)
(* A thread enters through Container.get (double-checked locking around    *)
(* the whole build of a service and of its dependencies) or through a      *)
(* resolver that Container.compile built (ExecutionPlan.get), which builds *)
(* outside the lock and takes it only to publish.  Both share the          *)
(* container's cache of singletons and its re-entrant lock.                *)
(*                                                                         *)
(* A call in progress is a stack of frames, one for each service being     *)
(* resolved, root first.  What a factory computes is abstracted: its       *)
(* result is a fresh instance, or it raises.                               *)
(***************************************************************************)
EXTENDS Integers, SequencesExt

CONSTANTS
  Threads,     \* threads that call the container
  Keys,        \* service keys, registered or only mentioned as a dependency
  Registered,  \* keys that have a rule, or that get one on demand
  Singletons,  \* keys whose rule has lifetime "singleton"
  AsyncKeys,   \* keys whose rule needs the asynchronous path
  PlanKeys,    \* keys for which a compiled plan holds a resolver
  Deps,        \* Deps[k]: the declared dependencies of k, in order
  Order,       \* the plan's topological order of the keys
  NoThread,    \* the lock has no owner
  NoObj        \* nothing cached, nothing built

DepSet(k) == ToSet(Deps[k])

\* Keys reachable from k through declared dependencies, k included.
ClosedSets == {S \in SUBSET Keys : \A i \in S : DepSet(i) \subseteq S}
Closures == [k \in Keys |-> {j \in Keys : \A S \in ClosedSets : k \in S => j \in S}]
Closure(k) == Closures[k]

OnCycle(k) == \E d \in DepSet(k) : k \in Closure(d)

\* Everything below k has a synchronous rule and no rule depends on itself.
Resolvable(k) ==
  \A j \in Closure(k) : j \in Registered \ AsyncKeys /\ ~OnCycle(j)

ASSUME ThreadAssumption == NoThread \notin Threads
ASSUME KeyAssumption ==
  /\ Registered \subseteq Keys
  /\ Singletons \subseteq Registered
  /\ AsyncKeys \subseteq Registered
  /\ Deps \in [Keys -> Seq(Keys)]
  /\ Order \in Seq(Keys)
  /\ NoObj \notin Keys \X Nat
\* Container.compile rejects graphs with a missing rule or a cycle, and only
\* keys with an entirely synchronous closure get a compiled resolver.
ASSUME PlanAssumption ==
  \A k \in PlanKeys : k \in Keys /\ Resolvable(k) /\ Closure(k) \subseteq PlanKeys

VARIABLES
  single,   \* Container.single: the singleton cache
  owner,    \* the thread that holds Container.lock
  count,    \* how many times it has acquired it
  path,     \* the resolution path each thread keeps in its context
  stack,    \* frames of the call each thread is executing
  cell,     \* the memo cell inside each compiled singleton resolver
  made,     \* history: instances of a singleton its factory has produced
  handed,   \* history: instances of a singleton returned to a caller or injected
  last      \* history: the key and the outcome of each thread's last call

vars == <<single, owner, count, path, stack, cell, made, handed, last>>

Obj == Singletons \X (Nat \ {0})
Modes == {"get", "flat", "maker"}
Frame == [mode : Modes, key : Keys, pc : {"enter", "wait", "deps", "made"},
          dep : Nat, obj : Obj \cup {NoObj}]
NewFrame(m, k) == [mode |-> m, key |-> k, pc |-> "enter", dep |-> 0, obj |-> NoObj]
Results == {"none", "ok", "cycle", "missing", "async", "failed"}

TypeOK ==
  /\ single \in [Keys -> Obj \cup {NoObj}]
  /\ owner \in Threads \cup {NoThread}
  /\ count \in Nat
  /\ path \in [Threads -> Seq(Keys)]
  /\ stack \in [Threads -> Seq(Frame)]
  /\ cell \in [{"flat", "maker"} -> [Keys -> Obj \cup {NoObj}]]
  /\ made \in [Keys -> Nat]
  /\ handed \in [Keys -> SUBSET Obj]
  /\ last \in [Threads -> [key : Keys, result : Results]]

Init ==
  /\ single = [k \in Keys |-> NoObj]
  /\ owner = NoThread
  /\ count = 0
  /\ path = [t \in Threads |-> <<>>]
  /\ stack = [t \in Threads |-> <<>>]
  /\ cell = [m \in {"flat", "maker"} |-> [k \in Keys |-> NoObj]]
  /\ made = [k \in Keys |-> 0]
  /\ handed = [k \in Keys |-> {}]
  /\ last \in [Threads -> [key : Keys, result : {"none"}]]

-----------------------------------------------------------------------------
Top(t) == stack[t][Len(stack[t])]
AtTop(t, modes, pc) == stack[t] # <<>> /\ Top(t).mode \in modes /\ Top(t).pc = pc
SetTop(t, f) == stack' = [stack EXCEPT ![t][Len(stack[t])] = f]

\* Frames of t inside "with self.lock": every frame of a Container.get below
\* the top one is waiting for a dependency there.
Held(t) ==
  IF stack[t] = <<>> \/ Top(t).mode # "get" THEN 0
  ELSE IF Top(t).pc \in {"deps", "made"} THEN Len(stack[t]) ELSE Len(stack[t]) - 1

\* Frames of t that have put their key on the resolution path.
Entered(t) ==
  IF stack[t] = <<>> \/ Top(t).mode # "get" THEN 0
  ELSE IF Top(t).pc = "enter" THEN Len(stack[t]) - 1 ELSE Len(stack[t])

\* Mutant: a plain lock instead of a re-entrant one.
PlainLock(t) == owner = NoThread
\* Mutant: "with self.lock" and an explicit release as well.
UnlockTwice(n) ==
  /\ count' = count - n - 1
  /\ owner' = IF count - n = 0 THEN NoThread ELSE owner
\* Mutant: an exception pops the path of the innermost call only.
PopPathOnce(t, n) == path' = [path EXCEPT ![t] = IF n = 0 THEN @ ELSE Front(@)]

\* The re-entrant lock is free for t, and giving back n of its acquisitions.
CanLock(t) == owner \in {NoThread, t}
Unlock(n) ==
  /\ count' = count - n
  /\ owner' = IF count - n = 0 THEN NoThread ELSE owner

\* "finally: path.pop()", n frames up.
PopPath(t, n) == path' = [path EXCEPT ![t] = SubSeq(@, 1, Len(@) - n)]

\* The top frame returns o to the frame below, or to the caller of the root.
Return(t, o) ==
  LET s == stack[t]
      n == Len(s)
  IN /\ handed' = [handed EXCEPT ![s[n].key] = IF o = NoObj THEN @ ELSE @ \cup {o}]
     /\ stack' = [stack EXCEPT ![t] =
                    IF n = 1 THEN <<>>
                    ELSE [Front(s) EXCEPT ![n - 1].dep = @ + 1]]
     /\ last' = IF n = 1 THEN [last EXCEPT ![t] = [key |-> s[n].key, result |-> "ok"]]
                ELSE last

\* Mutant: acquire and release of the lock without a "finally".
RaiseLocked(t, result) ==
  /\ stack' = [stack EXCEPT ![t] = <<>>]
  /\ PopPath(t, Entered(t))
  /\ last' = [last EXCEPT ![t] = [key |-> stack[t][1].key, result |-> result]]
  /\ UNCHANGED <<owner, count, single, cell, made, handed>>

\* Mutant: the path is popped on success only.
RaiseUnpopped(t, result) ==
  /\ stack' = [stack EXCEPT ![t] = <<>>]
  /\ IF Held(t) = 0 THEN UNCHANGED <<owner, count>> ELSE Unlock(Held(t))
  /\ last' = [last EXCEPT ![t] = [key |-> stack[t][1].key, result |-> result]]
  /\ UNCHANGED <<path, single, cell, made, handed>>

\* An exception leaves every frame of the call: each "finally" pops its path
\* entry and each "with" gives the lock back.
Raise(t, result) ==
  /\ stack' = [stack EXCEPT ![t] = <<>>]
  /\ PopPath(t, Entered(t))
  /\ IF Held(t) = 0 THEN UNCHANGED <<owner, count>> ELSE Unlock(Held(t))
  /\ last' = [last EXCEPT ![t] = [key |-> stack[t][1].key, result |-> result]]
  /\ UNCHANGED <<single, cell, made, handed>>

-----------------------------------------------------------------------------
(* Container.get *)

Call(t) ==
  /\ stack[t] = <<>>
  /\ \E m \in {"get", "flat"}, k \in Keys :
       /\ m = "flat" => k \in PlanKeys
       /\ stack' = [stack EXCEPT ![t] = <<NewFrame(m, k)>>]
       /\ last' = [last EXCEPT ![t] = [key |-> k, result |-> "none"]]
  /\ UNCHANGED <<single, owner, count, path, cell, made, handed>>

\* First check of the double-checked locking, without the lock.
GetHit(t) ==
  /\ AtTop(t, {"get"}, "enter")
  /\ single[Top(t).key] # NoObj
  /\ Return(t, single[Top(t).key])
  /\ UNCHANGED <<single, owner, count, path, cell, made>>

\* The key joins the path, and a key already on it is a dependency cycle.
GetMiss(t) ==
  /\ AtTop(t, {"get"}, "enter")
  /\ LET f == Top(t)
     IN /\ single[f.key] = NoObj
        /\ IF f.key \in ToSet(path[t])
           THEN Raise(t, "cycle")
           ELSE /\ path' = [path EXCEPT ![t] = Append(@, f.key)]
                /\ SetTop(t, [f EXCEPT !.pc = "wait"])
                /\ UNCHANGED <<single, owner, count, cell, made, handed, last>>

\* The lock is taken and the cache is read again: another thread may have
\* published the singleton meanwhile.
GetRecheck(t) ==
  /\ AtTop(t, {"get"}, "wait")
  /\ CanLock(t)
  /\ single[Top(t).key] # NoObj
  /\ Return(t, single[Top(t).key])
  /\ PopPath(t, 1)
  /\ UNCHANGED <<single, owner, count, cell, made>>

\* Mutant: the second check of the double-checked locking is dropped.
GetLockedUnchecked(t) ==
  /\ AtTop(t, {"get"}, "wait")
  /\ CanLock(t)
  /\ owner' = t
  /\ count' = count + 1
  /\ SetTop(t, [Top(t) EXCEPT !.pc = "deps"])
  /\ UNCHANGED <<single, path, cell, made, handed, last>>

\* The lock is taken, the cache still misses: find the rule and check that it
\* is synchronous.
GetLocked(t) ==
  /\ AtTop(t, {"get"}, "wait")
  /\ CanLock(t)
  /\ LET f == Top(t)
     IN /\ single[f.key] = NoObj
        /\ CASE f.key \notin Registered -> Raise(t, "missing")
             [] f.key \in AsyncKeys -> Raise(t, "async")
             [] OTHER ->
                  /\ owner' = t
                  /\ count' = count + 1
                  /\ SetTop(t, [f EXCEPT !.pc = "deps"])
                  /\ UNCHANGED <<single, path, cell, made, handed, last>>

\* The factory has returned: cache a singleton, release the lock, return.
Store(t) ==
  /\ AtTop(t, {"get"}, "made")
  /\ LET f == Top(t)
     IN /\ single' = IF f.key \in Singletons THEN [single EXCEPT ![f.key] = f.obj] ELSE single
        /\ Return(t, f.obj)
        /\ PopPath(t, 1)
        /\ Unlock(1)
        /\ UNCHANGED <<cell, made>>

-----------------------------------------------------------------------------
(* Building, common to both entry points *)

\* The calls a frame makes before its factory: its dependencies, or, for the
\* flattened resolver of a root with dependencies, the prelude: the composed
\* resolver of every singleton of its closure -- the root's own included --
\* in plan order.  The prelude is given by the positions in that order.
Prelude(k) ==
  IF Deps[k] = <<>> THEN {}
  ELSE {i \in DOMAIN Order : Order[i] \in Closure(k) \cap Singletons}
Callees(f) == IF f.mode = "flat" THEN Cardinality(Prelude(f.key)) ELSE Len(Deps[f.key])
\* After f.dep calls, the next one of f is for d.
IsNext(f, d) ==
  IF f.mode = "flat"
  THEN \E i \in Prelude(f.key) :
         d = Order[i] /\ f.dep = Cardinality({j \in Prelude(f.key) : j < i})
  ELSE f.dep < Callees(f) /\ d = Deps[f.key][f.dep + 1]

ResolveDep(t) ==
  /\ AtTop(t, Modes, "deps")
  /\ LET f == Top(t)
         m == IF f.mode = "get" THEN "get" ELSE "maker"
     IN \E d \in Keys :
          /\ IsNext(f, d)
          /\ stack' = [stack EXCEPT ![t] = Append(@, NewFrame(m, d))]
  /\ UNCHANGED <<single, owner, count, path, cell, made, handed, last>>

\* The factory runs.  For a flattened root this includes the factories of the
\* transients between the prelude and the root, which touch no shared state.
Make(t) ==
  /\ AtTop(t, Modes, "deps")
  /\ LET f == Top(t)
         built == IF f.key \in Singletons THEN <<f.key, made[f.key] + 1>> ELSE NoObj
     IN /\ f.dep = Callees(f)
        /\ made' = IF f.key \in Singletons THEN [made EXCEPT ![f.key] = @ + 1] ELSE made
        /\ SetTop(t, [f EXCEPT !.pc = "made", !.obj = built])
  /\ UNCHANGED <<single, owner, count, path, cell, handed, last>>

\* The factory raises, or returns an awaitable, which get rejects.
MakeFails(t) ==
  /\ AtTop(t, Modes, "deps")
  /\ Top(t).dep = Callees(Top(t))
  /\ Raise(t, "failed")

-----------------------------------------------------------------------------
(* Compiled resolvers: the closures of _wrap_singleton and _build_node_maker *)

CellOf(f) == cell[f.mode][f.key]
Memo(f, o) == cell' = [cell EXCEPT ![f.mode][f.key] = o]

PlanHit(t) ==
  /\ AtTop(t, {"flat", "maker"}, "enter")
  /\ LET f == Top(t)
     IN IF CellOf(f) # NoObj
        THEN Return(t, CellOf(f)) /\ cell' = cell
        ELSE /\ single[f.key] # NoObj
             /\ Memo(f, single[f.key])
             /\ Return(t, single[f.key])
  /\ UNCHANGED <<single, owner, count, path, made>>

PlanMiss(t) ==
  /\ AtTop(t, {"flat", "maker"}, "enter")
  /\ CellOf(Top(t)) = NoObj
  /\ single[Top(t).key] = NoObj
  /\ SetTop(t, [Top(t) EXCEPT !.pc = "deps"])
  /\ UNCHANGED <<single, owner, count, path, cell, made, handed, last>>

\* Mutant: the last instance published wins.
PublishOwn(t) ==
  /\ AtTop(t, {"flat", "maker"}, "made")
  /\ LET f == Top(t)
     IN /\ f.key \in Singletons
        /\ CanLock(t)
        /\ single' = [single EXCEPT ![f.key] = f.obj]
        /\ Memo(f, f.obj)
        /\ Return(t, f.obj)
  /\ UNCHANGED <<owner, count, path, made>>

\* Under the lock, the first instance published wins and is the one returned.
Publish(t) ==
  /\ AtTop(t, {"flat", "maker"}, "made")
  /\ LET f == Top(t)
         winner == IF single[f.key] # NoObj THEN single[f.key] ELSE f.obj
     IN /\ f.key \in Singletons
        /\ CanLock(t)
        /\ single' = [single EXCEPT ![f.key] = winner]
        /\ Memo(f, winner)
        /\ Return(t, winner)
  /\ UNCHANGED <<owner, count, path, made>>

PlanTransient(t) ==
  /\ AtTop(t, {"flat", "maker"}, "made")
  /\ Top(t).key \notin Singletons
  /\ Return(t, NoObj)
  /\ UNCHANGED <<single, owner, count, path, cell, made>>

-----------------------------------------------------------------------------
\* Every step of thread t but the call itself.
Step(t) ==
  \/ GetHit(t) \/ GetMiss(t) \/ GetRecheck(t) \/ GetLocked(t) \/ Store(t)
  \/ ResolveDep(t) \/ Make(t) \/ MakeFails(t)
  \/ PlanHit(t) \/ PlanMiss(t) \/ Publish(t) \/ PlanTransient(t)

Next == \E t \in Threads : Call(t) \/ Step(t)

Spec == Init /\ [][Next]_vars

\* A thread inside the container keeps running when it is not blocked on the
\* lock: factories and the scheduler let it go on.  Nothing is assumed about
\* who gets a contended lock, nor that anybody calls again.
Fairness == \A t \in Threads : WF_vars(Step(t))
FairSpec == Spec /\ Fairness
-----------------------------------------------------------------------------
(* Properties *)

\* Every caller that was given singleton k, and every service it was injected
\* into, got the same instance, whichever entry point resolved it.
SingletonIdentity ==
  \A k \in Keys : \A o1, o2 \in handed[k] : o1 = o2

\* The lock is held exactly by the thread that is inside "with self.lock", as
\* many times as it is; so at most one thread builds through Container.get,
\* and a call that ended in an error leaves nothing locked.
LockDiscipline ==
  /\ \A t \in Threads : Held(t) = IF owner = t THEN count ELSE 0
  /\ (owner = NoThread) <=> (count = 0)

\* The resolution path kept in a thread's context is the chain of services it
\* is resolving, and empty between calls, errors included: a leftover entry
\* would be reported as a cycle by a later call.
PathMatchesCall ==
  \A t \in Threads :
    /\ Len(path[t]) = Entered(t)
    /\ \A i \in 1..Entered(t) : path[t][i] = stack[t][i].key

\* A call succeeds only for a key whose whole closure resolves; it reports a
\* cycle, a missing rule or an async provider only if its closure has one.
OutcomeExact ==
  \A t \in Threads :
    LET r == last[t].result
        C == Closure(last[t].key)
    IN /\ r = "ok" => Resolvable(last[t].key)
       /\ r = "cycle" => \E j \in C : OnCycle(j)
       /\ r = "missing" => ~(C \subseteq Registered)
       /\ r = "async" => C \cap AsyncKeys # {}

\* Container.get never runs the factory of a singleton that is published,
\* however compiled resolvers publish beside it, so it never discards what a
\* factory returned.
GetBuildsUnpublished ==
  [][\A t \in Threads :
       Make(t) /\ Top(t).mode = "get" /\ Top(t).key \in Singletons
         => single[Top(t).key] = NoObj]_vars

\* Once published a singleton is never replaced, so the memo cells of the
\* compiled resolvers cannot go stale.
PublishedForever ==
  [][\A k \in Keys : single[k] # NoObj => single'[k] = single[k]]_vars
CellsAgree ==
  \A m \in {"flat", "maker"}, k \in Keys : cell[m][k] \in {NoObj, single[k]}

\* The threads never block one another all together: as long as somebody is
\* inside the container, some call returns or raises.
SomeCallEnds ==
  (\E t \in Threads : stack[t] # <<>>) ~> (\E t \in Threads : stack[t] = <<>>)

\* What the container promises its callers: a registry of singletons.
Registry == INSTANCE SingletonRegistry WITH inst <- single, Values <- Obj, Empty <- NoObj
RegistrySpec == Registry!Spec
=============================================================================
