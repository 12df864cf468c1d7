---------------------------- MODULE RequestScopes ----------------------------
(***************************************************************************)
(* Requests served on one event loop, each inside "async with              *)
(* container.ascope(name)", as the framework integrations and inject do.   *)
(*                                                                         *)
(* A scope object has one cache, one request context, one list of exit     *)
(* stacks, one depth and one slot for the resolver that was active before. *)
(* Under ScopePolicy.NAMED all requests get the same object for the same   *)
(* name; under UNIQUE each call gets its own.  What happens between two    *)
(* awaits is one step.                                                     *)
(*                                                                         *)
(* Most integrations keep the scope with the request.  faststream and      *)
(* taskiq keep it in one slot of the application, between a hook that runs *)
(* before the handler and one that runs after it: "hooked".                *)
(***************************************************************************)
EXTENDS Integers, SequencesExt, FiniteSetsExt

CONSTANTS
  Requests,
  Scopes,
  Namings,      \* which scope object each request may be given
  Slots,        \* calls of scope.get that a request may have pending at once
  Resources,    \* keys of async yield providers
  ContextKeys,  \* keys of from_context providers of the bound request
  MaxLevel,     \* bound: how often one request enters its scope, nested
  None

Keys == Resources \cup ContextKeys

ASSUME ScopeAssumption ==
  /\ Resources \cap ContextKeys = {}
  /\ MaxLevel \in Nat \ {0} /\ Namings \subseteq [Requests -> Scopes]
  /\ None \notin Requests \cup Scopes \cup Keys
  /\ Requests \cap (Resources \X Nat) = {} /\ None \notin Resources \X Nat

VARIABLES
  scopeOf,  \* the scope object each request is given, fixed from the start
  cache,    \* Scope.cache
  context,  \* Scope.request_context["request"]
  stacks,   \* Scope._async_exit_stack: the resources inside
  depth,    \* Scope._depth
  previous, \* Scope._resolver_previous
  hooked,   \* whether the integration has one slot, fixed from the start
  slot,     \* _ScopeManager._scope, _DoppyMiddleware._scope
  closing,  \* the scope object that a request is closing
  active,   \* the active resolver in the context of each request's task
  pc,       \* where each request is
  level,    \* how many times it is inside its scope
  at,       \* index in the list of stacks while the scope is being closed
  pending,  \* pending[q][i]: the key a call of get is resolving
  closed,   \* resources whose finalizer has run
  made,     \* history: how often each provider has delivered
  got,      \* history: what each request has been given
  met,      \* history: requests that met another one in the same scope object
  lost,     \* history: how often each scope was entered and forgotten by the slot
  stray     \* history: scopes with a call of get that outlived its request, whose
            \* closing was cancelled, or that were entered while being closed

vars == <<scopeOf, cache, context, stacks, depth, previous, hooked, slot, closing, active,
          pc, level, at, pending, closed, made, got, met, lost, stray>>

hooks == <<hooked, slot, closing, lost>>

Obj == Resources \X (Nat \ {0})
Value == Obj \cup Requests

TypeOK ==
  /\ scopeOf \in [Requests -> Scopes]
  /\ cache \in [Scopes -> [Keys -> Value \cup {None}]]
  /\ context \in [Scopes -> Requests \cup {None}]
  /\ stacks \in [Scopes -> Seq(Obj)]
  /\ depth \in [Scopes -> Nat]
  /\ previous \in [Scopes -> Scopes \cup {None}]
  /\ hooked \in BOOLEAN
  /\ slot \in Scopes \cup {None}
  /\ closing \in [Requests -> Scopes \cup {None}]
  /\ lost \in [Scopes -> Nat]
  /\ active \in [Requests -> Scopes \cup {None}]
  /\ pc \in [Requests -> {"idle", "body", "leaving", "closing", "ended"}]
  /\ level \in [Requests -> 0..MaxLevel]
  /\ at \in [Requests -> Nat]
  /\ pending \in [Requests -> [Slots -> Resources \cup {None}]]
  /\ closed \in SUBSET Obj
  /\ made \in [Resources -> Nat]
  /\ got \in [Requests -> SUBSET Value]
  /\ met \in SUBSET Requests
  /\ stray \in SUBSET Scopes

Init ==
  /\ scopeOf \in Namings
  /\ cache = [s \in Scopes |-> [k \in Keys |-> None]]
  /\ context = [s \in Scopes |-> None]
  /\ stacks = [s \in Scopes |-> <<>>]
  /\ depth = [s \in Scopes |-> 0]
  /\ previous = [s \in Scopes |-> None]
  /\ hooked \in BOOLEAN
  /\ slot = None
  /\ closing = [q \in Requests |-> None]
  /\ lost = [s \in Scopes |-> 0]
  /\ active = [q \in Requests |-> None]
  /\ pc = [q \in Requests |-> "idle"]
  /\ level = [q \in Requests |-> 0]
  /\ at = [q \in Requests |-> 0]
  /\ pending = [q \in Requests |-> [i \in Slots |-> None]]
  /\ closed = {}
  /\ made = [k \in Resources |-> 0]
  /\ got = [q \in Requests |-> {}]
  /\ met = {}
  /\ stray = {}

-----------------------------------------------------------------------------
Waits(q) == \E i \in Slots : pending[q][i] # None
Named == \A p, q \in Requests : scopeOf[p] = scopeOf[q]
Forgot == \E s \in Scopes : lost[s] > 0
Present(s) == {q \in Requests : scopeOf[q] = s /\ pc[q] \notin {"idle", "ended"}}

\* Mutant: the depth is not counted, it is set.
DepthSet(q) ==
  LET s == scopeOf[q]
  IN /\ depth' = [depth EXCEPT ![s] = 1]
     /\ previous' = [previous EXCEPT ![s] = active[q]]
     /\ active' = [active EXCEPT ![q] = s]
     /\ level' = [level EXCEPT ![q] = @ + 1]

\* __aenter__: the slot for the previous resolver belongs to the scope object.
Open(q) ==
  LET s == scopeOf[q]
  IN /\ depth' = [depth EXCEPT ![s] = @ + 1]
     /\ previous' = [previous EXCEPT ![s] = active[q]]
     /\ active' = [active EXCEPT ![q] = s]
     /\ level' = [level EXCEPT ![q] = @ + 1]

\* The middleware, or the hook before the handler, enters the scope and binds
\* the request.
Enter(q) ==
  /\ pc[q] = "idle"
  /\ Open(q)
  /\ context' = [context EXCEPT ![scopeOf[q]] = q]
  /\ pc' = [pc EXCEPT ![q] = "body"]
  /\ met' = IF Present(scopeOf[q]) = {} THEN met
            ELSE met \cup {q} \cup Present(scopeOf[q])
  /\ stray' = IF \E p \in Present(scopeOf[q]) : pc[p] = "closing"
              THEN stray \cup {scopeOf[q]} ELSE stray
  /\ slot' = IF hooked THEN scopeOf[q] ELSE None
  /\ lost' = IF slot = None THEN lost ELSE [lost EXCEPT ![slot] = @ + 1]
  /\ UNCHANGED <<scopeOf, cache, stacks, hooked, closing, at, pending, closed, made, got>>

\* A handler decorated with inject(scope=...) enters the scope of that name
\* again.  (Under UNIQUE it would get an object that nobody else has.)
Reenter(q) ==
  /\ Named /\ pc[q] = "body" /\ level[q] < MaxLevel /\ ~Waits(q)
  /\ Open(q)
  /\ UNCHANGED <<scopeOf, cache, context, stacks, pc, at, pending, closed, made, got, met,
                 stray, hooks>>

-----------------------------------------------------------------------------
(* AsyncScope.get *)

GetHit(q, k) ==
  /\ pc[q] = "body" /\ cache[scopeOf[q]][k] # None
  /\ got' = [got EXCEPT ![q] = @ \cup {cache[scopeOf[q]][k]}]
  /\ UNCHANGED <<scopeOf, cache, context, stacks, depth, previous, active, pc, level, at,
                 pending, closed, made, met, stray, hooks>>

\* Mutant: a missing context value is not an error.
GetContextUnchecked(q, k) ==
  /\ pc[q] = "body" /\ k \in ContextKeys
  /\ cache[scopeOf[q]][k] = None
  /\ LET value == IF active[q] = None THEN None ELSE context[active[q]]
     IN /\ cache' = [cache EXCEPT ![scopeOf[q]][k] = value]
        /\ got' = [got EXCEPT ![q] = @ \cup {value}]
  /\ UNCHANGED <<scopeOf, context, stacks, depth, previous, active, pc, level, at, pending, closed,
                 made, met, stray, hooks>>

\* from_context reads the context of the scope that is active in the task, and
\* raises without a value; the scope then caches what it returned.
GetContext(q, k) ==
  /\ pc[q] = "body" /\ k \in ContextKeys
  /\ LET s == scopeOf[q]
         value == IF active[q] = None THEN None ELSE context[active[q]]
     IN /\ cache[s][k] = None
        /\ IF value = None
           THEN pc' = [pc EXCEPT ![q] = "leaving"] /\ UNCHANGED <<cache, got>>
           ELSE /\ cache' = [cache EXCEPT ![s][k] = value]
                /\ got' = [got EXCEPT ![q] = @ \cup {value}]
                /\ pc' = pc
  /\ UNCHANGED <<scopeOf, context, stacks, depth, previous, active, level, at, pending, closed,
                 made, met, stray, hooks>>

GetStarts(q, i, k) ==
  /\ pc[q] = "body" /\ pending[q][i] = None
  /\ k \in Resources /\ cache[scopeOf[q]][k] = None
  /\ pending' = [pending EXCEPT ![q][i] = k]
  /\ UNCHANGED <<scopeOf, cache, context, stacks, depth, previous, active, pc, level, at, closed,
                 made, got, met, stray, hooks>>

\* Mutant: the exit stack is kept only if the key was not cached meanwhile.
GetEndsKeepingFirst(q, i) ==
  LET s == scopeOf[q]
      k == pending[q][i]
      o == <<k, made[k] + 1>>
  IN /\ k # None
     /\ made' = [made EXCEPT ![k] = @ + 1]
     /\ stacks' = IF cache[s][k] = None THEN [stacks EXCEPT ![s] = Append(@, o)] ELSE stacks
     /\ cache' = [cache EXCEPT ![s][k] = o]
     /\ got' = IF pc[q] = "body" THEN [got EXCEPT ![q] = @ \cup {o}] ELSE got
     /\ pending' = [pending EXCEPT ![q][i] = None]
     /\ stray' = IF pc[q] = "body" THEN stray ELSE stray \cup {s}
     /\ UNCHANGED <<scopeOf, context, depth, previous, active, pc, level, at, closed, met, hooks>>

\* The provider has yielded: the exit stack is kept and the resource replaces
\* what the cache holds by now.
GetEnds(q, i) ==
  LET s == scopeOf[q]
      k == pending[q][i]
      o == <<k, made[k] + 1>>
  IN /\ k # None
     /\ made' = [made EXCEPT ![k] = @ + 1]
     /\ stacks' = [stacks EXCEPT ![s] = Append(@, o)]
     /\ cache' = [cache EXCEPT ![s][k] = o]
     /\ got' = IF pc[q] = "body" THEN [got EXCEPT ![q] = @ \cup {o}] ELSE got
     /\ pending' = [pending EXCEPT ![q][i] = None]
     /\ stray' = IF pc[q] = "body" THEN stray ELSE stray \cup {s}
     /\ UNCHANGED <<scopeOf, context, depth, previous, active, pc, level, at, closed, met, hooks>>

\* It raises, and the handler with it; other pending calls run on.
GetFails(q, i) ==
  /\ pending[q][i] # None
  /\ pending' = [pending EXCEPT ![q][i] = None]
  /\ pc' = IF pc[q] = "body" THEN [pc EXCEPT ![q] = "leaving"] ELSE pc
  /\ UNCHANGED <<scopeOf, cache, context, stacks, depth, previous, active, level, at, closed,
                 made, got, met, stray, hooks>>

-----------------------------------------------------------------------------
(* Leaving *)

\* The task of the request is cancelled while the handler or the closing of
\* the scope awaits.  CancelledError is not an Exception: the loop over the
\* stacks is left.
Cancel(q) ==
  /\ \/ /\ pc[q] = "body" /\ Waits(q)
        /\ pending' = [pending EXCEPT ![q] = [i \in Slots |-> None]]
        /\ pc' = [pc EXCEPT ![q] = "leaving"]
        /\ stray' = stray
     \/ /\ pc[q] = "closing" /\ at[q] > 0
        /\ pc' = [pc EXCEPT ![q] = "ended"]
        /\ stray' = stray \cup {closing[q]}
        /\ pending' = pending
  /\ UNCHANGED <<scopeOf, cache, context, stacks, depth, previous, active, level, at, closed,
                 made, got, met, hooks>>

\* What an exit leaves: an inner block its scope; the outermost one the scope
\* of the request, or with hooks whatever the slot holds.
Left(q) == IF hooked /\ level[q] = 1 THEN slot ELSE scopeOf[q]

\* Mutant: the cache and the context are kept.
ExitKeepingContext(q) ==
  LET s == Left(q)
  IN /\ pc[q] = "leaving" \/ (pc[q] = "body" /\ ~Waits(q))
     /\ s # None
     /\ slot' = IF level[q] = 1 THEN None ELSE slot
     /\ active' = [active EXCEPT ![q] = previous[s]]
     /\ depth' = [depth EXCEPT ![s] = @ - 1]
     /\ level' = [level EXCEPT ![q] = @ - 1]
     /\ IF depth[s] = 1
        THEN /\ at' = [at EXCEPT ![q] = 0]
             /\ closing' = [closing EXCEPT ![q] = s]
             /\ pc' = [pc EXCEPT ![q] = "closing"]
        ELSE /\ pc' = IF level[q] = 1 THEN [pc EXCEPT ![q] = "ended"] ELSE pc
             /\ UNCHANGED <<at, closing>>
     /\ UNCHANGED <<scopeOf, cache, context, stacks, previous, hooked, pending, closed, made,
                    got, met, lost, stray>>

\* __aexit__ up to its first await: the last one to leave clears the cache and
\* the context and closes the stacks.
Exit(q) ==
  LET s == Left(q)
  IN /\ pc[q] = "leaving" \/ (pc[q] = "body" /\ ~Waits(q))
     /\ s # None
     /\ slot' = IF level[q] = 1 THEN None ELSE slot
     /\ active' = [active EXCEPT ![q] = previous[s]]
     /\ depth' = [depth EXCEPT ![s] = @ - 1]
     /\ level' = [level EXCEPT ![q] = @ - 1]
     /\ IF depth[s] = 1
        THEN /\ cache' = [cache EXCEPT ![s] = [k \in Keys |-> None]]
             /\ context' = [context EXCEPT ![s] = None]
             /\ at' = [at EXCEPT ![q] = 0]
             /\ closing' = [closing EXCEPT ![q] = s]
             /\ pc' = [pc EXCEPT ![q] = "closing"]
        ELSE /\ pc' = IF level[q] = 1 THEN [pc EXCEPT ![q] = "ended"] ELSE pc
             /\ UNCHANGED <<cache, context, at, closing>>
     /\ UNCHANGED <<scopeOf, stacks, previous, hooked, pending, closed, made, got, met, lost,
                    stray>>

\* The hook after the handler finds the slot empty: another message took its
\* scope out.
HookFindsNothing(q) ==
  /\ pc[q] = "leaving" \/ (pc[q] = "body" /\ ~Waits(q))
  /\ Left(q) = None
  /\ level' = [level EXCEPT ![q] = 0]
  /\ pc' = [pc EXCEPT ![q] = "ended"]
  /\ UNCHANGED <<scopeOf, cache, context, stacks, depth, previous, active, at, pending, closed,
                 made, got, met, stray, hooks>>

\* "for key, stack in self._async_exit_stack: await stack.aclose()".  The loop
\* also reaches what is appended while it waits; a finalizer that raises does
\* not stop it.
CloseNext(q) ==
  /\ pc[q] = "closing" /\ at[q] < Len(stacks[closing[q]])
  /\ at' = [at EXCEPT ![q] = @ + 1]
  /\ closed' = closed \cup {stacks[closing[q]][at[q] + 1]}
  /\ UNCHANGED <<scopeOf, cache, context, stacks, depth, previous, active, pc, level, pending,
                 made, got, met, stray, hooks>>

\* Mutant: the loop ends when the index is the length of the list.
FinishExact(q) ==
  /\ pc[q] = "closing" /\ at[q] = Len(stacks[closing[q]])
  /\ stacks' = [stacks EXCEPT ![closing[q]] = <<>>]
  /\ pc' = [pc EXCEPT ![q] = "ended"]
  /\ UNCHANGED <<scopeOf, cache, context, depth, previous, active, level, at, pending, closed,
                 made, got, met, stray, hooks>>

Finish(q) ==
  /\ pc[q] = "closing" /\ at[q] >= Len(stacks[closing[q]])
  /\ stacks' = [stacks EXCEPT ![closing[q]] = <<>>]
  /\ pc' = [pc EXCEPT ![q] = "ended"]
  /\ UNCHANGED <<scopeOf, cache, context, depth, previous, active, level, at, pending, closed,
                 made, got, met, stray, hooks>>

-----------------------------------------------------------------------------
Next ==
  \/ \E q \in Requests : Enter(q)
  \/ \E q \in Requests : Reenter(q)
  \/ \E q \in Requests, k \in Keys : GetHit(q, k)
  \/ \E q \in Requests, k \in Keys : GetContext(q, k)
  \/ \E q \in Requests, i \in Slots, k \in Keys : GetStarts(q, i, k)
  \/ \E q \in Requests, i \in Slots : GetEnds(q, i)
  \/ \E q \in Requests, i \in Slots : GetFails(q, i)
  \/ \E q \in Requests : Cancel(q)
  \/ \E q \in Requests : Exit(q)
  \/ \E q \in Requests : HookFindsNothing(q)
  \/ \E q \in Requests : CloseNext(q)
  \/ \E q \in Requests : Finish(q)

Spec == Init /\ [][Next]_vars

\* A request whose handler is being left, or whose scope is being closed, goes
\* on: the loop runs it and finalizers return.  Nothing is assumed about
\* handlers, nor about what they await.
Leave(q) == (pc[q] = "leaving" /\ (Exit(q) \/ HookFindsNothing(q))) \/ CloseNext(q) \/ Finish(q)
Fairness == \A q \in Requests : WF_vars(Leave(q))
FairSpec == Spec /\ Fairness
-----------------------------------------------------------------------------
(* Properties *)

\* The entries of the requests inside a scope, one per level.
Entries(s) ==
  {e \in Requests \X (1..MaxLevel) : scopeOf[e[1]] = s /\ e[2] <= level[e[1]]}

\* The depth of a scope decides when its cache is dropped and its resources
\* are closed.  It is the number of times requests are inside, however they
\* left; only an entry that the slot of a hooked integration forgot, because the
\* next message came before the end of the last one, is counted for ever.
DepthCounts ==
  \A s \in Scopes :
    /\ ~Forgot => depth[s] = Cardinality(Entries(s))
    /\ (\A q \in Requests : pc[q] \in {"idle", "ended"}) => depth[s] = lost[s]

\* Requests that reuse a scope one after the other share nothing: none is
\* given the request object or an instance of another.
Clean(q) == q \notin met /\ scopeOf[q] \notin stray /\ ~Forgot
ReuseIsClean ==
  \A q \in Requests : Clean(q) =>
    /\ got[q] \cap Requests \subseteq {q}
    /\ \A p \in Requests \ {q} : Clean(p) => got[q] \cap got[p] = {}

\* A handler never holds a resource that was finalized, unless its scope was
\* shared at the same time.
HeldIsOpen == \A q \in Requests : Clean(q) /\ pc[q] = "body" => got[q] \cap closed = {}

\* When everybody has left a scope, every resource that was opened in it has
\* been finalized: requests at the same time, re-entered scopes, several calls
\* for one key and failures included.  Hooked messages at the same time are not:
\* the scope that the slot forgot stays open, and what a handler opens in a
\* scope that another message's hook has closed stays open too.
AllClosed ==
  \A s \in Scopes : s \notin stray /\ ~Forgot /\ Present(s) = {} =>
    \A q \in Requests : scopeOf[q] = s => got[q] \cap (Resources \X Nat) \subseteq closed

\* A request that begins to leave does end, though others may add to the list
\* of stacks that it goes through.
LeavingEnds == \A q \in Requests : pc[q] \in {"leaving", "closing"} ~> pc[q] = "ended"
=============================================================================
