--------------------------- MODULE AsyncResolution ---------------------------
(***************************************************************************)
(* Container.aget: resolution on one event loop.                           *)
(*                                                                         *)
(* Each resolution runs until it awaits; what happens between two awaits   *)
(* is one step.  A service with dependencies resolves all of its closure   *)
(* level by level, the services of one level concurrently (asyncio.gather),*)
(* so a request is a tree of calls.  The tree shares one resolution path   *)
(* and one list of exit stacks; all requests share the singleton cache,    *)
(* which the asynchronous path reads and writes without a lock.            *)
(*                                                                         *)
(* A call is named by its position: the request, then the keys from the    *)
(* root down to its own.                                                   *)
(***************************************************************************)
EXTENDS Integers, SequencesExt

CONSTANTS
  Requests,     \* calls of aget made by the application, one each
  Asks,         \* the ways the requests may ask for keys, one key each
  Contexts,     \* the path lists the context variable of their tasks hold
  Context,      \* Context[q]: the list request q uses
  Keys, Registered, Singletons,
  AsyncKeys,    \* keys with a factory that awaits
  Resources,    \* keys of async yield providers; they take no dependencies
  Deps,         \* Deps[k]: the declared dependencies of k, in order
  FinalizationErrors,  \* the flag that raises what a finalizer raised
  NoObj

DepSet(k) == ToSet(Deps[k])

\* Needed[k]: the keys reachable from the dependencies of k, by chains of
\* declared dependencies.
Closed(S) == \A j \in S : DepSet(j) \subseteq S
ClosedSets == {S \in SUBSET Keys : Closed(S)}
Needed ==
  [k \in Keys |->
    {j \in Keys : \A S \in ClosedSets : DepSet(k) \subseteq S => j \in S}]

ASSUME AsyncAssumption ==
  /\ IsFiniteSet(Keys)
  /\ Context \in [Requests -> Contexts]
  /\ Registered \subseteq Keys /\ Asks \subseteq [Requests -> Keys]
  /\ Singletons \cup AsyncKeys \cup Resources \subseteq Registered
  /\ AsyncKeys \cap Resources = {}
  /\ Deps \in [Keys -> Seq(Keys)]
  /\ \A k \in Resources : Deps[k] = <<>>
  /\ FinalizationErrors \in BOOLEAN
  /\ NoObj \notin Keys \X Nat

VARIABLES
  asked,     \* the key each request asks for, fixed from the start
  single,    \* Container.single
  path,      \* the resolution path in each context
  calls,     \* the calls of aget in progress, or ended and not yet collected
  stacks,    \* the exit stacks of each request: the resource inside, or NoObj
  closed,    \* resources whose finalizer has run
  outcome,   \* how each request ended, or "idle", or "running"
  made,      \* history: instances produced per key
  handed,    \* history: instances of singletons that calls returned
  ends,      \* history: how the calls of each request ended
  cancelled, \* requests whose task was cancelled
  alone      \* history: no request began while another one was in progress

vars == <<asked, single, path, calls, stacks, closed, outcome, made, handed, ends,
          cancelled, alone>>

Obj == Keys \X (Nat \ {0})
Errors == {"cycle", "missing", "uncollected", "failed"}
Results == {"ok", "cancelled"} \cup Errors
CallRecord == [pc : {"ready", "gather", "factory", "open", "finalize", "ended"},
               at : Nat,           \* level awaited, or index in the list of stacks
               cancel : BOOLEAN,   \* CancelledError is thrown when the call resumes
               bad : BOOLEAN,      \* a finalizer has raised
               out : Results]
NewCall == [pc |-> "ready", at |-> 0, cancel |-> FALSE, bad |-> FALSE, out |-> "ok"]

TypeOK ==
  /\ asked \in Asks
  /\ single \in [Keys -> Obj \cup {NoObj}]
  /\ path \in [Contexts -> Seq(Keys)]
  /\ \A id \in DOMAIN calls :
       /\ calls[id] \in CallRecord
       /\ Len(id) > 1 /\ Head(id) \in Requests /\ \A i \in 2..Len(id) : id[i] \in Keys
  /\ stacks \in [Requests -> Seq(Obj \cup {NoObj})]
  /\ closed \in SUBSET Obj
  /\ outcome \in [Requests -> Results \cup {"idle", "running"}]
  /\ made \in [Keys -> Nat]
  /\ handed \in [Keys -> SUBSET Obj]
  /\ ends \in [Requests -> SUBSET Results]
  /\ cancelled \in SUBSET Requests
  /\ alone \in BOOLEAN

Init ==
  /\ asked \in Asks
  /\ single = [k \in Keys |-> NoObj]
  /\ path = [c \in Contexts |-> <<>>]
  /\ calls = <<>>
  /\ stacks = [q \in Requests |-> <<>>]
  /\ closed = {}
  /\ outcome = [q \in Requests |-> "idle"]
  /\ made = [k \in Keys |-> 0]
  /\ handed = [k \in Keys |-> {}]
  /\ ends = [q \in Requests |-> {}]
  /\ cancelled = {}
  /\ alone = TRUE

-----------------------------------------------------------------------------
(* Levels of dependencies *)

\* Waiting[n]: the keys that depend on something that is waiting still after
\* n rounds.  In each round the others are released.  It does not matter who
\* needs them: what a needed key depends on is needed too.
Waiting[n \in 0..Cardinality(Keys)] ==
  IF n = 0 THEN Keys ELSE UNION {{k \in Keys : j \in DepSet(k)} : j \in Waiting[n - 1]}
Uncollected == Waiting[Cardinality(Keys)]
\* Mutant: everything that is needed starts at once.
LevelAll(k, n) == IF n = 1 THEN Needed[k] ELSE {}
Level(k, n) ==
  IF n > Cardinality(Keys) THEN {} ELSE Needed[k] \cap (Waiting[n - 1] \ Waiting[n])

-----------------------------------------------------------------------------
(* The tree of calls *)

Key(id) == Last(id)
Req(id) == Head(id)
PathOf(id) == path[Context[Req(id)]]
IsRoot(id) == Len(id) = 2
Children(id) == {c \in DOMAIN calls : Len(c) > 2 /\ Front(c) = id}
At(id, pc) == id \in DOMAIN calls /\ calls[id].pc = pc /\ ~calls[id].cancel

\* Its gather still waits for the call; a call whose gather has failed, or
\* whose caller was cancelled, runs on and its result is dropped.
Awaited(id) == Front(id) \in DOMAIN calls /\ calls[Front(id)].pc = "gather"
EndedChildren(id) == {c \in Children(id) : calls[c].pc = "ended"}
\* Mutant: gather is told to return exceptions as results.
FailuresReturned(id) == {}
FailedChildren(id) == {c \in EndedChildren(id) : calls[c].out # "ok"}
Gathered(id) == FailedChildren(id) # {} \/ Children(id) = EndedChildren(id)

\* The calls without the children that id has collected.
Without(id) == Restrict(calls, DOMAIN calls \ EndedChildren(id))
Spawn(id, n, rest) ==
  [c \in DOMAIN rest \cup {Append(id, j) : j \in Level(Key(id), n)} |->
     IF c = id THEN [rest[id] EXCEPT !.pc = "gather", !.at = n]
     ELSE IF c \in DOMAIN rest THEN rest[c] ELSE NewCall]

EnterPath(id) == path' = [path EXCEPT ![Context[Req(id)]] = Append(@, Key(id))]

\* Mutant: the path is popped on success only.
LeavePopsOk(id, entered, r) ==
  /\ path' = IF entered /\ r = "ok"
             THEN [path EXCEPT ![Context[Req(id)]] = Front(@)] ELSE path
  /\ calls' = IF Awaited(id)
              THEN [Without(id) EXCEPT ![id] = [NewCall EXCEPT !.pc = "ended", !.out = r]]
              ELSE Restrict(Without(id), DOMAIN Without(id) \ {id})
  /\ outcome' = IF IsRoot(id) THEN [outcome EXCEPT ![Req(id)] = r] ELSE outcome
  /\ ends' = [ends EXCEPT ![Req(id)] = @ \cup {r}]
  /\ UNCHANGED <<asked, cancelled, alone>>

\* The call ends; "finally: path.pop()" if it had entered the path.
Leave(id, entered, r) ==
  /\ path' = IF entered THEN [path EXCEPT ![Context[Req(id)]] = Front(@)] ELSE path
  /\ calls' = IF Awaited(id)
              THEN [Without(id) EXCEPT ![id] = [NewCall EXCEPT !.pc = "ended", !.out = r]]
              ELSE Restrict(Without(id), DOMAIN Without(id) \ {id})
  /\ outcome' = IF IsRoot(id) THEN [outcome EXCEPT ![Req(id)] = r] ELSE outcome
  /\ ends' = [ends EXCEPT ![Req(id)] = @ \cup {r}]
  /\ UNCHANGED <<asked, cancelled, alone>>

\* Mutant: what an asynchronous factory returned is not cached.
StoreSync(k, o) ==
  IF k \in Singletons
  THEN /\ single' = IF k \in AsyncKeys THEN single ELSE [single EXCEPT ![k] = o]
       /\ handed' = [handed EXCEPT ![k] = @ \cup {o}]
  ELSE UNCHANGED <<single, handed>>
\* The factory has returned: store a singleton, whatever is cached by now, and
\* return it.
Store(k, o) ==
  IF k \in Singletons
  THEN /\ single' = [single EXCEPT ![k] = o]
       /\ handed' = [handed EXCEPT ![k] = @ \cup {o}]
  ELSE UNCHANGED <<single, handed>>
NextObj(k) == <<k, made[k] + 1>>
Produce(k) == made' = IF k \in Singletons \cup Resources
                      THEN [made EXCEPT ![k] = @ + 1] ELSE made
Built(id, entered) ==
  /\ Produce(Key(id))
  /\ Store(Key(id), NextObj(Key(id)))
  /\ Leave(id, entered, "ok")
Failed(id, entered, r) ==
  /\ Leave(id, entered, r)
  /\ UNCHANGED <<single, handed, made>>

-----------------------------------------------------------------------------
(* The application *)

Request(q) ==
  /\ outcome[q] = "idle"
  /\ calls' = [id \in DOMAIN calls \cup {<<q, asked[q]>>} |->
                 IF id \in DOMAIN calls THEN calls[id] ELSE NewCall]
  /\ outcome' = [outcome EXCEPT ![q] = "running"]
  /\ alone' = (alone /\ \A p \in Requests : outcome[p] # "running")
  /\ UNCHANGED <<asked, single, path, stacks, closed, made, handed, ends, cancelled>>

\* The task of the request is cancelled, once.  The cancellation goes through
\* each gather that is still waiting down to the calls that run.
Lands(q) ==
  {id \in DOMAIN calls :
     /\ Req(id) = q /\ calls[id].pc # "ended"
     /\ ~(calls[id].pc = "gather" /\ ~Gathered(id))
     /\ \A n \in 2..Len(id) - 1 :
          LET up == SubSeq(id, 1, n)
          IN up \in DOMAIN calls /\ calls[up].pc = "gather" /\ ~Gathered(up)}
Cancel(q) ==
  /\ outcome[q] = "running" /\ q \notin cancelled
  /\ calls' = [id \in DOMAIN calls |->
                 IF id \in Lands(q) THEN [calls[id] EXCEPT !.cancel = TRUE] ELSE calls[id]]
  /\ cancelled' = cancelled \cup {q}
  /\ UNCHANGED <<asked, single, path, stacks, closed, outcome, made, handed, ends, alone>>

-----------------------------------------------------------------------------
(* A call begins and runs to its first await, or to its end *)

Hit(id) ==
  /\ At(id, "ready")
  /\ single[Key(id)] # NoObj
  /\ handed' = [handed EXCEPT ![Key(id)] = @ \cup {single[Key(id)]}]
  /\ Leave(id, FALSE, "ok")
  /\ UNCHANGED <<single, stacks, closed, made>>

Missed(id) == At(id, "ready") /\ single[Key(id)] = NoObj
OnPath(id) == Key(id) \in ToSet(PathOf(id))
NoLevels(id) == Deps[Key(id)] # <<>> /\ Level(Key(id), 1) = {}
Admitted(id) == Missed(id) /\ ~OnPath(id) /\ Key(id) \in Registered /\ ~NoLevels(id)

\* The key is on the path, has no rule, or no dependency can come first.
Refuse(id) ==
  /\ Missed(id)
  /\ CASE OnPath(id) -> Failed(id, FALSE, "cycle")
       [] Key(id) \notin Registered -> Failed(id, FALSE, "missing")
       [] OTHER -> NoLevels(id) /\ Failed(id, FALSE, "cycle")
  /\ UNCHANGED <<stacks, closed>>

\* A synchronous factory without dependencies is called at once.
BuildLeaf(id) ==
  /\ Admitted(id)
  /\ Deps[Key(id)] = <<>> /\ Key(id) \notin AsyncKeys \cup Resources
  /\ Built(id, FALSE) \/ Failed(id, FALSE, "failed")
  /\ UNCHANGED <<stacks, closed>>

Enter(id) ==
  /\ Admitted(id)
  /\ LET k == Key(id)
     IN /\ \/ /\ k \in Resources
              /\ stacks' = [stacks EXCEPT ![Req(id)] = Append(@, NoObj)]
              /\ calls' = [calls EXCEPT ![id].pc = "open", ![id].at = Len(stacks'[Req(id)])]
           \/ /\ k \in AsyncKeys /\ Deps[k] = <<>>
              /\ calls' = [calls EXCEPT ![id].pc = "factory"]
              /\ stacks' = stacks
           \/ /\ Deps[k] # <<>>
              /\ calls' = Spawn(id, 1, calls)
              /\ stacks' = stacks
  /\ EnterPath(id)
  /\ UNCHANGED <<asked, single, closed, outcome, made, handed, ends, cancelled, alone>>

-----------------------------------------------------------------------------
(* A call resumes *)

\* Mutant: a service none of whose remaining dependencies is released waits.
CollectWaits(id) ==
  /\ At(id, "gather") /\ Gathered(id) /\ FailedChildren(id) = {}
  /\ LET k == Key(id)
         n == calls[id].at + 1
     IN IF Level(k, n) # {}
        THEN /\ calls' = Spawn(id, n, Without(id))
             /\ UNCHANGED <<asked, single, path, outcome, made, handed, ends, cancelled, alone>>
        ELSE /\ DepSet(k) \cap Uncollected = {}
             /\ Built(id, TRUE) \/ Failed(id, TRUE, "failed")
  /\ UNCHANGED <<stacks, closed>>

\* All calls of the level have returned: the next level, or the factory with
\* the collected dependencies.  args[dep] fails for a dependency that no level
\* released.
Collect(id) ==
  /\ At(id, "gather") /\ Gathered(id) /\ FailedChildren(id) = {}
  /\ LET k == Key(id)
         n == calls[id].at + 1
     IN CASE Level(k, n) # {} ->
               /\ calls' = Spawn(id, n, Without(id))
               /\ UNCHANGED <<asked, single, path, outcome, made, handed, ends, cancelled, alone>>
          [] Level(k, n) = {} /\ DepSet(k) \cap Uncollected # {} ->
               Failed(id, TRUE, "uncollected")
          [] OTHER ->
               \/ /\ k \in AsyncKeys
                  /\ calls' = [Without(id) EXCEPT ![id].pc = "factory"]
                  /\ UNCHANGED <<asked, single, path, outcome, made, handed, ends, cancelled, alone>>
               \/ k \notin AsyncKeys /\ (Built(id, TRUE) \/ Failed(id, TRUE, "failed"))
  /\ UNCHANGED <<stacks, closed>>

\* "except CancelledError": finalize what the request has opened, then raise.
Finalize(id) ==
  /\ calls' = [Without(id) EXCEPT ![id].pc = "finalize", ![id].at = 0, ![id].cancel = FALSE]
  /\ UNCHANGED <<asked, single, path, stacks, closed, outcome, made, handed, ends, cancelled,
                 alone>>

\* One call of the level has raised: the exception goes up at once, and the
\* other calls of the level run on.
Abort(id) ==
  /\ At(id, "gather")
  /\ \E c \in FailedChildren(id) :
       IF calls[c].out = "cancelled" THEN Finalize(id)
       ELSE Failed(id, TRUE, calls[c].out) /\ UNCHANGED <<stacks, closed>>

FactoryEnds(id) ==
  /\ At(id, "factory")
  /\ Built(id, TRUE) \/ Failed(id, TRUE, "failed")
  /\ UNCHANGED <<stacks, closed>>

\* The provider has yielded its resource, or raised before that.
Opens(id) ==
  /\ At(id, "open")
  /\ \/ /\ Built(id, TRUE)
        /\ stacks' = [stacks EXCEPT ![Req(id)][calls[id].at] = NextObj(Key(id))]
     \/ Failed(id, TRUE, "failed") /\ stacks' = stacks
  /\ closed' = closed

\* Mutant: the cancellation is swallowed, and nothing is what the call returns.
ThrowSwallowed(id) ==
  /\ id \in DOMAIN calls /\ calls[id].cancel
  /\ Store(Key(id), NoObj)
  /\ Leave(id, calls[id].pc # "ready", "ok")
  /\ UNCHANGED <<made, stacks, closed>>

\* CancelledError is thrown at the await; in a task that never ran, before
\* the first line.
Throw(id) ==
  /\ id \in DOMAIN calls /\ calls[id].cancel
  /\ IF calls[id].pc = "ready"
     THEN Failed(id, FALSE, "cancelled") /\ UNCHANGED <<stacks, closed>>
     ELSE Finalize(id)

\* _finalize_on_cancel goes through the list of stacks that the whole request
\* shares; the finalizer of a resource may raise.
Close(id) ==
  /\ At(id, "finalize")
  /\ LET q == Req(id)
         n == calls[id].at + 1
     IN /\ n <= Len(stacks[q])
        /\ \E raises \in IF stacks[q][n] = NoObj THEN {FALSE} ELSE BOOLEAN :
             calls' = [calls EXCEPT ![id].at = n, ![id].bad = @ \/ raises]
        /\ closed' = closed \cup ({stacks[q][n]} \ {NoObj})
        /\ stacks' = [stacks EXCEPT ![q][n] = NoObj]
  /\ UNCHANGED <<asked, single, path, outcome, made, handed, ends, cancelled, alone>>

\* Mutant: the loop over the stacks ends one too early.
FinalizedShort(id) ==
  /\ At(id, "finalize")
  /\ calls[id].at + 1 >= Len(stacks[Req(id)])
  /\ Failed(id, TRUE, IF calls[id].bad /\ FinalizationErrors THEN "failed" ELSE "cancelled")
  /\ UNCHANGED <<stacks, closed>>

Finalized(id) ==
  /\ At(id, "finalize")
  /\ calls[id].at = Len(stacks[Req(id)])
  /\ Failed(id, TRUE, IF calls[id].bad /\ FinalizationErrors THEN "failed" ELSE "cancelled")
  /\ UNCHANGED <<stacks, closed>>

-----------------------------------------------------------------------------
Tree(q) == {id \in DOMAIN calls : Req(id) = q}

\* A call of request q goes on.
Advance(q) ==
  \/ \E id \in Tree(q) : Hit(id)
  \/ \E id \in Tree(q) : Refuse(id)
  \/ \E id \in Tree(q) : BuildLeaf(id)
  \/ \E id \in Tree(q) : Enter(id)
  \/ \E id \in Tree(q) : Collect(id)
  \/ \E id \in Tree(q) : Abort(id)
  \/ \E id \in Tree(q) : FactoryEnds(id)
  \/ \E id \in Tree(q) : Opens(id)
  \/ \E id \in Tree(q) : Throw(id)
  \/ \E id \in Tree(q) : Close(id)
  \/ \E id \in Tree(q) : Finalized(id)

Next == \E q \in Requests : Request(q) \/ Cancel(q) \/ Advance(q)

Spec == Init /\ [][Next]_vars

\* The loop runs the tasks that can go on, and what they await completes.
\* Nothing is assumed about the order, nor that requests come.
Fairness == \A q \in Requests : WF_vars(Advance(q))
FairSpec == Spec /\ Fairness
-----------------------------------------------------------------------------
(* Properties *)

\* The path list of a context has one entry per call that entered and has not
\* left, cancelled and abandoned calls included: none stays behind.
Entered(c) ==
  {id \in DOMAIN calls :
     Context[Req(id)] = c /\ calls[id].pc \in {"gather", "factory", "open", "finalize"}}
PathDrains == \A c \in Contexts : Len(path[c]) = Cardinality(Entered(c))

\* A call of a later level starts when every singleton it depends on has been
\* cached: this is what keeps concurrent branches of one request from building
\* the same singleton twice.
LevelsInOrder ==
  \A id \in DOMAIN calls :
    calls[id].pc = "ready" /\ ~IsRoot(id)
      => \A d \in DepSet(Key(id)) \cap Singletons : single[d] # NoObj

\* Requests that do not overlap get the same instance of every singleton,
\* however branches interleave, as long as nothing fails or is cancelled.
SequentialIdentity ==
  alone /\ (\A q \in Requests : ends[q] \subseteq {"ok"})
    => \A k \in Keys : \A o1, o2 \in handed[k] : o1 = o2

\* A cancelled request in which nothing else went wrong has finalized every
\* resource it had created, whichever of its calls opened it.
CancelFinalizes ==
  \A q \in Requests :
    outcome[q] = "cancelled" /\ ends[q] \subseteq {"ok", "cancelled"}
      => \A i \in 1..Len(stacks[q]) : stacks[q][i] = NoObj

\* A request succeeds only if everything it needs has a rule and no rule
\* depends on itself; a call is refused as missing, left without a dependency,
\* or cancelled only for cause.
Graph(q) == {asked[q]} \cup Needed[asked[q]]
OnCycle(k) == k \in Needed[k]
OutcomeExact ==
  \A q \in Requests :
    /\ outcome[q] = "ok" => Graph(q) \subseteq {k \in Registered : ~OnCycle(k)}
    /\ "missing" \in ends[q] => ~(Graph(q) \subseteq Registered)
    /\ "uncollected" \in ends[q] => \E k \in Graph(q) : OnCycle(k)
    /\ "cancelled" \in ends[q] => q \in cancelled

\* DependencyCycleError is raised when there is a dependency cycle.
CyclesAreReal ==
  \A q \in Requests : "cycle" \in ends[q] => \E k \in Graph(q) : OnCycle(k)

\* A singleton that is cached has not been finalized.
CachedIsOpen == \A k \in Keys : single[k] \notin closed

\* Every request comes back, with a result or with an error.
RequestEnds == \A q \in Requests : outcome[q] = "running" ~> outcome[q] # "running"
=============================================================================
