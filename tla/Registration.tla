----------------------------- MODULE Registration -----------------------------
(***************************************************************************)
(* Registration of rules in one RuleSet, which has no lock, by threads and *)
(* in all the ways there are: single registrations, modules, providers     *)
(* assigned to attributes, configuration trees, packages that are scanned, *)
(* and rules that Container.get makes up for types on demand.              *)
(*                                                                         *)
(* RuleSet.add writes the rule first, then looks for a cycle, and takes a  *)
(* refused rule back by restoring copies of the whole map and graph.       *)
(* Threads switch between any two statements of it; the search for a cycle *)
(* is one step.                                                            *)
(***************************************************************************)
EXTENDS Integers, SequencesExt

CONSTANTS
  Threads, Keys,
  Setups,       \* containers and what the threads do; the fields are in SetupShape
  NoEntry,      \* the key is not registered
  NoThread, NoKey

\* A key is a name, an injectable class, one whose parameters are not all
\* annotated, another class, a type the fallback rejects, or a collection type.
Kinds == {"name", "injectable", "unannotated", "class", "rejected", "collection"}
\* Providers whose references are members: they have to be bound already.
Aggregates == {"ListOf", "SetOf", "DictOf", "Selector", "Dependency"}
Cached == {"Singleton", "Value", "Alias", "Dependency"}
\* A reference is a key or a bound provider, an attribute read from the container,
\* or a provider object that was never assigned; that has no key.
Forms == {"key", "attribute", "unassigned"}
Providers == Aggregates \cup Cached \cup {"Factory", "Scoped", "Assisted"}

\* A search that follows E comes back to a key it is in: k is one of a set of
\* keys each of which leads to another of the set.
CycleFrom(E, k) ==
  \E C \in SUBSET DOMAIN E : k \in C /\ \A i \in C : E[i] \cap C # {}
\* What g has for a key, less the keys that are not known.
EdgesOf(g, known) == [k \in {i \in Keys : g[i] # NoEntry} |-> ToSet(g[k]) \cap known]

JobShape(j) ==
  CASE j.do = "install" ->             \* service, value, alias, one or several in modules
         /\ j.strict \in BOOLEAN       \* DuplicateKeyPolicy.FAIL
         /\ j.items \in Seq([key : Keys, deps : Seq(Keys)])
    [] j.do = "assign" ->              \* services.name = Provider(class, *refs)
         /\ j.provider \in Providers /\ j.name \in Keys /\ j.class \in Keys \cup {NoKey}
         /\ j.refs \in Seq([key : Keys, form : Forms])
         /\ j.needs \in 0..Len(j.refs)  \* arguments the factory cannot do without
    [] j.do = "config" -> j.name \in Keys
    [] j.do = "scan" -> j.classes \in Seq(Keys)
    [] j.do = "get" -> j.key \in Keys
SetupShape(s) ==
  /\ \A t \in Threads : \A i \in DOMAIN s.jobs[t] : JobShape(s.jobs[t][i])
  /\ s.given \in [Keys -> Seq(Keys) \cup {NoEntry}]  \* rules registered before
  /\ s.checked \in BOOLEAN                  \* check_cycles_on_register
  /\ s.checked => LET E == EdgesOf(s.given, {k \in Keys : s.given[k] # NoEntry})
                  IN \A k \in Keys : ~CycleFrom(E, k)
  /\ s.kind \in [Keys -> Kinds]
  /\ s.annotated \in [Keys -> Seq(Keys)]    \* dependencies by annotation
  /\ s.members \in [Keys -> SUBSET Keys]    \* qualified keys of a class; the item type of a
                                            \*   collection with its qualified keys
  /\ s.failing \subseteq Keys               \* their factories raise
  /\ s.fallback \in BOOLEAN /\ s.maxDepth \in Nat   \* TypeFallbackStrategy
  /\ s.sources \subseteq Seq(Keys)          \* paths the configuration source may hold
ASSUME KeysAssumption == IsFiniteSet(Keys)
ASSUME SetupAssumption == \A s \in Setups : SetupShape(s)

VARIABLES
  setup,
  rules,     \* RuleSet.map
  graph,     \* RuleSet.graph
  bound,     \* Container._providers: the attributes assigned
  cached,    \* keys of Container.single
  source,    \* what the configuration source holds
  owner,     \* the thread inside Container.lock
  next,      \* the job each thread does next
  job,       \* the job each thread does, with the add it is in
  accepted,  \* history: per key, the last rule whose add returned
  mixed,     \* history: adds ran at once and one of them was refused or had the other's key
  ended      \* history: the last get of each thread

vars == <<setup, rules, graph, bound, cached, source, owner, next, job, accepted, mixed, ended>>

Makers == {"given", "wired", "config"}
\* raises: what the factory does when it is called with these dependencies.
Rule == [deps : Seq(Keys), by : Makers, single : BOOLEAN, raises : BOOLEAN]
RuleOf(deps, by, single, raises) ==
  [deps |-> deps, by |-> by, single |-> single, raises |-> raises]
\* What rules has for a key that is not registered.
NoRule == [deps |-> <<>>, by |-> "nobody", single |-> FALSE, raises |-> FALSE]
NoGet == [key |-> NoKey]
Idle == [pc |-> "idle",
         todo |-> <<>>,      \* the rules still to be added
         paths |-> <<>>,     \* the keys get still has to resolve, with their paths
         oldRules |-> <<>>, oldGraph |-> <<>>,   \* the copies add took
         tried |-> FALSE,    \* get added a rule for the key and looks again
         read |-> {},        \* history: the paths the configuration was checked for and has
                             \*   not registered yet
         touched |-> {},     \* history: rules others changed since this thread last looked
         crossed |-> FALSE,  \* history: others wrote during this add
         alone |-> TRUE,     \* history: no other thread took a step during this job
         before |-> <<>>]    \* history: the rules and instances at the start
Adding == {"copy graph", "map", "graph", "check", "undo", "undo graph"}
Pcs == {"idle", "read", "item", "copy", "find"} \cup Adding

Current(t) == setup.jobs[t][next[t]]
Does(t, do) == next[t] \in DOMAIN setup.jobs[t] /\ Current(t).do = do

TypeOK ==
  /\ SetupShape(setup)
  /\ rules \in [Keys -> Rule \cup {NoRule}]
  /\ graph \in [Keys -> Seq(Keys) \cup {NoEntry}]
  /\ bound \subseteq Keys /\ cached \subseteq Keys
  /\ source \in Seq(Keys)
  /\ owner \in Threads \cup {NoThread}
  /\ owner # NoThread => Does(owner, "get") /\ job[owner].pc # "idle"
  /\ next \in [Threads -> Nat]
  /\ \A t \in Threads :
       /\ job[t].pc \in Pcs
       /\ job[t].pc \in Adding => job[t].todo # <<>> /\ DOMAIN job[t].oldRules = Keys
       /\ job[t].pc = "idle" => job[t] = Idle
  /\ accepted \in [Keys -> Rule \cup {NoRule}]
  /\ mixed \in BOOLEAN

Init ==
  /\ setup \in Setups
  /\ rules = [k \in Keys |-> IF setup.given[k] = NoEntry THEN NoRule
                ELSE RuleOf(setup.given[k], "given", FALSE, k \in setup.failing)]
  /\ graph = setup.given
  /\ bound = {} /\ cached = {}
  /\ source \in setup.sources
  /\ owner = NoThread
  /\ next = [t \in Threads |-> 1]
  /\ job = [t \in Threads |-> Idle]
  /\ accepted = rules
  /\ mixed = FALSE
  /\ ended = [t \in Threads |-> NoGet]

-----------------------------------------------------------------------------
(* What a thread does next, and what its steps mean to the others *)

At(t, pc) == job[t].pc = pc
Item(t) == Head(job[t].todo)
Known(k) == rules[k] # NoRule

\* t goes on as j; others have this step in their history.
Goes(t, j) ==
  job' = [u \in Threads |->
    IF u = t THEN j
    ELSE IF job[u].pc = "idle" THEN job[u]
    ELSE [job[u] EXCEPT !.alone = FALSE,
            !.touched = @ \cup {k \in Keys : rules'[k] # rules[k]},
            !.crossed = @ \/ (job[u].pc \in Adding /\ <<rules', graph'>> # <<rules, graph>>)]]
Moves(t, j) ==
  /\ UNCHANGED <<setup, rules, graph, bound, cached, source, owner, next, accepted, mixed, ended>>
  /\ Goes(t, j)
Starts(t, j) ==
  Moves(t, [j EXCEPT !.alone = \A u \in Threads \ {t} : job[u].pc = "idle"])
\* Mutant: the lock is kept.
StopsLocked(t) == next' = [next EXCEPT ![t] = @ + 1] /\ UNCHANGED owner /\ Goes(t, Idle)
Stops(t) ==
  /\ next' = [next EXCEPT ![t] = @ + 1]
  /\ owner' = IF owner = t THEN NoThread ELSE owner
  /\ Goes(t, Idle)
\* Only gets are remembered.
Ends(t, result) ==
  /\ Stops(t)
  /\ ended' = IF Current(t).do # "get" THEN ended
              ELSE [ended EXCEPT ![t] =
                     [key |-> Current(t).key, result |-> result, alone |-> job[t].alone,
                      before |-> job[t].before, after |-> rules]]
Fails(t, result) ==
  UNCHANGED <<setup, rules, graph, bound, cached, source, accepted, mixed>> /\ Ends(t, result)

-----------------------------------------------------------------------------
(* RuleSet.add *)

After(t) == IF Current(t).do = "get" THEN "find" ELSE "item"

CopyMap(t) ==
  /\ At(t, "copy")
  /\ Moves(t, [job[t] EXCEPT !.pc = "copy graph", !.oldRules = rules, !.crossed = FALSE])
CopyGraph(t) ==
  /\ At(t, "copy graph")
  /\ Moves(t, [job[t] EXCEPT !.pc = "map", !.oldGraph = graph])

SharesKey(t) ==
  \E u \in Threads \ {t} : job[u].pc \in Adding /\ Item(u).key = Item(t).key
WriteMap(t) ==
  /\ At(t, "map")
  /\ rules' = [rules EXCEPT ![Item(t).key] = Item(t).rule]
  /\ mixed' = (mixed \/ SharesKey(t))
  /\ UNCHANGED <<setup, graph, bound, cached, source, owner, next, accepted, ended>>
  /\ Goes(t, [job[t] EXCEPT !.pc = "graph", !.read = @ \ {Item(t).key}])
WriteGraph(t) ==
  /\ At(t, "graph")
  /\ graph' = [graph EXCEPT ![Item(t).key] = Item(t).rule.deps]
  /\ mixed' = (mixed \/ SharesKey(t))
  /\ UNCHANGED <<setup, rules, bound, cached, source, owner, next, accepted, ended>>
  /\ Goes(t, [job[t] EXCEPT !.pc = "check"])

\* The search follows the graph, to keys that have a rule.
Edges == EdgesOf(graph, {k \in Keys : Known(k)})
\* Mutant: only a rule that depends on itself is found out.
ClosesItself(k) == k \in ToSet(graph[k])
Closes(k) == CycleFrom(Edges, k)

Accept(t) ==
  /\ At(t, "check") /\ (~setup.checked \/ ~Closes(Item(t).key))
  /\ accepted' = [accepted EXCEPT ![Item(t).key] = Item(t).rule]
  /\ UNCHANGED <<setup, rules, graph, bound, cached, source, owner, next, mixed, ended>>
  /\ Goes(t, [job[t] EXCEPT !.pc = After(t), !.todo = Tail(@), !.oldRules = <<>>,
                            !.oldGraph = <<>>, !.tried = After(t) = "find"])
Refuse(t) ==
  /\ At(t, "check") /\ setup.checked /\ Closes(Item(t).key)
  /\ Moves(t, [job[t] EXCEPT !.pc = "undo"])
UndoMap(t) ==
  /\ At(t, "undo")
  /\ rules' = job[t].oldRules
  /\ mixed' = (mixed \/ job[t].crossed)
  /\ UNCHANGED <<setup, graph, bound, cached, source, owner, next, accepted, ended>>
  /\ Goes(t, [job[t] EXCEPT !.pc = "undo graph"])
\* Mutant: the graph keeps the edges of a rule that was taken back.
UndoMapOnly(t) ==
  /\ At(t, "undo graph")
  /\ mixed' = (mixed \/ job[t].crossed)
  /\ UNCHANGED <<setup, rules, graph, bound, cached, source, accepted>>
  /\ Ends(t, "cycle")
UndoGraph(t) ==
  /\ At(t, "undo graph")
  /\ graph' = job[t].oldGraph
  /\ mixed' = (mixed \/ job[t].crossed)
  /\ UNCHANGED <<setup, rules, bound, cached, source, accepted>>
  /\ Ends(t, "cycle")

Add(t) ==
  \/ CopyMap(t) \/ CopyGraph(t) \/ WriteMap(t) \/ WriteGraph(t)
  \/ Accept(t) \/ Refuse(t) \/ UndoMap(t) \/ UndoGraph(t)

-----------------------------------------------------------------------------
(* Registrations, modules and providers *)

Entry(k, rule) == [key |-> k, rule |-> rule]

Install(t) ==
  /\ At(t, "idle") /\ Does(t, "install")
  /\ LET items == Current(t).items
     IN Starts(t, [Idle EXCEPT !.pc = "item", !.todo =
          [i \in DOMAIN items |-> Entry(items[i].key,
            RuleOf(items[i].deps, "given", FALSE, items[i].key \in setup.failing))]])

\* Reading services.x before x is assigned gives an UnboundProvider.
Unbound(ref) == ref.form = "attribute" /\ ref.key \notin bound
\* A provider without a key is an error, and so is an unbound member of an
\* aggregate; other providers drop what is unbound.
Rejects(provider, ref) ==
  ref.form = "unassigned" \/ (provider \in Aggregates /\ Unbound(ref))
RefKeys(refs) ==
  LET Bound[n \in 0..Len(refs)] ==
        IF n = 0 THEN <<>>
        ELSE IF Unbound(refs[n]) THEN Bound[n - 1] ELSE Append(Bound[n - 1], refs[n].key)
  IN Bound[Len(refs)]
\* The factory is called with the references that were not dropped: an argument
\* too few and it raises.  A class is registered too, as another name for the
\* provider's.
ProviderRules(j) ==
  LET single == j.provider \in Cached \/ (j.provider = "Factory" /\ j.class # NoKey)
      raises == j.name \in setup.failing \/ Len(RefKeys(j.refs)) < j.needs
      main == Entry(j.name, RuleOf(RefKeys(j.refs), "given", single, raises))
  IN IF j.class = NoKey THEN <<main>>
     ELSE <<main, Entry(j.class, RuleOf(<<j.name>>, "given", single, FALSE))>>
AssignRefused(t) ==
  /\ At(t, "idle") /\ Does(t, "assign")
  /\ \E i \in DOMAIN Current(t).refs : Rejects(Current(t).provider, Current(t).refs[i])
  /\ Fails(t, "unbound")
Assign(t) ==
  /\ At(t, "idle") /\ Does(t, "assign")
  /\ \A i \in DOMAIN Current(t).refs : ~Rejects(Current(t).provider, Current(t).refs[i])
  /\ Starts(t, [Idle EXCEPT !.pc = "item", !.todo = ProviderRules(Current(t))])

\* The sources are read for the check and again for the rules.
Taken(name) == {k \in {name} \cup ToSet(source) : Known(k)}
Duplicate(t) ==
  /\ At(t, "idle") /\ Does(t, "config") /\ Taken(Current(t).name) # {}
  /\ Fails(t, "duplicate")
\* Mutant: only the configuration's own name is checked.
ValidateName(t) ==
  /\ At(t, "idle") /\ Does(t, "config") /\ ~Known(Current(t).name)
  /\ Starts(t, [Idle EXCEPT !.pc = "read", !.read = {Current(t).name} \cup ToSet(source)])
Validate(t) ==
  /\ At(t, "idle") /\ Does(t, "config") /\ Taken(Current(t).name) = {}
  /\ Starts(t, [Idle EXCEPT !.pc = "read", !.read = {Current(t).name} \cup ToSet(source)])
ReadAgain(t) ==
  /\ At(t, "read")
  /\ LET names == <<Current(t).name>> \o source
     IN Moves(t, [job[t] EXCEPT !.pc = "item", !.todo =
          [i \in DOMAIN names |-> Entry(names[i], RuleOf(<<>>, "config", FALSE, FALSE))]])
ChangeSource ==
  /\ source' \in setup.sources \ {source}
  /\ UNCHANGED <<setup, rules, graph, bound, cached, owner, next, job, accepted, mixed, ended>>

Wired(k) == Entry(k, RuleOf(setup.annotated[k], "wired", TRUE, k \in setup.failing))
Scan(t) ==
  /\ At(t, "idle") /\ Does(t, "scan")
  /\ Starts(t, [Idle EXCEPT !.pc = "item", !.todo =
       [i \in DOMAIN Current(t).classes |-> Wired(Current(t).classes[i])]])

\* A registration looks at its key first, when the policy is to refuse
\* duplicates; a scan passes over classes that are registered.
LooksFirst(t) == Does(t, "scan") \/ (Does(t, "install") /\ Current(t).strict)
RefuseDuplicate(t) ==
  /\ At(t, "item") /\ job[t].todo # <<>>
  /\ Does(t, "install") /\ Current(t).strict /\ Known(Item(t).key)
  /\ Fails(t, "duplicate")
PassOver(t) ==
  /\ At(t, "item") /\ job[t].todo # <<>>
  /\ Does(t, "scan") /\ Known(Item(t).key)
  /\ Moves(t, [job[t] EXCEPT !.todo = Tail(@)])
Unreadable(t) ==
  /\ At(t, "item") /\ job[t].todo # <<>>
  /\ Does(t, "scan") /\ ~Known(Item(t).key) /\ setup.kind[Item(t).key] = "unannotated"
  /\ Fails(t, "unannotated")
\* Mutant: a scan registers whatever it finds.
TakeAny(t) ==
  /\ At(t, "item") /\ job[t].todo # <<>>
  /\ Moves(t, [job[t] EXCEPT !.pc = "copy", !.touched = IF LooksFirst(t) THEN {} ELSE @])
TakeItem(t) ==
  /\ At(t, "item") /\ job[t].todo # <<>>
  /\ LooksFirst(t) => ~Known(Item(t).key)
  /\ Does(t, "scan") => setup.kind[Item(t).key] # "unannotated"
  /\ Moves(t, [job[t] EXCEPT !.pc = "copy", !.touched = IF LooksFirst(t) THEN {} ELSE @])
\* The attribute is bound only when all its rules are in.
EndJob(t) ==
  /\ At(t, "item") /\ job[t].todo = <<>>
  /\ bound' = IF Does(t, "assign") \/ Does(t, "config") THEN bound \cup {Current(t).name} ELSE bound
  /\ UNCHANGED <<setup, rules, graph, cached, source, accepted, mixed>>
  /\ Ends(t, "ok")

Register(t) ==
  \/ Install(t) \/ AssignRefused(t) \/ Assign(t)
  \/ Duplicate(t) \/ Validate(t) \/ ReadAgain(t) \/ Scan(t)
  \/ RefuseDuplicate(t) \/ PassOver(t) \/ Unreadable(t) \/ TakeItem(t) \/ EndJob(t)

-----------------------------------------------------------------------------
(* Container.get, which registers what is missing *)

Path(t) == Head(job[t].paths).path
Wanted(t) == Last(Path(t))
Looking(t) == At(t, "find") /\ job[t].paths # <<>> /\ ~Head(job[t].paths).back
Missing(t) == Looking(t) /\ Wanted(t) \notin cached /\ Wanted(t) \notin ToSet(Front(Path(t)))
                /\ ~Known(Wanted(t)) /\ owner \in {t, NoThread}

Get(t) ==
  /\ At(t, "idle") /\ Does(t, "get")
  /\ Starts(t, [Idle EXCEPT !.pc = "find", !.before = [rules |-> rules, cached |-> cached],
       !.paths = <<[path |-> <<Current(t).key>>, back |-> FALSE, single |-> FALSE,
                    raises |-> FALSE]>>])
Hit(t) ==
  /\ Looking(t) /\ Wanted(t) \in cached
  /\ Moves(t, [job[t] EXCEPT !.paths = Tail(@), !.tried = FALSE])
MeetItself(t) ==
  /\ Looking(t) /\ Wanted(t) \notin cached /\ Wanted(t) \in ToSet(Front(Path(t)))
  /\ Fails(t, "cycle")

\* The dependencies are resolved in turn, then the key itself is built.
Descends(t, deps, single, raises) ==
  /\ owner' = t
  /\ UNCHANGED <<setup, rules, graph, bound, cached, source, next, accepted, mixed, ended>>
  /\ Goes(t, [job[t] EXCEPT !.tried = FALSE, !.paths =
       [i \in DOMAIN deps |->
          [path |-> Append(Path(t), deps[i]), back |-> FALSE, single |-> FALSE, raises |-> FALSE]]
         \o <<[path |-> Path(t), back |-> TRUE, single |-> single, raises |-> raises]>> \o Tail(@)])
Find(t) ==
  /\ Looking(t) /\ Wanted(t) \notin cached /\ Wanted(t) \notin ToSet(Front(Path(t)))
  /\ Known(Wanted(t)) /\ owner \in {t, NoThread}
  /\ LET rule == rules[Wanted(t)] IN Descends(t, rule.deps, rule.single, rule.raises)
\* A collection is made of the members registered now and is not registered.
Members(k) == {i \in setup.members[k] : Known(i)}
Collect(t) ==
  /\ Missing(t) /\ ~job[t].tried
  /\ setup.kind[Wanted(t)] = "collection" /\ Members(Wanted(t)) # {}
  /\ Descends(t, SetToSeq(Members(Wanted(t))), FALSE, FALSE)

\* A class the fallback may take: not too deep, and no qualified key of it is
\* registered.
Eligible(k, depth) == setup.fallback /\ setup.kind[k] = "class" /\ depth <= setup.maxDepth
\* Mutant: qualified keys of the class are not looked for.
MakeableAny(k, depth) == setup.kind[k] = "injectable" \/ Eligible(k, depth)
Makeable(k, depth) ==
  setup.kind[k] = "injectable" \/ (Eligible(k, depth) /\ Members(k) = {})
MakeUp(t) ==
  /\ Missing(t) /\ ~job[t].tried /\ Makeable(Wanted(t), Len(Path(t)))
  /\ owner' = t
  /\ UNCHANGED <<setup, rules, graph, bound, cached, source, next, accepted, mixed, ended>>
  /\ Goes(t, [job[t] EXCEPT !.pc = "copy", !.todo = <<Wired(Wanted(t))>>, !.touched = {}])
Ambiguous(t) ==
  /\ Missing(t) /\ ~job[t].tried
  /\ Eligible(Wanted(t), Len(Path(t))) /\ ~Makeable(Wanted(t), Len(Path(t)))
  /\ Fails(t, "ambiguous")
NotAnnotated(t) ==
  /\ Missing(t) /\ ~job[t].tried /\ setup.kind[Wanted(t)] = "unannotated"
  /\ Fails(t, "unannotated")
\* Also when the rule just added is gone again.
NotFound(t) ==
  /\ Missing(t)
  /\ job[t].tried \/
       /\ setup.kind[Wanted(t)] \notin {"injectable", "unannotated"}
       /\ ~Eligible(Wanted(t), Len(Path(t)))
       /\ setup.kind[Wanted(t)] = "collection" => Members(Wanted(t)) = {}
  /\ Fails(t, "missing")

\* The dependencies are there and the factory is called.
Calling(t) == At(t, "find") /\ job[t].paths # <<>> /\ Head(job[t].paths).back
FactoryRaises(t) ==
  /\ Calling(t) /\ Head(job[t].paths).raises
  /\ Fails(t, "raised")
\* Mutant of Build: whatever the factory does, there is something to store.
StoreResult(t) ==
  /\ Calling(t)
  /\ cached' = IF Head(job[t].paths).single THEN cached \cup {Wanted(t)} ELSE cached
  /\ UNCHANGED <<setup, rules, graph, bound, source, owner, next, accepted, mixed, ended>>
  /\ Goes(t, [job[t] EXCEPT !.paths = Tail(@)])
Build(t) == Calling(t) /\ ~Head(job[t].paths).raises /\ StoreResult(t)
Return(t) ==
  /\ At(t, "find") /\ job[t].paths = <<>>
  /\ Fails(t, "ok")

Resolve(t) ==
  \/ Get(t) \/ Hit(t) \/ MeetItself(t) \/ Find(t) \/ Collect(t) \/ MakeUp(t)
  \/ Ambiguous(t) \/ NotAnnotated(t) \/ NotFound(t) \/ FactoryRaises(t) \/ Build(t)
  \/ Return(t)

Next == ChangeSource \/ \E t \in Threads : Add(t) \/ Register(t) \/ Resolve(t)
Spec == Init /\ [][Next]_vars

-----------------------------------------------------------------------------
(* Properties *)

InAdd(k) == \E t \in Threads : job[t].pc \in Adding /\ Item(t).key = k

\* What the rule set holds for a key is the last rule whose add returned, and
\* the graph is that of the rules: an add that was refused, a module or a
\* provider that failed halfway, leave what was accepted as it was.  Left out are
\* adds that ran at once of which one was refused, which lose or revive rules, or
\* which were of one key, so that map and graph may come from different rules.
RulesExact ==
  ~mixed => \A k \in Keys : InAdd(k) \/
    /\ rules[k] = accepted[k]
    /\ graph[k] = IF rules[k] = NoRule THEN NoEntry ELSE rules[k].deps

\* Whatever threads register at once, when all have finished and none was
\* refused meanwhile there is no cycle among the rules: of two rules that close
\* a cycle together, the one written last is searched with the other in place.
AcyclicRules ==
  setup.checked /\ ~mixed /\ (\A k \in Keys : ~InAdd(k))
    => \A k \in Keys : ~CycleFrom(Edges, k)

\* Explicit rules win: a rule made for a type or from a configuration takes the
\* place of another only if a thread registered that one after the look that
\* found the key free, or if the configuration's second reading has a path that
\* its first had not, or twice (a dot in a name may spell another path).
KeptRules ==
  [][\A t \in Threads :
       WriteMap(t) /\ Item(t).rule.by # "given" /\ Known(Item(t).key)
         => \/ Item(t).key \in job[t].touched
            \/ Item(t).rule.by = "config" /\ Item(t).key \notin job[t].read]_vars

\* What k needs by the rules r; without a rule, what it would be made up with.
NeedsOf(r, k) ==
  IF r[k] # NoRule THEN ToSet(r[k].deps)
  ELSE IF setup.kind[k] = "collection" THEN {i \in setup.members[k] : r[i] # NoRule}
  ELSE ToSet(setup.annotated[k])
Obtainable(r, k) ==
  r[k] # NoRule \/ (setup.kind[k] = "collection" /\ NeedsOf(r, k) # {})
\* And made: a collection has no factory that could raise.
Buildable(r, k) == Obtainable(r, k) /\ ~r[k].raises
\* What a get started with; instances need nothing.
Start(b) == [k \in Keys \ b.cached |-> NeedsOf(b.rules, k)]
\* Keys reachable from k, through keys that E has in its domain.
ReachFrom(E, k) ==
  LET Grow[n \in 0..Cardinality(Keys)] ==
        IF n = 0 THEN {k} ELSE Grow[n - 1] \cup UNION {E[i] : i \in Grow[n - 1] \cap DOMAIN E}
  IN Grow[Cardinality(Keys)]
\* The get for root may make up a rule for k.
MayMakeUp(b, root, k) ==
  /\ b.rules[k] = NoRule /\ k \notin b.cached /\ k \in ReachFrom(Start(b), root)
  /\ setup.kind[k] \in {"injectable", "class"}
  /\ setup.kind[k] = "class" => \A i \in setup.members[k] : b.rules[i] = NoRule
Refusable(r, k, depth) ==
  /\ ~Obtainable(r, k)
  /\ \/ setup.kind[k] \in {"name", "rejected", "collection"}
     \/ setup.kind[k] = "class" /\ (~setup.fallback \/ depth > setup.maxDepth)

\* A get that ran alone succeeds exactly when it should.  It makes up rules for
\* classes that it needs, and that had none and no qualified ones.  When it
\* succeeds, all that it needed and that was not there before has rules, which form
\* no cycle, and factories that do not raise; when it fails, what it needed has a
\* cycle, a type no rule can be made for, a class it may not choose for, or a
\* factory that raises, as one does whose reference was dropped because it named an
\* attribute before that was assigned.  A collection needs the members that had a
\* rule from the start, and may meet others that were made up on the way.  After
\* adds that were mixed the graph may have a cycle that the rules have not.
Justified(g) ==
  LET built == ReachFrom(Start(g.before), g.key)
  IN /\ \A k \in Keys : g.after[k] # g.before.rules[k] =>
          g.after[k] = Wired(k).rule /\ MayMakeUp(g.before, g.key, k)
     /\ g.result = "ok" =>
          /\ ~CycleFrom(Start(g.before), g.key)
          /\ \A k \in built \ g.before.cached : Buildable(g.after, k)
     /\ g.result = "cycle" =>
          mixed \/ CycleFrom([k \in Keys |-> NeedsOf(g.after, k)], g.key)
     /\ g.result = "raised" => \E k \in built \ g.before.cached : g.after[k].raises
     /\ g.result = "missing" => \E k \in built : Refusable(g.after, k, Cardinality(built))
     /\ g.result = "ambiguous" =>
          \E k \in built : /\ setup.kind[k] = "class" /\ ~Obtainable(g.after, k)
                           /\ \E i \in setup.members[k] : g.after[i] # NoRule
     /\ g.result = "unannotated" =>
          \E k \in built : setup.kind[k] = "unannotated" /\ ~Obtainable(g.after, k)
GetExact ==
  \A g \in {ended[t] : t \in Threads} \ {NoGet} : g.alone => Justified(g)
=============================================================================
