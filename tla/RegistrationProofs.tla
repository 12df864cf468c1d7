-------------------------- MODULE RegistrationProofs --------------------------
(* Proofs about Registration, for every set of threads, keys and setups. *)
EXTENDS Registration, SharedLemmas

-----------------------------------------------------------------------------
(* The inductive invariant behind RulesExact *)

JobFields == {"pc", "todo", "paths", "oldRules", "oldGraph", "tried", "read", "touched",
              "crossed", "alone", "before"}
OnKeys(f) == f = [k \in Keys |-> f[k]]
\* Entries whose rules somebody made: none of them is NoRule.
TodoMade(s) == \E S : s \in Seq(S) /\ \A e \in S : e.rule.by \in Makers
JobMade(j) ==
  /\ j = [x \in JobFields |-> j[x]]
  /\ TodoMade(j.todo)
  /\ j.pc \in Adding => j.todo # <<>> /\ OnKeys(j.oldRules)
  /\ j.pc \in Adding \ {"copy graph"} => OnKeys(j.oldGraph)
  /\ j.pc = "copy" => j.todo # <<>>

Shapes ==
  /\ setup \in Setups
  /\ source \in Seq(Keys)
  /\ OnKeys(rules) /\ OnKeys(graph) /\ OnKeys(accepted)
  /\ job = [t \in Threads |-> job[t]]
  /\ \A t \in Threads : JobMade(job[t])

\* The thread has written the map, and has not yet been accepted or refused.
Writing(t) == job[t].pc \in {"graph", "check", "undo", "undo graph"}
KeyOf(t) == Item(t).key
RuleIn(t) == Item(t).rule
GraphOf(r) == IF r = NoRule THEN NoEntry ELSE r.deps

\* No two threads write for one key.
OneWriter == \A t, u \in Threads : Writing(t) /\ Writing(u) /\ t # u => KeyOf(t) # KeyOf(u)
\* What nobody is writing is as it was accepted.
Settled ==
  \A k \in Keys : (\A t \in Threads : Writing(t) => KeyOf(t) # k) =>
    rules[k] = accepted[k] /\ graph[k] = GraphOf(accepted[k])
\* What a thread has written stands.
WrittenBy(t) ==
  Writing(t) /\ KeyOf(t) \in Keys =>
    /\ job[t].pc \in {"graph", "check", "undo"} => rules[KeyOf(t)] = RuleIn(t)
    /\ job[t].pc \in {"check", "undo"} => graph[KeyOf(t)] = RuleIn(t).deps
\* As long as nobody else wrote, its copies are the map and the graph of now,
\* less its own rule.
CopiesOf(t) ==
  ~job[t].crossed =>
    /\ job[t].pc \in {"copy graph", "map", "undo graph"} => rules = job[t].oldRules
    /\ job[t].pc \in {"graph", "check", "undo"} =>
         rules = [job[t].oldRules EXCEPT ![KeyOf(t)] = RuleIn(t)]
    /\ job[t].pc \in {"map", "graph"} => graph = job[t].oldGraph
    /\ job[t].pc \in {"check", "undo", "undo graph"} =>
         graph = [job[t].oldGraph EXCEPT ![KeyOf(t)] = RuleIn(t).deps]
\* They hold what was accepted for the key that it is writing.
Restorable(t) ==
  Writing(t) /\ ~job[t].crossed /\ KeyOf(t) \in Keys =>
    /\ job[t].oldRules[KeyOf(t)] = accepted[KeyOf(t)]
    /\ job[t].oldGraph[KeyOf(t)] = GraphOf(accepted[KeyOf(t)])
InOrder(t) == WrittenBy(t) /\ CopiesOf(t) /\ Restorable(t)

Exact == OneWriter /\ Settled /\ \A t \in Threads : InOrder(t)
IInv == Shapes /\ (~mixed => Exact)

-----------------------------------------------------------------------------
(* What a step means to the other threads *)

\* Another thread's job keeps its place, its rules and its copies; if it is
\* inside an add and something was written it is crossed.
LEMMA GoesToOthers ==
  ASSUME Shapes, NEW t \in Threads, NEW j, Goes(t, j)
  PROVE  /\ job'[t] = j /\ job' = [u \in Threads |-> job'[u]]
         /\ \A u \in Threads \ {t} :
              /\ job'[u].pc = job[u].pc /\ job'[u].todo = job[u].todo
              /\ job'[u].oldRules = job[u].oldRules /\ job'[u].oldGraph = job[u].oldGraph
              /\ ~job'[u].crossed =>
                   /\ job[u].pc \in Adding => rules' = rules /\ graph' = graph
                   /\ ~job[u].crossed
              /\ JobMade(job'[u])
<1>1. job'[t] = j /\ job' = [u \in Threads |-> job'[u]]
  BY DEF Goes
<1>2. ASSUME NEW u \in Threads \ {t}
      PROVE  /\ job'[u].pc = job[u].pc /\ job'[u].todo = job[u].todo
             /\ job'[u].oldRules = job[u].oldRules /\ job'[u].oldGraph = job[u].oldGraph
             /\ ~job'[u].crossed =>
                  /\ job[u].pc \in Adding => rules' = rules /\ graph' = graph
                  /\ ~job[u].crossed
             /\ job'[u] = [x \in JobFields |-> job'[u][x]]
  <2>1. job[u] = [x \in JobFields |-> job[u][x]]
    BY DEF Shapes, JobMade
  <2>2. CASE job[u].pc = "idle"
    <3>1. job'[u] = job[u]
      BY <2>2 DEF Goes
    <3>2. QED
      BY <2>1, <2>2, <3>1 DEF Adding
  <2>3. CASE job[u].pc # "idle"
    <3> DEFINE touched == job[u].touched \cup {k \in Keys : rules'[k] # rules[k]}
               crossed == job[u].crossed \/ (job[u].pc \in Adding
                                              /\ <<rules', graph'>> # <<rules, graph>>)
    <3>1. job'[u] = [job[u] EXCEPT !.alone = FALSE, !.touched = touched, !.crossed = crossed]
      BY <2>3 DEF Goes
    <3>2. /\ job'[u].pc = job[u].pc /\ job'[u].todo = job[u].todo
          /\ job'[u].oldRules = job[u].oldRules /\ job'[u].oldGraph = job[u].oldGraph
          /\ job'[u].crossed = crossed
          /\ job'[u] = [x \in JobFields |-> job'[u][x]]
      <4> HIDE DEF touched, crossed
      <4>1. QED
        BY <2>1, <3>1 DEF JobFields
    <3>3. QED
      BY <3>2
  <2>4. QED
    BY <2>2, <2>3
<1>3. ASSUME NEW u \in Threads \ {t} PROVE JobMade(job'[u])
  BY <1>2 DEF Shapes, JobMade
<1>4. QED
  BY <1>1, <1>2, <1>3

LEMMA IdleMade == JobMade(Idle)
<1>1. TodoMade(<<>>)
  <2> DEFINE S == {}
  <2>1. <<>> \in Seq(S) /\ \A e \in S : e.rule.by \in Makers
    OBVIOUS
  <2> HIDE DEF S
  <2>2. QED
    BY <2>1 DEF TodoMade
<1>2. Idle = [x \in JobFields |-> Idle[x]] /\ Idle.todo = <<>> /\ Idle.pc = "idle"
  BY DEF Idle, JobFields
<1>3. QED
  BY <1>1, <1>2 DEF JobMade, Adding

LEMMA HeadMade ==
  ASSUME NEW s, TodoMade(s), s # <<>>
  PROVE  Head(s).rule # NoRule
<1>1. PICK S : s \in Seq(S) /\ \A e \in S : e.rule.by \in Makers
  BY DEF TodoMade
<1>2. Head(s) \in S
  BY <1>1, HeadTailProperties
<1>3. QED
  BY <1>1, <1>2 DEF NoRule, Makers

LEMMA TailMade ==
  ASSUME NEW s, TodoMade(s), s # <<>>
  PROVE  TodoMade(Tail(s))
<1>1. PICK S : s \in Seq(S) /\ \A e \in S : e.rule.by \in Makers
  BY DEF TodoMade
<1>2. Tail(s) \in Seq(S)
  BY <1>1, HeadTailProperties
<1>3. QED
  BY <1>1, <1>2 DEF TodoMade

LEMMA ShapesKept ==
  ASSUME Shapes, NEW t \in Threads, NEW j, Goes(t, j), JobMade(j),
         setup' = setup, source' \in Seq(Keys),
         OnKeys(rules'), OnKeys(graph'), OnKeys(accepted')
  PROVE  Shapes'
<1>1. \A u \in Threads : JobMade(job'[u])
  BY GoesToOthers
<1>2. setup' \in Setups /\ job' = [u \in Threads |-> job'[u]]
  BY GoesToOthers DEF Shapes
<1>3. QED
  BY <1>1, <1>2 DEF Shapes, OnKeys, JobMade

\* What a step leaves alone of the keys that others are writing keeps them in
\* order.
LEMMA OthersInOrder ==
  ASSUME Shapes, Exact, NEW t \in Threads, NEW j, Goes(t, j), NEW u \in Threads \ {t},
         Writing(u) /\ KeyOf(u) \in Keys =>
           /\ rules'[KeyOf(u)] = rules[KeyOf(u)] /\ graph'[KeyOf(u)] = graph[KeyOf(u)]
           /\ accepted'[KeyOf(u)] = accepted[KeyOf(u)]
  PROVE  /\ InOrder(u)'
         /\ Writing(u)' <=> Writing(u)
         /\ KeyOf(u)' = KeyOf(u)
<1>1. /\ job'[u].pc = job[u].pc /\ job'[u].todo = job[u].todo
      /\ job'[u].oldRules = job[u].oldRules /\ job'[u].oldGraph = job[u].oldGraph
      /\ ~job'[u].crossed => /\ job[u].pc \in Adding => rules' = rules /\ graph' = graph
                             /\ ~job[u].crossed
  BY GoesToOthers
<1>2. (Writing(u)' <=> Writing(u)) /\ KeyOf(u)' = KeyOf(u) /\ RuleIn(u)' = RuleIn(u)
  BY <1>1 DEF Writing, KeyOf, RuleIn, Item
<1>3. InOrder(u)
  BY DEF Exact
<1>4. WrittenBy(u)'
  BY <1>1, <1>2, <1>3 DEF InOrder, WrittenBy
<1>5. CopiesOf(u)'
  BY <1>1, <1>2, <1>3 DEF InOrder, CopiesOf, Adding
<1>6. Restorable(u)'
  BY <1>1, <1>2, <1>3 DEF InOrder, Restorable, GraphOf
<1>7. QED
  BY <1>2, <1>4, <1>5, <1>6 DEF InOrder

\* A step that writes nothing, of a thread that is not writing.
LEMMA QuietKeeps ==
  ASSUME IInv, NEW t \in Threads, NEW j, Goes(t, j), JobMade(j),
         ~Writing(t), j.pc \notin {"graph", "check", "undo", "undo graph"},
         ~mixed => CopiesOf(t)',
         UNCHANGED <<setup, rules, graph, accepted, mixed>>, source' \in Seq(Keys)
  PROVE  IInv'
<1>1. Shapes'
  BY ShapesKept DEF IInv, Shapes, OnKeys
<1>2. ASSUME ~mixed PROVE Exact'
  <2>1. Shapes /\ Exact
    BY <1>2 DEF IInv
  <2>2. \A u \in Threads \ {t} : /\ InOrder(u)' /\ KeyOf(u)' = KeyOf(u)
                                 /\ Writing(u)' <=> Writing(u)
    BY <2>1, OthersInOrder
  <2>3. job'[t] = j /\ ~Writing(t)'
    BY <2>1, GoesToOthers DEF Writing
  <2>4. InOrder(t)'
    BY <1>2, <2>3 DEF InOrder, WrittenBy, Restorable
  <2>5. OneWriter'
    BY <2>1, <2>2, <2>3 DEF Exact, OneWriter
  <2>6. Settled'
    BY <2>1, <2>2 DEF Exact, Settled, GraphOf
  <2>7. QED
    BY <2>2, <2>4, <2>5, <2>6 DEF Exact
<1>3. QED
  BY <1>1, <1>2 DEF IInv

-----------------------------------------------------------------------------
(* RuleSet.add *)

\* The copies are taken of what is there.
LEMMA CopyingKeeps ==
  ASSUME IInv, NEW t \in Threads, CopyMap(t) \/ CopyGraph(t)
  PROVE  IInv'
<1> DEFINE j == IF job[t].pc = "copy"
                THEN [job[t] EXCEPT !.pc = "copy graph", !.oldRules = rules, !.crossed = FALSE]
                ELSE [job[t] EXCEPT !.pc = "map", !.oldGraph = graph]
<1>1. /\ job[t].pc \in {"copy", "copy graph"} /\ Goes(t, j)
      /\ UNCHANGED <<setup, rules, graph, source, accepted, mixed>>
  BY DEF CopyMap, CopyGraph, Moves, At
<1>2. /\ j = [x \in JobFields |-> j[x]] /\ j.todo = job[t].todo
      /\ job[t].pc = "copy" => j.pc = "copy graph" /\ j.oldRules = rules
      /\ job[t].pc = "copy graph" => /\ j.pc = "map" /\ j.oldRules = job[t].oldRules
                                     /\ j.oldGraph = graph /\ j.crossed = job[t].crossed
  <2>1. job[t] = [x \in JobFields |-> job[t][x]]
    BY DEF IInv, Shapes, JobMade
  <2>2. QED
    BY <1>1, <2>1 DEF JobFields
<1> HIDE DEF j
<1>3. JobMade(j)
  BY <1>1, <1>2 DEF IInv, Shapes, JobMade, Adding
<1>4. ASSUME ~mixed PROVE CopiesOf(t)'
  <2>1. job'[t] = j /\ CopiesOf(t)
    BY <1>1, <1>4, GoesToOthers DEF IInv, Exact, InOrder
  <2>2. QED
    BY <1>1, <1>2, <2>1 DEF CopiesOf
<1>5. ~Writing(t) /\ j.pc \notin {"graph", "check", "undo", "undo graph"} /\ source' \in Seq(Keys)
  BY <1>1, <1>2 DEF Writing, IInv, Shapes
<1>6. QED
  BY <1>1, <1>3, <1>4, <1>5, QuietKeeps

\* A step of a thread that is writing before it, after it, or both.
LEMMA WritingKeeps ==
  ASSUME Shapes, Exact, NEW t \in Threads, NEW j, Goes(t, j), InOrder(t)',
         \A u \in Threads \ {t} : Writing(u) =>
           /\ Writing(t)' => KeyOf(u) # KeyOf(t)'
           /\ KeyOf(u) \in Keys =>
                /\ rules'[KeyOf(u)] = rules[KeyOf(u)] /\ graph'[KeyOf(u)] = graph[KeyOf(u)]
                /\ accepted'[KeyOf(u)] = accepted[KeyOf(u)],
         \A k \in Keys :
           \/ Writing(t)' /\ KeyOf(t)' = k
           \/ rules'[k] = accepted'[k] /\ graph'[k] = GraphOf(accepted'[k])
           \/ /\ rules'[k] = rules[k] /\ graph'[k] = graph[k] /\ accepted'[k] = accepted[k]
              /\ Writing(t) => KeyOf(t) # k
  PROVE  Exact'
<1>1. \A u \in Threads \ {t} : /\ InOrder(u)' /\ KeyOf(u)' = KeyOf(u)
                               /\ Writing(u)' <=> Writing(u)
  BY OthersInOrder
<1>2. OneWriter'
  BY <1>1 DEF Exact, OneWriter
<1>3. Settled'
  <2> SUFFICES ASSUME NEW k \in Keys, \A u \in Threads : Writing(u)' => KeyOf(u)' # k
               PROVE  rules'[k] = accepted'[k] /\ graph'[k] = GraphOf(accepted'[k])
    BY DEF Settled, GraphOf
  <2>1. CASE /\ rules'[k] = rules[k] /\ graph'[k] = graph[k] /\ accepted'[k] = accepted[k]
             /\ Writing(t) => KeyOf(t) # k
    <3>1. \A u \in Threads : Writing(u) => KeyOf(u) # k
      BY <1>1, <2>1
    <3>2. QED
      BY <2>1, <3>1 DEF Exact, Settled
  <2>2. QED
    BY <2>1
<1>4. QED
  BY <1>1, <1>2, <1>3 DEF Exact

\* The rule is written over one that is as it was accepted: nobody else is in
\* an add of the key.
LEMMA WriteMapKeeps ==
  ASSUME IInv, NEW t \in Threads, WriteMap(t)
  PROVE  IInv'
<1> DEFINE read == job[t].read \ {KeyOf(t)}
           j == [job[t] EXCEPT !.pc = "graph", !.read = read]
<1>1. /\ job[t].pc = "map" /\ Goes(t, j)
      /\ rules' = [rules EXCEPT ![KeyOf(t)] = RuleIn(t)]
      /\ mixed' = (mixed \/ SharesKey(t))
      /\ UNCHANGED <<setup, graph, source, accepted>>
  <2>1. j = [job[t] EXCEPT !.pc = "graph", !.read = @ \ {Item(t).key}]
    BY DEF KeyOf, IInv, Shapes, JobMade, JobFields
  <2>2. QED
    BY <2>1 DEF WriteMap, At, KeyOf, RuleIn
<1> HIDE DEF read
<1>2. /\ j = [x \in JobFields |-> j[x]] /\ j.todo = job[t].todo /\ j.pc = "graph"
      /\ j.oldRules = job[t].oldRules /\ j.oldGraph = job[t].oldGraph
      /\ j.crossed = job[t].crossed
  BY DEF IInv, Shapes, JobMade, JobFields
<1> HIDE DEF j
<1>3. JobMade(j)
  BY <1>1, <1>2 DEF IInv, Shapes, JobMade, Adding
<1>4. Shapes'
  <2>1. OnKeys(rules') /\ OnKeys(graph') /\ OnKeys(accepted') /\ source' \in Seq(Keys)
    BY <1>1 DEF IInv, Shapes, OnKeys
  <2>2. QED
    BY <1>1, <1>3, <2>1, ShapesKept DEF IInv
<1>5. ASSUME ~mixed' PROVE Exact'
  <2>1. Shapes /\ Exact /\ ~SharesKey(t)
    BY <1>1, <1>5 DEF IInv
  <2>2. \A u \in Threads : Writing(u) => KeyOf(u) # KeyOf(t)
    BY <1>1, <2>1 DEF SharesKey, Writing, Adding, KeyOf
  <2>3. job'[t] = j /\ KeyOf(t)' = KeyOf(t) /\ RuleIn(t)' = RuleIn(t) /\ Writing(t)'
    BY <1>1, <1>2, <2>1, GoesToOthers DEF Writing, KeyOf, RuleIn, Item
  <2>4. /\ \A k \in Keys : rules'[k] = IF k = KeyOf(t) THEN RuleIn(t) ELSE rules[k]
        /\ graph' = graph /\ accepted' = accepted
    BY <1>1, <2>1 DEF Shapes, OnKeys
  <2>5. KeyOf(t) \in Keys =>
          rules[KeyOf(t)] = accepted[KeyOf(t)] /\ graph[KeyOf(t)] = GraphOf(accepted[KeyOf(t)])
    BY <2>1, <2>2 DEF Exact, Settled
  <2>6. InOrder(t)'
    <3>1. CopiesOf(t)
      BY <2>1 DEF Exact, InOrder
    <3>2. WrittenBy(t)'
      BY <1>2, <2>3, <2>4 DEF WrittenBy
    <3>3. CopiesOf(t)'
      BY <1>1, <1>2, <2>3, <3>1 DEF CopiesOf
    <3>4. Restorable(t)'
      BY <1>1, <1>2, <2>3, <2>5, <3>1 DEF Restorable, CopiesOf, GraphOf
    <3>5. QED
      BY <3>2, <3>3, <3>4 DEF InOrder
  <2>7. QED
    BY <1>1, <2>1, <2>2, <2>3, <2>4, <2>6, WritingKeeps
<1>6. QED
  BY <1>4, <1>5 DEF IInv

\* Then its edges.
LEMMA WriteGraphKeeps ==
  ASSUME IInv, NEW t \in Threads, WriteGraph(t)
  PROVE  IInv'
<1> DEFINE j == [job[t] EXCEPT !.pc = "check"]
<1>1. /\ job[t].pc = "graph" /\ Goes(t, j)
      /\ graph' = [graph EXCEPT ![KeyOf(t)] = RuleIn(t).deps]
      /\ mixed' = (mixed \/ SharesKey(t))
      /\ UNCHANGED <<setup, rules, source, accepted>>
  BY DEF WriteGraph, At, KeyOf, RuleIn
<1>2. /\ j = [x \in JobFields |-> j[x]] /\ j.todo = job[t].todo /\ j.pc = "check"
      /\ j.oldRules = job[t].oldRules /\ j.oldGraph = job[t].oldGraph
      /\ j.crossed = job[t].crossed
  BY DEF IInv, Shapes, JobMade, JobFields
<1> HIDE DEF j
<1>3. JobMade(j)
  BY <1>1, <1>2 DEF IInv, Shapes, JobMade, Adding
<1>4. Shapes'
  <2>1. OnKeys(rules') /\ OnKeys(graph') /\ OnKeys(accepted') /\ source' \in Seq(Keys)
    BY <1>1 DEF IInv, Shapes, OnKeys
  <2>2. QED
    BY <1>1, <1>3, <2>1, ShapesKept DEF IInv
<1>5. ASSUME ~mixed' PROVE Exact'
  <2>1. Shapes /\ Exact /\ Writing(t)
    BY <1>1, <1>5 DEF IInv, Writing
  <2>2. \A u \in Threads \ {t} : Writing(u) => KeyOf(u) # KeyOf(t)
    BY <2>1 DEF Exact, OneWriter
  <2>3. job'[t] = j /\ KeyOf(t)' = KeyOf(t) /\ RuleIn(t)' = RuleIn(t) /\ Writing(t)'
    BY <1>1, <1>2, <2>1, GoesToOthers DEF Writing, KeyOf, RuleIn, Item
  <2>4. /\ \A k \in Keys : graph'[k] = IF k = KeyOf(t) THEN RuleIn(t).deps ELSE graph[k]
        /\ rules' = rules /\ accepted' = accepted
    BY <1>1, <2>1 DEF Shapes, OnKeys
  <2>5. InOrder(t)'
    <3>1. WrittenBy(t) /\ CopiesOf(t) /\ Restorable(t)
      BY <2>1 DEF Exact, InOrder
    <3>2. WrittenBy(t)'
      BY <1>1, <1>2, <2>1, <2>3, <2>4, <3>1 DEF WrittenBy
    <3>3. CopiesOf(t)'
      BY <1>1, <1>2, <2>3, <3>1 DEF CopiesOf
    <3>4. Restorable(t)'
      BY <1>1, <1>2, <2>1, <2>3, <3>1 DEF Restorable, GraphOf
    <3>5. QED
      BY <3>2, <3>3, <3>4 DEF InOrder
  <2>6. QED
    BY <1>1, <2>1, <2>2, <2>3, <2>4, <2>5, WritingKeeps
<1>6. QED
  BY <1>4, <1>5 DEF IInv

LEMMA RefuseKeeps ==
  ASSUME IInv, NEW t \in Threads, Refuse(t)
  PROVE  IInv'
<1> DEFINE j == [job[t] EXCEPT !.pc = "undo"]
<1>1. /\ job[t].pc = "check" /\ Goes(t, j)
      /\ UNCHANGED <<setup, rules, graph, source, accepted, mixed>>
  BY DEF Refuse, Moves, At
<1>2. /\ j = [x \in JobFields |-> j[x]] /\ j.todo = job[t].todo /\ j.pc = "undo"
      /\ j.oldRules = job[t].oldRules /\ j.oldGraph = job[t].oldGraph
      /\ j.crossed = job[t].crossed
  BY DEF IInv, Shapes, JobMade, JobFields
<1> HIDE DEF j
<1>3. JobMade(j)
  BY <1>1, <1>2 DEF IInv, Shapes, JobMade, Adding
<1>4. Shapes'
  <2>1. OnKeys(rules') /\ OnKeys(graph') /\ OnKeys(accepted') /\ source' \in Seq(Keys)
    BY <1>1 DEF IInv, Shapes, OnKeys
  <2>2. QED
    BY <1>1, <1>3, <2>1, ShapesKept DEF IInv
<1>5. ASSUME ~mixed' PROVE Exact'
  <2>1. Shapes /\ Exact /\ Writing(t)
    BY <1>1, <1>5 DEF IInv, Writing
  <2>2. \A u \in Threads \ {t} : Writing(u) => KeyOf(u) # KeyOf(t)
    BY <2>1 DEF Exact, OneWriter
  <2>3. job'[t] = j /\ KeyOf(t)' = KeyOf(t) /\ RuleIn(t)' = RuleIn(t) /\ Writing(t)'
    BY <1>1, <1>2, <2>1, GoesToOthers DEF Writing, KeyOf, RuleIn, Item
  <2>4. InOrder(t)'
    BY <1>1, <1>2, <2>1, <2>3, ZenonT(30) DEF Exact, InOrder, WrittenBy, CopiesOf, Restorable, GraphOf
  <2>5. QED
    BY <1>1, <2>1, <2>2, <2>3, <2>4, WritingKeeps
<1>6. QED
  BY <1>4, <1>5 DEF IInv

\* The copy is put back only when nobody else wrote since: it differs from the
\* map of now in the thread's own key.
LEMMA UndoMapKeeps ==
  ASSUME IInv, NEW t \in Threads, UndoMap(t)
  PROVE  IInv'
<1> DEFINE j == [job[t] EXCEPT !.pc = "undo graph"]
<1>1. /\ job[t].pc = "undo" /\ Goes(t, j)
      /\ rules' = job[t].oldRules
      /\ mixed' = (mixed \/ job[t].crossed)
      /\ UNCHANGED <<setup, graph, source, accepted>>
  BY DEF UndoMap, At
<1>2. /\ j = [x \in JobFields |-> j[x]] /\ j.todo = job[t].todo /\ j.pc = "undo graph"
      /\ j.oldRules = job[t].oldRules /\ j.oldGraph = job[t].oldGraph
      /\ j.crossed = job[t].crossed
  BY DEF IInv, Shapes, JobMade, JobFields
<1> HIDE DEF j
<1>3. JobMade(j) /\ OnKeys(job[t].oldRules)
  BY <1>1, <1>2 DEF IInv, Shapes, JobMade, Adding
<1>4. Shapes'
  <2>1. OnKeys(rules') /\ OnKeys(graph') /\ OnKeys(accepted') /\ source' \in Seq(Keys)
    BY <1>1, <1>3 DEF IInv, Shapes
  <2>2. QED
    BY <1>1, <1>3, <2>1, ShapesKept DEF IInv
<1>5. ASSUME ~mixed' PROVE Exact'
  <2>1. Shapes /\ Exact /\ Writing(t) /\ ~job[t].crossed
    BY <1>1, <1>5 DEF IInv, Writing
  <2>2. \A u \in Threads \ {t} : Writing(u) => KeyOf(u) # KeyOf(t)
    BY <2>1 DEF Exact, OneWriter
  <2>3. job'[t] = j /\ KeyOf(t)' = KeyOf(t) /\ RuleIn(t)' = RuleIn(t) /\ Writing(t)'
    BY <1>1, <1>2, <2>1, GoesToOthers DEF Writing, KeyOf, RuleIn, Item
  <2>4. WrittenBy(t) /\ CopiesOf(t) /\ Restorable(t)
    BY <2>1 DEF Exact, InOrder
  <2>5. rules = [job[t].oldRules EXCEPT ![KeyOf(t)] = RuleIn(t)]
    BY <1>1, <2>1, <2>4 DEF CopiesOf
  <2>6. \A k \in Keys : k # KeyOf(t) => rules'[k] = rules[k]
    BY <1>1, <1>3, <2>5 DEF OnKeys
  <2>7. InOrder(t)'
    <3>1. WrittenBy(t)'
      BY <1>2, <2>3 DEF WrittenBy
    <3>2. CopiesOf(t)'
      BY <1>1, <1>2, <2>3, <2>4 DEF CopiesOf
    <3>3. Restorable(t)'
      BY <1>1, <1>2, <2>1, <2>3, <2>4 DEF Restorable, GraphOf
    <3>4. QED
      BY <3>1, <3>2, <3>3 DEF InOrder
  <2>8. QED
    BY <1>1, <2>1, <2>2, <2>3, <2>6, <2>7, WritingKeeps
<1>6. QED
  BY <1>4, <1>5 DEF IInv

\* With the graph back too, the key is as it was accepted.
LEMMA UndoGraphKeeps ==
  ASSUME IInv, NEW t \in Threads, UndoGraph(t)
  PROVE  IInv'
<1>1. /\ job[t].pc = "undo graph" /\ Goes(t, Idle)
      /\ graph' = job[t].oldGraph
      /\ mixed' = (mixed \/ job[t].crossed)
      /\ UNCHANGED <<setup, rules, source, accepted>>
  BY DEF UndoGraph, Ends, Stops, At
<1>2. JobMade(Idle)
  BY IdleMade
<1>3. OnKeys(job[t].oldGraph)
  BY <1>1 DEF IInv, Shapes, JobMade, Adding
<1>4. Shapes'
  <2>1. OnKeys(rules') /\ OnKeys(graph') /\ OnKeys(accepted') /\ source' \in Seq(Keys)
    BY <1>1, <1>3 DEF IInv, Shapes, OnKeys
  <2>2. QED
    BY <1>1, <1>2, <2>1, ShapesKept DEF IInv
<1>5. ASSUME ~mixed' PROVE Exact'
  <2>1. Shapes /\ Exact /\ Writing(t) /\ ~job[t].crossed
    BY <1>1, <1>5 DEF IInv, Writing
  <2>2. \A u \in Threads \ {t} : Writing(u) => KeyOf(u) # KeyOf(t)
    BY <2>1 DEF Exact, OneWriter
  <2>3. job'[t].pc = "idle" /\ ~Writing(t)'
    <3>1. job'[t] = Idle
      BY <1>1, <2>1, GoesToOthers
    <3>2. job'[t].pc = "idle"
      BY <3>1 DEF Idle
    <3>3. QED
      BY <3>2 DEF Writing
  <2>4. CopiesOf(t) /\ Restorable(t)
    BY <2>1 DEF Exact, InOrder
  <2>5. graph = [job[t].oldGraph EXCEPT ![KeyOf(t)] = RuleIn(t).deps] /\ rules = job[t].oldRules
    BY <1>1, <2>1, <2>4 DEF CopiesOf
  <2>6. \A k \in Keys : k # KeyOf(t) => graph'[k] = graph[k]
    BY <1>1, <1>3, <2>5 DEF OnKeys
  <2>7. KeyOf(t) \in Keys => /\ rules'[KeyOf(t)] = accepted'[KeyOf(t)]
                             /\ graph'[KeyOf(t)] = GraphOf(accepted'[KeyOf(t)])
    BY <1>1, <2>1, <2>4, <2>5 DEF Restorable, GraphOf
  <2>8. InOrder(t)'
    BY <2>3 DEF InOrder, WrittenBy, CopiesOf, Restorable
  <2>9. QED
    BY <1>1, <2>1, <2>2, <2>3, <2>6, <2>7, <2>8, WritingKeeps
<1>6. QED
  BY <1>4, <1>5 DEF IInv

\* An add that returns leaves its own rule and its edges.
LEMMA AcceptKeeps ==
  ASSUME IInv, NEW t \in Threads, Accept(t)
  PROVE  IInv'
<1> DEFINE j == [job[t] EXCEPT !.pc = After(t), !.todo = Tail(@), !.oldRules = <<>>,
                               !.oldGraph = <<>>, !.tried = After(t) = "find"]
<1>1. /\ job[t].pc = "check" /\ Goes(t, j)
      /\ accepted' = [accepted EXCEPT ![KeyOf(t)] = RuleIn(t)]
      /\ UNCHANGED <<setup, rules, graph, source, mixed>>
  BY DEF Accept, At, KeyOf, RuleIn
<1>2. /\ j = [x \in JobFields |-> j[x]] /\ j.todo = Tail(job[t].todo) /\ j.pc \in {"find", "item"}
  BY DEF IInv, Shapes, JobMade, JobFields, After
<1>3. TodoMade(job[t].todo) /\ job[t].todo # <<>>
  BY <1>1 DEF IInv, Shapes, JobMade, Adding
<1> HIDE DEF j
<1>4. JobMade(j)
  BY <1>2, <1>3, TailMade DEF JobMade, Adding
<1>5. Shapes'
  <2>1. OnKeys(rules') /\ OnKeys(graph') /\ OnKeys(accepted') /\ source' \in Seq(Keys)
    BY <1>1 DEF IInv, Shapes, OnKeys
  <2>2. QED
    BY <1>1, <1>4, <2>1, ShapesKept DEF IInv
<1>6. ASSUME ~mixed' PROVE Exact'
  <2>1. Shapes /\ Exact /\ Writing(t)
    BY <1>1, <1>6 DEF IInv, Writing
  <2>2. \A u \in Threads \ {t} : Writing(u) => KeyOf(u) # KeyOf(t)
    BY <2>1 DEF Exact, OneWriter
  <2>3. job'[t] = j /\ ~Writing(t)'
    BY <1>1, <1>2, <2>1, GoesToOthers DEF Writing
  <2>4. \A k \in Keys : accepted'[k] = IF k = KeyOf(t) THEN RuleIn(t) ELSE accepted[k]
    BY <1>1, <2>1 DEF Shapes, OnKeys
  <2>5. RuleIn(t) # NoRule
    BY <1>3, HeadMade DEF RuleIn, Item
  <2>6. KeyOf(t) \in Keys => /\ rules'[KeyOf(t)] = accepted'[KeyOf(t)]
                             /\ graph'[KeyOf(t)] = GraphOf(accepted'[KeyOf(t)])
    BY <1>1, <2>1, <2>4, <2>5 DEF Exact, InOrder, WrittenBy, GraphOf
  <2>7. InOrder(t)'
    BY <1>2, <2>3 DEF InOrder, WrittenBy, CopiesOf, Restorable
  <2>8. QED
    BY <1>1, <2>1, <2>2, <2>3, <2>4, <2>6, <2>7, WritingKeeps
<1>7. QED
  BY <1>5, <1>6 DEF IInv

LEMMA AddKeeps ==
  ASSUME IInv, NEW t \in Threads, Add(t)
  PROVE  IInv'
  BY CopyingKeeps, WriteMapKeeps, WriteGraphKeeps, AcceptKeeps, RefuseKeeps, UndoMapKeeps,
     UndoGraphKeeps DEF Add

-----------------------------------------------------------------------------
(* Everything else registers nothing *)

LEMMA EntryMade ==
  ASSUME NEW n, NEW f, f = [i \in 1..n |-> f[i]], n \in Nat,
         \A i \in 1..n : f[i].rule.by \in Makers
  PROVE  TodoMade(f)
<1> DEFINE S == {f[i] : i \in 1..n}
<1>1. f \in Seq(S) /\ \A e \in S : e.rule.by \in Makers
  OBVIOUS
<1>2. QED
  BY <1>1 DEF TodoMade

\* The end of a job, whatever its result.
LEMMA EndKeeps ==
  ASSUME IInv, NEW t \in Threads, Goes(t, Idle), job[t].pc \in {"idle", "item", "find"},
         UNCHANGED <<setup, rules, graph, source, accepted, mixed>>
  PROVE  IInv'
<1>1. job'[t].pc = "idle"
  BY GoesToOthers DEF IInv, Idle
<1>2. CopiesOf(t)' /\ source' \in Seq(Keys) /\ ~Writing(t)
  BY <1>1 DEF CopiesOf, IInv, Shapes, Writing
<1>3. QED
  BY <1>2, IdleMade, QuietKeeps DEF Idle

LEMMA EndingsKeep ==
  ASSUME IInv, NEW t \in Threads,
         \/ RefuseDuplicate(t) \/ Unreadable(t) \/ EndJob(t) \/ Duplicate(t) \/ AssignRefused(t)
         \/ MeetItself(t) \/ Ambiguous(t) \/ NotAnnotated(t) \/ NotFound(t) \/ FactoryRaises(t)
         \/ Return(t)
  PROVE  IInv'
<1>1. /\ Goes(t, Idle) /\ job[t].pc \in {"idle", "item", "find"}
      /\ UNCHANGED <<setup, rules, graph, source, accepted, mixed>>
  BY DEF RefuseDuplicate, Unreadable, EndJob, Duplicate, AssignRefused, MeetItself, Ambiguous,
         NotAnnotated, NotFound, FactoryRaises, Calling, Return, Fails, Ends, Stops, At, Looking, Missing
<1>2. QED
  BY <1>1, EndKeeps

\* A step between two adds: the rules it has left to add are somebody's.
LEMMA BetweenKeeps ==
  ASSUME IInv, NEW t \in Threads, NEW j, Goes(t, j),
         job[t].pc \in {"idle", "read", "item", "find"}, j.pc \in {"read", "item", "copy", "find"},
         j = [x \in JobFields |-> j[x]], TodoMade(j.todo), j.pc = "copy" => j.todo # <<>>,
         UNCHANGED <<setup, rules, graph, source, accepted, mixed>>
  PROVE  IInv'
<1>1. JobMade(j)
  BY DEF JobMade, Adding
<1>2. job'[t] = j
  BY GoesToOthers DEF IInv
<1>3. CopiesOf(t)' /\ source' \in Seq(Keys) /\ ~Writing(t)
  BY <1>2 DEF CopiesOf, IInv, Shapes, Writing
<1>4. QED
  BY <1>1, <1>3, QuietKeeps

LEMMA StartKeeps ==
  ASSUME IInv, NEW t \in Threads, NEW j, Starts(t, j), job[t].pc = "idle",
         j.pc \in {"read", "item", "find"},
         j = [x \in JobFields |-> j[x]], TodoMade(j.todo)
  PROVE  IInv'
<1> DEFINE i == [j EXCEPT !.alone = \A u \in Threads \ {t} : job[u].pc = "idle"]
<1>1. Goes(t, i) /\ UNCHANGED <<setup, rules, graph, source, accepted, mixed>>
  BY DEF Starts, Moves
<1>2. i.pc = j.pc /\ i.todo = j.todo /\ i = [x \in JobFields |-> i[x]]
  BY DEF JobFields
<1> HIDE DEF i
<1>3. QED
  BY <1>1, <1>2, BetweenKeeps

\* The rules a job is going to add.
LEMMA JobShaped ==
  ASSUME IInv, NEW t \in Threads, NEW do, Does(t, do)
  PROVE  JobShape(Current(t)) /\ Current(t).do = do
<1>1. SetupShape(setup)
  BY SetupAssumption DEF IInv, Shapes
<1>2. next[t] \in DOMAIN setup.jobs[t] /\ Current(t).do = do
  BY DEF Does
<1>3. QED
  BY <1>1, <1>2 DEF SetupShape, Current

LEMMA InstallKeeps ==
  ASSUME IInv, NEW t \in Threads, Install(t)
  PROVE  IInv'
<1> DEFINE items == Current(t).items
           todo == [i \in DOMAIN items |-> Entry(items[i].key, RuleOf(items[i].deps, "given", FALSE,
                                              items[i].key \in setup.failing))]
           j == [Idle EXCEPT !.pc = "item", !.todo = todo]
<1>1. Does(t, "install") /\ job[t].pc = "idle" /\ Starts(t, j)
  BY DEF Install, At
<1>2. items \in Seq([key : Keys, deps : Seq(Keys)])
  <2>1. ASSUME NEW i, JobShape(i), i.do = "install"
        PROVE  i.items \in Seq([key : Keys, deps : Seq(Keys)])
    BY <2>1 DEF JobShape
  <2>2. QED
    BY <1>1, <2>1, JobShaped
<1>3. TodoMade(todo)
  <2>1. /\ DOMAIN items = 1..Len(items) /\ Len(items) \in Nat
    BY <1>2
  <2>2. \A i \in 1..Len(items) : todo[i].rule.by \in Makers
    BY <2>1 DEF Entry, RuleOf, Makers
  <2> HIDE DEF items
  <2>3. todo = [i \in 1..Len(items) |-> todo[i]]
    BY <2>1
  <2> HIDE DEF todo
  <2>4. QED
    BY <2>1, <2>2, <2>3, EntryMade
<1> HIDE DEF todo
<1>4. j.pc = "item" /\ j.todo = todo /\ j = [x \in JobFields |-> j[x]]
  BY DEF Idle, JobFields
<1> HIDE DEF j
<1>5. QED
  BY <1>1, <1>3, <1>4, StartKeeps

LEMMA ScanKeeps ==
  ASSUME IInv, NEW t \in Threads, Scan(t)
  PROVE  IInv'
<1> DEFINE classes == Current(t).classes
           todo == [i \in DOMAIN classes |-> Wired(classes[i])]
           j == [Idle EXCEPT !.pc = "item", !.todo = todo]
<1>1. Does(t, "scan") /\ job[t].pc = "idle" /\ Starts(t, j)
  BY DEF Scan, At
<1>2. classes \in Seq(Keys)
  BY <1>1, JobShaped DEF JobShape
<1>3. TodoMade(todo)
  <2>1. /\ DOMAIN classes = 1..Len(classes) /\ Len(classes) \in Nat
    BY <1>2
  <2>2. \A i \in 1..Len(classes) : todo[i].rule.by \in Makers
    BY <2>1 DEF Wired, Entry, RuleOf, Makers
  <2> HIDE DEF classes
  <2>3. todo = [i \in 1..Len(classes) |-> todo[i]]
    BY <2>1
  <2> HIDE DEF todo
  <2>4. QED
    BY <2>1, <2>2, <2>3, EntryMade
<1> HIDE DEF todo
<1>4. j.pc = "item" /\ j.todo = todo /\ j = [x \in JobFields |-> j[x]]
  BY DEF Idle, JobFields
<1> HIDE DEF j
<1>5. QED
  BY <1>1, <1>3, <1>4, StartKeeps

\* One rule, or the provider's and its class's.
LEMMA AssignKeeps ==
  ASSUME IInv, NEW t \in Threads, Assign(t)
  PROVE  IInv'
<1> DEFINE todo == ProviderRules(Current(t))
           j == [Idle EXCEPT !.pc = "item", !.todo = todo]
<1>1. job[t].pc = "idle" /\ Starts(t, j)
  BY DEF Assign, At
<1>2. TodoMade(todo)
  <2>1. ASSUME NEW n, NEW deps, NEW single, NEW raises
        PROVE  Entry(n, RuleOf(deps, "given", single, raises)).rule.by \in Makers
    BY DEF Entry, RuleOf, Makers
  <2>2. PICK a, b : a.rule.by \in Makers /\ b.rule.by \in Makers /\ (todo = <<a>> \/ todo = <<a, b>>)
    BY <2>1 DEF ProviderRules
  <2> HIDE DEF todo
  <2> DEFINE S == {a, b}
  <2>3. todo \in Seq(S) /\ \A e \in S : e.rule.by \in Makers
    <3>1. <<a>> \in Seq(S) /\ <<a, b>> \in Seq(S)
      OBVIOUS
    <3>2. QED
      BY <2>2, <3>1
  <2> HIDE DEF S
  <2>4. QED
    BY <2>3 DEF TodoMade
<1> HIDE DEF todo
<1>3. j.pc = "item" /\ j.todo = todo /\ j = [x \in JobFields |-> j[x]]
  BY DEF Idle, JobFields
<1> HIDE DEF j
<1>4. QED
  BY <1>1, <1>2, <1>3, StartKeeps

\* A configuration starts by reading its source, a get by looking.
LEMMA ValidateKeeps ==
  ASSUME IInv, NEW t \in Threads, Validate(t)
  PROVE  IInv'
<1> DEFINE read == {Current(t).name} \cup ToSet(source)
           j == [Idle EXCEPT !.pc = "read", !.read = read]
<1>1. job[t].pc = "idle" /\ Starts(t, j)
  BY DEF Validate, At
<1> HIDE DEF read
<1>2. j.pc = "read" /\ j.todo = Idle.todo /\ j = [x \in JobFields |-> j[x]]
  BY DEF Idle, JobFields
<1> HIDE DEF j
<1>3. TodoMade(j.todo)
  BY <1>2, IdleMade DEF JobMade
<1>4. QED
  BY <1>1, <1>2, <1>3, StartKeeps

LEMMA GetKeeps ==
  ASSUME IInv, NEW t \in Threads, Get(t)
  PROVE  IInv'
<1> DEFINE before == [rules |-> rules, cached |-> cached]
           paths == <<[path |-> <<Current(t).key>>, back |-> FALSE, single |-> FALSE, raises |-> FALSE]>>
           j == [Idle EXCEPT !.pc = "find", !.before = before, !.paths = paths]
<1>1. job[t].pc = "idle" /\ Starts(t, j)
  BY DEF Get, At
<1> HIDE DEF before, paths
<1>2. j.pc = "find" /\ j.todo = Idle.todo /\ j = [x \in JobFields |-> j[x]]
  BY DEF Idle, JobFields
<1> HIDE DEF j
<1>3. TodoMade(j.todo)
  BY <1>2, IdleMade DEF JobMade
<1>4. QED
  BY <1>1, <1>2, <1>3, StartKeeps

\* The rules of a configuration are those of its second reading.
LEMMA ReadAgainKeeps ==
  ASSUME IInv, NEW t \in Threads, ReadAgain(t)
  PROVE  IInv'
<1> DEFINE names == <<Current(t).name>> \o source
           todo == [i \in DOMAIN names |-> Entry(names[i], RuleOf(<<>>, "config", FALSE, FALSE))]
           j == [job[t] EXCEPT !.pc = "item", !.todo = todo]
<1>1. job[t].pc = "read" /\ Goes(t, j) /\ UNCHANGED <<setup, rules, graph, source, accepted, mixed>>
  BY DEF ReadAgain, Moves, At
<1>2. TodoMade(todo)
  <2>1. names \in Seq(Keys \cup {Current(t).name})
    <3>1. <<Current(t).name>> \in Seq(Keys \cup {Current(t).name})
      OBVIOUS
    <3>2. source \in Seq(Keys \cup {Current(t).name})
      BY DEF IInv, Shapes
    <3>3. QED
      BY <3>1, <3>2
  <2> HIDE DEF names
  <2>2. DOMAIN names = 1..Len(names) /\ Len(names) \in Nat
    BY <2>1
  <2>3. \A i \in 1..Len(names) : todo[i].rule.by \in Makers
    BY <2>2 DEF Entry, RuleOf, Makers
  <2>4. todo = [i \in 1..Len(names) |-> todo[i]]
    BY <2>2
  <2> HIDE DEF todo
  <2>5. QED
    BY <2>2, <2>3, <2>4, EntryMade
<1> HIDE DEF todo
<1>3. j.pc = "item" /\ j.todo = todo /\ j = [x \in JobFields |-> j[x]]
  BY DEF IInv, Shapes, JobMade, JobFields
<1> HIDE DEF j
<1>4. QED
  BY <1>1, <1>2, <1>3, BetweenKeeps

\* A type's rule is the only one a get has to add.
LEMMA MakeUpKeeps ==
  ASSUME IInv, NEW t \in Threads, MakeUp(t)
  PROVE  IInv'
<1> DEFINE entry == Wired(Wanted(t))
           j == [job[t] EXCEPT !.pc = "copy", !.todo = <<entry>>, !.touched = {}]
<1>1. job[t].pc = "find" /\ Goes(t, j) /\ UNCHANGED <<setup, rules, graph, source, accepted, mixed>>
  BY DEF MakeUp, Missing, Looking, At
<1>2. entry.rule.by \in Makers
  BY DEF Wired, Entry, RuleOf, Makers
<1> HIDE DEF entry
<1>3. TodoMade(<<entry>>)
  <2> DEFINE S == {entry}
  <2>1. <<entry>> \in Seq(S) /\ \A e \in S : e.rule.by \in Makers
    BY <1>2
  <2> HIDE DEF S
  <2>2. QED
    BY <2>1 DEF TodoMade
<1>4. j.pc = "copy" /\ j.todo = <<entry>> /\ j = [x \in JobFields |-> j[x]]
  BY DEF IInv, Shapes, JobMade, JobFields
<1>5. <<entry>> # <<>>
  OBVIOUS
<1> HIDE DEF j
<1>6. QED
  BY <1>1, <1>3, <1>4, <1>5, BetweenKeeps

\* The steps that only move on in what is left to add, or to resolve.
LEMMA PassingKeeps ==
  ASSUME IInv, NEW t \in Threads, PassOver(t) \/ TakeItem(t)
  PROVE  IInv'
<1> DEFINE touched == IF LooksFirst(t) THEN {} ELSE job[t].touched
           j == IF TakeItem(t) THEN [job[t] EXCEPT !.pc = "copy", !.touched = touched]
                ELSE [job[t] EXCEPT !.todo = Tail(job[t].todo)]
<1>1. /\ job[t].pc = "item" /\ job[t].todo # <<>> /\ Goes(t, j)
      /\ UNCHANGED <<setup, rules, graph, source, accepted, mixed>>
  BY DEF PassOver, TakeItem, Moves, At
<1>2. job[t] = [x \in JobFields |-> job[t][x]] /\ TodoMade(job[t].todo)
  BY DEF IInv, Shapes, JobMade
<1> HIDE DEF touched
<1>3. /\ j = [x \in JobFields |-> j[x]]
      /\ \/ j.pc = "copy" /\ j.todo = job[t].todo
         \/ j.pc = "item" /\ j.todo = Tail(job[t].todo)
  BY <1>1, <1>2 DEF JobFields
<1> HIDE DEF j
<1>4. TodoMade(j.todo)
  BY <1>1, <1>2, <1>3, TailMade
<1>5. QED
  BY <1>1, <1>3, <1>4, BetweenKeeps

LEMMA DescendsKeeps ==
  ASSUME IInv, NEW t \in Threads, NEW deps, NEW single, NEW raises, job[t].pc = "find",
         Descends(t, deps, single, raises)
  PROVE  IInv'
<1> DEFINE paths == [i \in DOMAIN deps |-> [path |-> Append(Path(t), deps[i]), back |-> FALSE,
                                            single |-> FALSE, raises |-> FALSE]]
                      \o <<[path |-> Path(t), back |-> TRUE, single |-> single, raises |-> raises]>>
                      \o Tail(job[t].paths)
           j == [job[t] EXCEPT !.tried = FALSE, !.paths = paths]
<1>1. job[t] = [x \in JobFields |-> job[t][x]] /\ TodoMade(job[t].todo)
  BY DEF IInv, Shapes, JobMade
<1>2. Goes(t, j) /\ UNCHANGED <<setup, rules, graph, source, accepted, mixed>>
  <2>1. UNCHANGED <<setup, rules, graph, source, accepted, mixed>>
    BY DEF Descends
  <2>2. Goes(t, [job[t] EXCEPT !.tried = FALSE, !.paths =
          [i \in DOMAIN deps |-> [path |-> Append(Path(t), deps[i]), back |-> FALSE, single |-> FALSE, raises |-> FALSE]]
            \o <<[path |-> Path(t), back |-> TRUE, single |-> single, raises |-> raises]>> \o Tail(@)])
    BY DEF Descends
  <2> DEFINE i == [job[t] EXCEPT !.tried = FALSE, !.paths =
          [n \in DOMAIN deps |-> [path |-> Append(Path(t), deps[n]), back |-> FALSE, single |-> FALSE, raises |-> FALSE]]
            \o <<[path |-> Path(t), back |-> TRUE, single |-> single, raises |-> raises]>> \o Tail(@)]
  <2>3. i = j
    BY <1>1 DEF JobFields
  <2>4. QED
    BY <2>1, <2>2, <2>3
<1> HIDE DEF paths
<1>3. j.pc = "find" /\ j.todo = job[t].todo /\ j = [x \in JobFields |-> j[x]]
  BY <1>1 DEF JobFields
<1> HIDE DEF j
<1>4. QED
  BY <1>1, <1>2, <1>3, BetweenKeeps

LEMMA ResolvingKeeps ==
  ASSUME IInv, NEW t \in Threads, Hit(t) \/ Find(t) \/ Collect(t) \/ Build(t)
  PROVE  IInv'
<1>1. job[t].pc = "find"
  BY DEF Hit, Find, Collect, Build, StoreResult, Calling, Looking, Missing, At
<1>2. job[t] = [x \in JobFields |-> job[t][x]] /\ TodoMade(job[t].todo)
  BY DEF IInv, Shapes, JobMade
<1> DEFINE rest == Tail(job[t].paths)
<1>3. CASE Hit(t)
  <2> DEFINE j == [job[t] EXCEPT !.paths = rest, !.tried = FALSE]
  <2>1. Goes(t, j) /\ UNCHANGED <<setup, rules, graph, source, accepted, mixed>>
    BY <1>3 DEF Hit, Moves
  <2> HIDE DEF rest
  <2>2. j.pc = "find" /\ j.todo = job[t].todo /\ j = [x \in JobFields |-> j[x]]
    BY <1>1, <1>2 DEF JobFields
  <2> HIDE DEF j
  <2>3. QED
    BY <1>1, <1>2, <2>1, <2>2, BetweenKeeps
<1>4. CASE Build(t)
  <2> DEFINE j == [job[t] EXCEPT !.paths = rest]
  <2>1. Goes(t, j) /\ UNCHANGED <<setup, rules, graph, source, accepted, mixed>>
    BY <1>4 DEF Build, StoreResult, Calling
  <2> HIDE DEF rest
  <2>2. j.pc = "find" /\ j.todo = job[t].todo /\ j = [x \in JobFields |-> j[x]]
    BY <1>1, <1>2 DEF JobFields
  <2> HIDE DEF j
  <2>3. QED
    BY <1>1, <1>2, <2>1, <2>2, BetweenKeeps
<1>5. CASE Find(t)
  BY <1>1, <1>5, DescendsKeeps DEF Find
<1>6. CASE Collect(t)
  BY <1>1, <1>6, DescendsKeeps DEF Collect
<1>7. QED
  BY <1>3, <1>4, <1>5, <1>6

-----------------------------------------------------------------------------
(* The theorem *)

LEMMA Initially == Init => IInv
<1> SUFFICES ASSUME Init PROVE IInv
  OBVIOUS
<1>1. SetupShape(setup) /\ job = [t \in Threads |-> Idle]
  BY SetupAssumption DEF Init
<1>2. Shapes
  <2>1. source \in Seq(Keys) /\ OnKeys(graph) /\ OnKeys(rules) /\ OnKeys(accepted)
    BY <1>1 DEF Init, SetupShape, OnKeys
  <2>2. \A t \in Threads : JobMade(job[t])
    BY <1>1, IdleMade
  <2>3. QED
    BY <1>1, <2>1, <2>2 DEF Init, Shapes
<1>3. \A t \in Threads : job[t].pc = "idle"
  BY <1>1 DEF Idle
<1>4. \A t \in Threads : ~Writing(t) /\ InOrder(t)
  BY <1>3 DEF Writing, InOrder, WrittenBy, CopiesOf, Restorable
<1>5. Settled
  <2> SUFFICES ASSUME NEW k \in Keys PROVE rules[k] = accepted[k] /\ graph[k] = GraphOf(accepted[k])
    BY DEF Settled
  <2>1. rules[k] = IF setup.given[k] = NoEntry THEN NoRule
                   ELSE RuleOf(setup.given[k], "given", FALSE, k \in setup.failing)
    BY DEF Init
  <2> DEFINE raises == k \in setup.failing
             rule == RuleOf(setup.given[k], "given", FALSE, raises)
  <2>2. rule.deps = setup.given[k] /\ rule.by = "given"
    <3> HIDE DEF raises
    <3>1. QED
      BY DEF RuleOf
  <2>3. rules[k] = IF setup.given[k] = NoEntry THEN NoRule ELSE rule
    BY <2>1
  <2> HIDE DEF rule
  <2>4. NoRule.by = "nobody"
    BY DEF NoRule
  <2>5. rule # NoRule
    BY <2>2, <2>4
  <2>6. QED
    BY <2>2, <2>3, <2>5 DEF Init, GraphOf
<1>6. QED
  BY <1>2, <1>4, <1>5 DEF IInv, Exact, OneWriter

LEMMA ReadingKeeps ==
  ASSUME IInv, ChangeSource
  PROVE  IInv'
<1>1. /\ UNCHANGED <<setup, rules, graph, job, accepted, mixed>>
      /\ source' \in Seq(Keys)
  BY SetupAssumption DEF ChangeSource, IInv, Shapes, SetupShape
<1>2. Shapes'
  BY <1>1 DEF IInv, Shapes, OnKeys, JobMade
<1>3. QED
  BY <1>1, <1>2 DEF IInv, Exact, OneWriter, Settled, InOrder, WrittenBy, CopiesOf, Restorable,
                    Writing, KeyOf, RuleIn, Item, GraphOf

\* The invariant is inductive: it holds at first and every step keeps it,
\* whatever any number of threads register at once.
THEOREM RegistrationInvariance == Spec => []IInv
<1>1. IInv /\ [Next]_vars => IInv'
  <2> SUFFICES ASSUME IInv, [Next]_vars PROVE IInv'
    OBVIOUS
  <2>1. CASE ChangeSource
    BY <2>1, ReadingKeeps
  <2>2. ASSUME NEW t \in Threads, Add(t) PROVE IInv'
    BY <2>2, AddKeeps
  <2>3. ASSUME NEW t \in Threads, Register(t) PROVE IInv'
    BY <2>3, InstallKeeps, AssignKeeps, ValidateKeeps, ReadAgainKeeps, ScanKeeps, PassingKeeps,
       EndingsKeep DEF Register
  <2>4. ASSUME NEW t \in Threads, Resolve(t) PROVE IInv'
    BY <2>4, GetKeeps, MakeUpKeeps, ResolvingKeeps, EndingsKeep DEF Resolve
  <2>5. CASE UNCHANGED vars
    <3>1. UNCHANGED <<setup, rules, graph, source, job, accepted, mixed>>
      BY <2>5 DEF vars
    <3>2. Shapes'
      BY <3>1 DEF IInv, Shapes, OnKeys, JobMade
    <3>3. QED
      BY <3>1, <3>2 DEF IInv, Exact, OneWriter, Settled, InOrder, WrittenBy, CopiesOf, Restorable,
                        Writing, KeyOf, RuleIn, Item, GraphOf
  <2>6. QED
    BY <2>1, <2>2, <2>3, <2>4, <2>5 DEF Next
<1>2. QED
  BY Initially, <1>1, PTL DEF Spec

\* What the rule set holds for a key is the last rule whose add returned, with
\* its edges, unless the key is being added: threads that register at once take
\* nothing from each other as long as no two add one key at once and no add is
\* taken back that another wrote during.  (RuleSet.add, without a lock.)
THEOREM AddsAreExact == Spec => []RulesExact
<1>1. IInv => RulesExact
  <2> SUFFICES ASSUME IInv, ~mixed, NEW k \in Keys, ~InAdd(k)
               PROVE  /\ rules[k] = accepted[k]
                      /\ graph[k] = IF rules[k] = NoRule THEN NoEntry ELSE rules[k].deps
    BY DEF RulesExact
  <2>1. \A t \in Threads : Writing(t) => KeyOf(t) # k
    BY DEF InAdd, Writing, Adding, KeyOf
  <2>2. QED
    BY <2>1 DEF IInv, Exact, Settled, GraphOf
<1>2. QED
  BY RegistrationInvariance, <1>1, PTL

-----------------------------------------------------------------------------
(* What the jobs hold *)

RulesMap == [Keys -> Rule \cup {NoRule}]
GraphMap == [Keys -> Seq(Keys) \cup {NoEntry}]
Steps == [path : Seq(Keys) \ {<<>>}, back : BOOLEAN, single : BOOLEAN, raises : BOOLEAN]
Jobs == {"install", "assign", "config", "scan", "get"}
\* Types are wired by scans and by get.
Entries(do) ==
  {e \in [key : Keys, rule : Rule] : e.rule.by = "wired" => do \in {"scan", "get"}}
\* j is what thread t holds in a job of this kind.
Doing(t, n, do) == n \in DOMAIN setup.jobs[t] /\ setup.jobs[t][n].do = do
Holds(j, do) ==
  /\ j.todo \in Seq(Entries(do))
  /\ j.read # {} => do = "config"
  /\ j.pc = "read" => do = "config"
  /\ j.pc = "item" => do # "get"
  /\ j.pc = "find" => do = "get"
Fits(t, j, n) ==
  /\ n \in Nat
  /\ j.pc \in Pcs
  /\ j.paths \in Seq(Steps) /\ j.read \in SUBSET Keys
  /\ j.pc \in Adding => j.oldRules \in RulesMap
  /\ j.pc \in Adding \ {"copy graph"} => j.oldGraph \in GraphMap
  /\ j.pc \in Adding \cup {"copy"} => j.todo # <<>>
  /\ j.pc = "idle" => j = Idle
  /\ j.pc # "idle" => \E do \in Jobs : Doing(t, n, do) /\ Holds(j, do)
TypeInv == TypeOK /\ \A t \in Threads : Fits(t, job[t], next[t])

LEMMA SetupIs ==
  ASSUME setup \in Setups PROVE SetupShape(setup)
BY SetupAssumption

\* What a step does to another's job: nothing its own thread would notice, but
\* that a key it wrote is remembered.
LEMMA OthersHold ==
  ASSUME Shapes, NEW t \in Threads, NEW j, Goes(t, j), NEW u \in Threads \ {t}
  PROVE  /\ job'[u].pc = job[u].pc /\ job'[u].todo = job[u].todo
         /\ job'[u].paths = job[u].paths /\ job'[u].read = job[u].read
         /\ job'[u].oldRules = job[u].oldRules /\ job'[u].oldGraph = job[u].oldGraph
         /\ job[u].pc = "idle" => job'[u] = job[u]
         /\ job[u].pc # "idle" =>
              job'[u].touched = job[u].touched \cup {k \in Keys : rules'[k] # rules[k]}
<1>1. job[u] = [x \in JobFields |-> job[u][x]]
  BY DEF Shapes, JobMade
<1>2. CASE job[u].pc = "idle"
  BY <1>2 DEF Goes
<1>3. CASE job[u].pc # "idle"
  <2> DEFINE touched == job[u].touched \cup {k \in Keys : rules'[k] # rules[k]}
             crossed == job[u].crossed \/ (job[u].pc \in Adding
                                            /\ <<rules', graph'>> # <<rules, graph>>)
  <2>1. job'[u] = [job[u] EXCEPT !.alone = FALSE, !.touched = touched, !.crossed = crossed]
    BY <1>3 DEF Goes
  <2>2. touched = job[u].touched \cup {k \in Keys : rules'[k] # rules[k]}
    OBVIOUS
  <2> HIDE DEF touched, crossed
  <2>3. QED
    BY <1>1, <1>3, <2>1, <2>2 DEF JobFields
<1>4. QED
  BY <1>2, <1>3

LEMMA FitsAlike ==
  ASSUME NEW u, NEW n, NEW i, NEW j, Fits(u, i, n),
         j.pc = i.pc, j.todo = i.todo, j.paths = i.paths, j.read = i.read,
         j.oldRules = i.oldRules, j.oldGraph = i.oldGraph, i.pc = "idle" => j = i
  PROVE  Fits(u, j, n)
<1>1. \A do : Holds(i, do) => Holds(j, do)
  BY DEF Holds
<1>2. QED
  BY <1>1 DEF Fits

\* A step of a thread that still fits its own job keeps every other's.
LEMMA TypesKept ==
  ASSUME Shapes, TypeInv, NEW t \in Threads, NEW j, Goes(t, j),
         NEW n, next' = [next EXCEPT ![t] = n], Fits(t, j, n),
         setup' = setup, rules' \in RulesMap, graph' \in GraphMap, accepted' \in RulesMap,
         bound' \in SUBSET Keys, cached' \in SUBSET Keys, source' \in Seq(Keys), mixed' \in BOOLEAN,
         owner' \in {owner, t, NoThread},
         owner' = t /\ owner' # NoThread => j.pc # "idle" /\ Doing(t, n, "get")
  PROVE  TypeInv'
<1>1. job'[t] = j /\ next'[t] = n /\ \A u \in Threads \ {t} : next'[u] = next[u]
  BY GoesToOthers DEF TypeInv, TypeOK
<1>2. ASSUME NEW u \in Threads PROVE Fits(u, job[u], next[u])'
  <2>1. CASE u = t
    BY <1>1, <2>1 DEF Fits, Holds, Doing
  <2>2. CASE u # t
    <3>1. Fits(u, job[u], next[u])
      BY DEF TypeInv
    <3>2. Fits(u, job'[u], next[u])
      BY <2>2, <3>1, OthersHold, FitsAlike
    <3>3. QED
      BY <1>1, <2>2, <3>2 DEF Fits, Holds, Doing
  <2>3. QED
    BY <2>1, <2>2
<1>3. next' \in [Threads -> Nat]
  BY DEF Fits, TypeInv, TypeOK
<1>4. owner' \in Threads \cup {NoThread}
  BY DEF TypeInv, TypeOK
<1>5. ASSUME owner' # NoThread PROVE Does(owner, "get")' /\ job'[owner'].pc # "idle"
  <2>1. CASE owner' = t
    BY <1>1, <1>5, <2>1 DEF Does, Current, Doing
  <2>2. CASE owner' # t
    <3>1. owner' = owner /\ owner \in Threads \ {t}
      BY <1>5, <2>2 DEF TypeInv, TypeOK
    <3>2. QED
      BY <1>1, <1>5, <3>1, OthersHold DEF TypeInv, TypeOK, Does, Current
  <2>3. QED
    BY <2>1, <2>2
<1>6. \A u \in Threads :
        /\ job'[u].pc \in Pcs
        /\ job'[u].pc \in Adding => job'[u].todo # <<>> /\ DOMAIN job'[u].oldRules = Keys
        /\ job'[u].pc = "idle" => job'[u] = Idle
  BY <1>2 DEF Fits, RulesMap
<1>7. SetupShape(setup)'
  <2>1. SetupShape(setup)
    BY DEF TypeInv, TypeOK
  <2>2. QED
    BY <2>1
<1>8. TypeOK'
  BY <1>3, <1>4, <1>5, <1>6, <1>7 DEF TypeOK, RulesMap, GraphMap
<1>9. QED
  BY <1>2, <1>8 DEF TypeInv

\* The rule a thread is adding.
LEMMA ItemTyped ==
  ASSUME TypeInv, NEW t \in Threads, job[t].todo # <<>>
  PROVE  /\ KeyOf(t) \in Keys /\ RuleIn(t) \in Rule /\ RuleIn(t) # NoRule
         /\ job[t].pc # "idle"
         /\ \A do : job[t].todo \in Seq(Entries(do)) =>
              /\ Tail(job[t].todo) \in Seq(Entries(do))
              /\ RuleIn(t).by = "wired" => do \in {"scan", "get"}
<1>1. Fits(t, job[t], next[t])
  BY DEF TypeInv
<1>2. job[t].pc # "idle"
  <2>1. Idle.todo = <<>>
    BY DEF Idle
  <2>2. QED
    BY <1>1, <2>1 DEF Fits
<1>3. PICK do : job[t].todo \in Seq(Entries(do))
  BY <1>1, <1>2 DEF Fits, Holds
<1>4. \A d : job[t].todo \in Seq(Entries(d)) =>
        Item(t) \in Entries(d) /\ Tail(job[t].todo) \in Seq(Entries(d))
  BY HeadTailProperties DEF Item
<1>5. Item(t).key \in Keys /\ Item(t).rule \in Rule
  BY <1>3, <1>4 DEF Entries
<1>6. Item(t).rule # NoRule
  <2>1. Item(t).rule.by \in Makers
    BY <1>5 DEF Rule
  <2>2. NoRule.by = "nobody"
    BY DEF NoRule
  <2>3. QED
    BY <2>1, <2>2 DEF Makers
<1>7. \A d : job[t].todo \in Seq(Entries(d)) => (Item(t).rule.by = "wired" => d \in {"scan", "get"})
  BY <1>4 DEF Entries
<1>8. QED
  BY <1>2, <1>4, <1>5, <1>6, <1>7 DEF KeyOf, RuleIn

\* A thread goes on with its job, or takes the lock.
LEMMA MovesTyped ==
  ASSUME Shapes, TypeInv, NEW t \in Threads, NEW j, Goes(t, j), j.pc # "idle",
         Fits(t, j, next[t]), UNCHANGED <<setup, bound, source, next>>,
         rules' \in RulesMap, graph' \in GraphMap, accepted' \in RulesMap,
         cached' \in SUBSET Keys, mixed' \in BOOLEAN,
         owner' = owner \/ (owner' = t /\ Does(t, "get"))
  PROVE  TypeInv'
<1>1. next' = [next EXCEPT ![t] = next[t]] /\ bound' \in SUBSET Keys /\ source' \in Seq(Keys)
  BY DEF TypeInv, TypeOK
<1>2. owner' \in {owner, t, NoThread}
  OBVIOUS
<1>3. owner' = t /\ owner' # NoThread => Doing(t, next[t], "get")
  BY DEF TypeInv, TypeOK, Does, Current, Doing
<1>4. QED
  BY <1>1, <1>2, <1>3, TypesKept

\* It ends its job.
LEMMA StopsTyped ==
  ASSUME Shapes, TypeInv, NEW t \in Threads, Stops(t), UNCHANGED <<setup, source>>,
         rules' \in RulesMap, graph' \in GraphMap, accepted' \in RulesMap,
         bound' \in SUBSET Keys, cached' \in SUBSET Keys, mixed' \in BOOLEAN
  PROVE  TypeInv'
<1>1. next[t] + 1 \in Nat /\ next' = [next EXCEPT ![t] = next[t] + 1]
  BY DEF TypeInv, TypeOK, Stops
<1>2. Fits(t, Idle, next[t] + 1)
  <2>1. Idle.pc = "idle" /\ Idle.paths = <<>> /\ Idle.read = {}
    BY DEF Idle
  <2>2. QED
    BY <1>1, <2>1 DEF Fits, Pcs, Adding
<1>3. Goes(t, Idle) /\ owner' \in {owner, t, NoThread} /\ (owner' = t => owner' = NoThread)
  BY DEF Stops
<1>4. source' \in Seq(Keys)
  BY DEF TypeInv, TypeOK
<1>5. QED
  BY <1>1, <1>2, <1>3, <1>4, TypesKept

\* What an add holds at each of its places.
LEMMA AddTyped ==
  ASSUME Shapes, TypeInv, NEW t \in Threads, Add(t)
  PROVE  TypeInv'
<1> DEFINE i == job[t]
<1>1. /\ Fits(t, i, next[t]) /\ i = [x \in JobFields |-> i[x]]
      /\ i.pc \in {"copy"} \cup Adding
      /\ rules \in RulesMap /\ graph \in GraphMap /\ accepted \in RulesMap
      /\ cached \in SUBSET Keys /\ mixed \in BOOLEAN /\ bound \in SUBSET Keys
  BY DEF TypeInv, TypeOK, RulesMap, GraphMap, Shapes, JobMade, Add, CopyMap, CopyGraph, WriteMap,
         WriteGraph, Accept, Refuse, UndoMap, UndoGraph, At, Adding
<1>2. i.todo # <<>> /\ i.pc # "idle"
  BY <1>1 DEF Fits, Adding
<1>3. KeyOf(t) \in Keys /\ RuleIn(t) \in Rule
  BY <1>2, ItemTyped
<1>4. PICK do \in Jobs : Doing(t, next[t], do) /\ Holds(i, do)
  BY <1>1, <1>2 DEF Fits
<1>5. i.todo \in Seq(Entries(do)) /\ Tail(i.todo) \in Seq(Entries(do))
  BY <1>2, <1>4, ItemTyped DEF Holds
\* Only the place and the copies change.
<1>6. ASSUME NEW j, j.pc \in Adding, j.todo = i.todo, j.paths = i.paths,
             j.read \in SUBSET i.read,
             j.oldRules \in RulesMap, j.pc # "copy graph" => j.oldGraph \in GraphMap
      PROVE  Fits(t, j, next[t]) /\ j.pc # "idle"
  <2>1. j.pc \notin {"read", "item", "find", "idle"} /\ j.pc \in Pcs /\ j.read \in SUBSET Keys
    BY <1>1, <1>6 DEF Adding, Pcs, Fits
  <2>2. Holds(j, do)
    BY <1>4, <1>6, <2>1 DEF Holds
  <2>3. QED
    BY <1>1, <1>2, <1>4, <1>6, <2>1, <2>2 DEF Fits
<1>7. CASE CopyMap(t)
  <2> DEFINE j == [i EXCEPT !.pc = "copy graph", !.oldRules = rules, !.crossed = FALSE]
  <2>1. Goes(t, j) /\ UNCHANGED <<setup, rules, graph, bound, cached, source, owner, next, accepted, mixed>>
    BY <1>7 DEF CopyMap, Moves
  <2>2. /\ j.pc = "copy graph" /\ j.todo = i.todo /\ j.paths = i.paths /\ j.read = i.read
        /\ j.oldRules = rules
    BY <1>1 DEF JobFields
  <2> HIDE DEF i, j
  <2>3. Fits(t, j, next[t]) /\ j.pc # "idle"
    <3>1. /\ j.pc \in Adding /\ j.oldRules \in RulesMap
          /\ j.pc # "copy graph" => j.oldGraph \in GraphMap
      BY <1>1, <2>2 DEF Adding, Fits
    <3>2. QED
      BY <1>6, <2>2, <3>1
  <2>4. QED
    BY <1>1, <2>1, <2>3, MovesTyped
<1>8. CASE CopyGraph(t)
  <2> DEFINE j == [i EXCEPT !.pc = "map", !.oldGraph = graph]
  <2>1. Goes(t, j) /\ UNCHANGED <<setup, rules, graph, bound, cached, source, owner, next, accepted, mixed>>
    BY <1>8 DEF CopyGraph, Moves
  <2>2. /\ j.pc = "map" /\ j.todo = i.todo /\ j.paths = i.paths /\ j.read = i.read
        /\ j.oldRules = i.oldRules /\ j.oldGraph = graph /\ i.pc \in Adding
    BY <1>1, <1>8 DEF JobFields, CopyGraph, At, Adding
  <2> HIDE DEF i, j
  <2>3. Fits(t, j, next[t]) /\ j.pc # "idle"
    <3>1. /\ j.pc \in Adding /\ j.oldRules \in RulesMap
          /\ j.pc # "copy graph" => j.oldGraph \in GraphMap
      BY <1>1, <2>2 DEF Adding, Fits
    <3>2. QED
      BY <1>6, <2>2, <3>1
  <2>4. QED
    BY <1>1, <2>1, <2>3, MovesTyped
<1>9. CASE WriteMap(t)
  <2> DEFINE j == [i EXCEPT !.pc = "graph", !.read = @ \ {KeyOf(t)}]
  <2>1. /\ Goes(t, j) /\ UNCHANGED <<setup, graph, bound, cached, source, owner, next, accepted>>
        /\ rules' = [rules EXCEPT ![KeyOf(t)] = RuleIn(t)]
        /\ mixed' = (mixed \/ SharesKey(t))
    BY <1>9 DEF WriteMap, KeyOf, RuleIn
  <2>2. /\ j.pc = "graph" /\ j.todo = i.todo /\ j.paths = i.paths /\ j.read \in SUBSET i.read
        /\ j.oldRules = i.oldRules /\ j.oldGraph = i.oldGraph /\ i.pc = "map"
    BY <1>1, <1>9 DEF JobFields, WriteMap, At
  <2> HIDE DEF i, j
  <2>3. Fits(t, j, next[t]) /\ j.pc # "idle"
    <3>1. /\ j.pc \in Adding /\ j.oldRules \in RulesMap
          /\ j.pc # "copy graph" => j.oldGraph \in GraphMap
      BY <1>1, <2>2 DEF Adding, Fits
    <3>2. QED
      BY <1>6, <2>2, <3>1
  <2>4. rules' \in RulesMap
    BY <1>1, <1>3, <2>1 DEF RulesMap
  <2>5. mixed' \in BOOLEAN
    BY <1>1, <2>1
  <2>6. QED
    BY <1>1, <2>1, <2>3, <2>4, <2>5, MovesTyped
<1>10. CASE WriteGraph(t)
  <2> DEFINE j == [i EXCEPT !.pc = "check"]
  <2>1. /\ Goes(t, j) /\ UNCHANGED <<setup, rules, bound, cached, source, owner, next, accepted>>
        /\ graph' = [graph EXCEPT ![KeyOf(t)] = RuleIn(t).deps]
        /\ mixed' = (mixed \/ SharesKey(t))
    BY <1>10 DEF WriteGraph, KeyOf, RuleIn
  <2>2. /\ j.pc = "check" /\ j.todo = i.todo /\ j.paths = i.paths /\ j.read = i.read
        /\ j.oldRules = i.oldRules /\ j.oldGraph = i.oldGraph /\ i.pc = "graph"
    BY <1>1, <1>10 DEF JobFields, WriteGraph, At
  <2> HIDE DEF i, j
  <2>3. Fits(t, j, next[t]) /\ j.pc # "idle"
    <3>1. /\ j.pc \in Adding /\ j.oldRules \in RulesMap
          /\ j.pc # "copy graph" => j.oldGraph \in GraphMap
      BY <1>1, <2>2 DEF Adding, Fits
    <3>2. QED
      BY <1>6, <2>2, <3>1
  <2>4. graph' \in GraphMap
    <3>1. RuleIn(t).deps \in Seq(Keys)
      BY <1>3 DEF Rule
    <3>2. QED
      BY <1>1, <1>3, <2>1, <3>1 DEF GraphMap
  <2>5. mixed' \in BOOLEAN
    BY <1>1, <2>1
  <2>6. QED
    BY <1>1, <2>1, <2>3, <2>4, <2>5, MovesTyped
<1>11. CASE Accept(t)
  <2> DEFINE j == [i EXCEPT !.pc = After(t), !.todo = Tail(@), !.oldRules = <<>>,
                            !.oldGraph = <<>>, !.tried = After(t) = "find"]
  <2>1. /\ Goes(t, j) /\ UNCHANGED <<setup, rules, graph, bound, cached, source, owner, next, mixed>>
        /\ accepted' = [accepted EXCEPT ![KeyOf(t)] = RuleIn(t)]
    BY <1>11 DEF Accept, KeyOf, RuleIn
  <2>2. /\ j.pc = After(t) /\ j.todo = Tail(i.todo) /\ j.paths = i.paths /\ j.read = i.read
    BY <1>1 DEF JobFields
  <2>3. After(t) = IF do = "get" THEN "find" ELSE "item"
    BY <1>4 DEF After, Current, Doing
  <2> HIDE DEF i, j
  <2>4. Holds(j, do)
    BY <1>4, <1>5, <2>2, <2>3 DEF Holds
  <2>5. Fits(t, j, next[t]) /\ j.pc # "idle"
    BY <1>1, <1>4, <2>2, <2>3, <2>4 DEF Fits, Adding, Pcs
  <2>6. accepted' \in RulesMap
    BY <1>1, <1>3, <2>1 DEF RulesMap
  <2>7. QED
    BY <1>1, <2>1, <2>5, <2>6, MovesTyped
<1>12. CASE Refuse(t)
  <2> DEFINE j == [i EXCEPT !.pc = "undo"]
  <2>1. Goes(t, j) /\ UNCHANGED <<setup, rules, graph, bound, cached, source, owner, next, accepted, mixed>>
    BY <1>12 DEF Refuse, Moves
  <2>2. /\ j.pc = "undo" /\ j.todo = i.todo /\ j.paths = i.paths /\ j.read = i.read
        /\ j.oldRules = i.oldRules /\ j.oldGraph = i.oldGraph /\ i.pc = "check"
    BY <1>1, <1>12 DEF JobFields, Refuse, At
  <2> HIDE DEF i, j
  <2>3. Fits(t, j, next[t]) /\ j.pc # "idle"
    <3>1. /\ j.pc \in Adding /\ j.oldRules \in RulesMap
          /\ j.pc # "copy graph" => j.oldGraph \in GraphMap
      BY <1>1, <2>2 DEF Adding, Fits
    <3>2. QED
      BY <1>6, <2>2, <3>1
  <2>4. QED
    BY <1>1, <2>1, <2>3, MovesTyped
<1>13. CASE UndoMap(t)
  <2> DEFINE j == [i EXCEPT !.pc = "undo graph"]
  <2>1. /\ Goes(t, j) /\ UNCHANGED <<setup, graph, bound, cached, source, owner, next, accepted>>
        /\ rules' = i.oldRules /\ mixed' = (mixed \/ i.crossed)
    BY <1>13 DEF UndoMap
  <2>2. /\ j.pc = "undo graph" /\ j.todo = i.todo /\ j.paths = i.paths /\ j.read = i.read
        /\ j.oldRules = i.oldRules /\ j.oldGraph = i.oldGraph /\ i.pc = "undo"
    BY <1>1, <1>13 DEF JobFields, UndoMap, At
  <2> HIDE DEF i, j
  <2>3. Fits(t, j, next[t]) /\ j.pc # "idle" /\ i.oldRules \in RulesMap
    <3>1. /\ j.pc \in Adding /\ j.oldRules \in RulesMap
          /\ j.pc # "copy graph" => j.oldGraph \in GraphMap
      BY <1>1, <2>2 DEF Adding, Fits
    <3>2. QED
      BY <1>6, <2>2, <3>1
  <2>4. mixed' \in BOOLEAN
    BY <1>1, <2>1
  <2>5. QED
    BY <1>1, <2>1, <2>3, <2>4, MovesTyped
<1>14. CASE UndoGraph(t)
  <2>1. /\ Stops(t) /\ UNCHANGED <<setup, rules, bound, cached, source, accepted>>
        /\ graph' = i.oldGraph /\ mixed' = (mixed \/ i.crossed) /\ i.pc = "undo graph"
    BY <1>14 DEF UndoGraph, Ends, At
  <2>2. i.oldGraph \in GraphMap /\ mixed' \in BOOLEAN
    BY <1>1, <2>1 DEF Adding, Fits
  <2>3. QED
    BY <1>1, <2>1, <2>2, StopsTyped
<1>15. QED
  BY <1>7, <1>8, <1>9, <1>10, <1>11, <1>12, <1>13, <1>14 DEF Add

-----------------------------------------------------------------------------
(* What jobs have to add *)

\* The keys of the references before one, and those up to and with it.
More(refs, s, n) == IF Unbound(refs[n]) THEN s ELSE Append(s, refs[n].key)
PrefixKeys(refs, f, n) ==
  f \in [0..n -> Seq(Keys)] /\ f[0] = <<>> /\ \A i \in 1..n : f[i] = More(refs, f[i - 1], i)

LEMMA MoreTyped ==
  ASSUME NEW refs \in Seq([key : Keys, form : Forms]), NEW n \in 1..Len(refs),
         NEW s \in Seq(Keys)
  PROVE  More(refs, s, n) \in Seq(Keys)
<1>1. refs[n] \in [key : Keys, form : Forms]
  BY ElementOfSeq
<1>2. refs[n].key \in Keys
  BY <1>1
<1>3. Append(s, refs[n].key) \in Seq(Keys)
  BY <1>2, AppendProperties
<1>4. QED
  BY <1>3 DEF More

LEMMA LongerPrefixes ==
  ASSUME NEW refs \in Seq([key : Keys, form : Forms]), NEW m \in 1..Len(refs),
         NEW f, PrefixKeys(refs, f, m - 1)
  PROVE  \E g : PrefixKeys(refs, g, m)
<1>1. m \in Nat /\ m # 0 /\ m - 1 \in 0..(m - 1) /\ m \in 0..m /\ 0 \in 0..m /\ 0 # m
  BY LenProperties
<1>2. f \in [0..(m - 1) -> Seq(Keys)] /\ f[0] = <<>>
      /\ \A i \in 1..(m - 1) : f[i] = More(refs, f[i - 1], i)
  BY DEF PrefixKeys
<1>3. f[m - 1] \in Seq(Keys)
  BY <1>1, <1>2
<1>4. More(refs, f[m - 1], m) \in Seq(Keys)
  BY <1>3, MoreTyped
<1> DEFINE g == [i \in 0..m |-> IF i = m THEN More(refs, f[m - 1], m) ELSE f[i]]
<1>5. \A i \in 0..m : g[i] = IF i = m THEN More(refs, f[m - 1], m) ELSE f[i]
  OBVIOUS
<1>6. \A i \in 0..m : i # m => i \in 0..(m - 1)
  BY <1>1
<1>7. g \in [0..m -> Seq(Keys)]
  <2>1. \A i \in 0..m : (IF i = m THEN More(refs, f[m - 1], m) ELSE f[i]) \in Seq(Keys)
    BY <1>2, <1>4, <1>6
  <2>2. QED
    BY <2>1
<1> HIDE DEF g
<1>8. ASSUME NEW i \in 1..m PROVE g[i] = More(refs, g[i - 1], i)
  <2>1. i - 1 \in 0..m /\ i - 1 # m /\ i \in 0..m /\ (i # m => i \in 1..(m - 1))
    BY <1>1
  <2>2. g[i - 1] = f[i - 1]
    BY <1>5, <2>1
  <2>3. CASE i = m
    BY <1>5, <2>1, <2>2, <2>3
  <2>4. CASE i # m
    <3>1. g[i] = f[i] /\ f[i] = More(refs, f[i - 1], i)
      BY <1>2, <1>5, <2>1, <2>4
    <3>2. QED
      BY <2>2, <3>1
  <2>5. QED
    BY <2>3, <2>4
<1>9. g[0] = <<>>
  BY <1>1, <1>2, <1>5
<1>10. PrefixKeys(refs, g, m)
  BY <1>7, <1>8, <1>9 DEF PrefixKeys
<1>11. QED
  BY <1>10

\* There are prefixes of every length: there is no least length without.
LEMMA AllPrefixes ==
  ASSUME NEW refs \in Seq([key : Keys, form : Forms])
  PROVE  \E f : PrefixKeys(refs, f, Len(refs))
<1> DEFINE L == Len(refs)
           Bad == {n \in 0..L : ~\E f : PrefixKeys(refs, f, n)}
<1>1. L \in Nat
  BY LenProperties
<1>2. \A n : n \in Bad <=> n \in 0..L /\ ~\E f : PrefixKeys(refs, f, n)
  OBVIOUS
<1> HIDE DEF Bad
<1>3. CASE Bad = {}
  BY <1>1, <1>2, <1>3
<1>4. CASE Bad # {}
  <2>1. Bad \in SUBSET Nat
    BY <1>1, <1>2
  <2>2. PICK m \in Bad : \A n \in Bad : m <= n
    BY <1>4, <2>1, LeastNumber
  <2>3. m # 0
    <3> DEFINE f == [i \in 0..0 |-> <<>>]
    <3>1. f \in [0..0 -> Seq(Keys)] /\ f[0] = <<>>
      OBVIOUS
    <3> HIDE DEF f
    <3>2. PrefixKeys(refs, f, 0)
      BY <3>1 DEF PrefixKeys
    <3>3. QED
      BY <1>2, <3>2
  <2>4. m \in 1..L /\ m - 1 \in 0..L /\ ~(m <= m - 1)
    BY <1>1, <1>2, <2>2, <2>3
  <2>5. m - 1 \notin Bad
    BY <2>2, <2>4
  <2>6. PICK f : PrefixKeys(refs, f, m - 1)
    BY <1>2, <2>4, <2>5
  <2>7. QED
    BY <1>2, <2>2, <2>4, <2>6, LongerPrefixes
<1>5. QED
  BY <1>3, <1>4

LEMMA RefKeysTyped ==
  ASSUME NEW refs \in Seq([key : Keys, form : Forms])
  PROVE  RefKeys(refs) \in Seq(Keys)
<1> DEFINE L == Len(refs)
           F == CHOOSE h : h = [n \in 0..L |-> IF n = 0 THEN <<>>
                                 ELSE IF Unbound(refs[n]) THEN h[n - 1]
                                 ELSE Append(h[n - 1], refs[n].key)]
<1>1. L \in Nat /\ L \in 0..L
  BY LenProperties
<1>2. PICK f : PrefixKeys(refs, f, L)
  BY AllPrefixes
<1>3. f = [n \in 0..L |-> IF n = 0 THEN <<>> ELSE IF Unbound(refs[n]) THEN f[n - 1]
                          ELSE Append(f[n - 1], refs[n].key)]
  <2>1. \A n \in 0..L : n # 0 => n \in 1..L
    BY <1>1
  <2>2. QED
    BY <1>2, <2>1 DEF PrefixKeys, More
<1>4. F = [n \in 0..L |-> IF n = 0 THEN <<>> ELSE IF Unbound(refs[n]) THEN F[n - 1]
                          ELSE Append(F[n - 1], refs[n].key)]
  BY <1>3
<1>5. RefKeys(refs) = F[L]
  BY DEF RefKeys
<1> HIDE DEF F, L
<1>6. \A n \in 0..L : F[n] = IF n = 0 THEN <<>> ELSE More(refs, F[n - 1], n)
  BY <1>4 DEF More
<1> DEFINE Bad == {n \in 0..L : F[n] \notin Seq(Keys)}
<1>7. \A n : n \in Bad <=> n \in 0..L /\ F[n] \notin Seq(Keys)
  OBVIOUS
<1> HIDE DEF Bad
<1>8. CASE Bad # {}
  <2>1. Bad \in SUBSET Nat
    BY <1>1, <1>7
  <2>2. PICK m \in Bad : \A n \in Bad : m <= n
    BY <1>8, <2>1, LeastNumber
  <2>3. m # 0
    <3>1. F[0] = <<>> /\ <<>> \in Seq(Keys)
      BY <1>1, <1>6
    <3>2. QED
      BY <1>7, <2>2, <3>1
  <2>4. m \in 1..L /\ m - 1 \in 0..L /\ ~(m <= m - 1)
    BY <1>1, <1>7, <2>2, <2>3
  <2>5. F[m - 1] \in Seq(Keys)
    BY <1>7, <2>2, <2>4
  <2>6. F[m] \in Seq(Keys)
    BY <1>6, <1>7, <2>2, <2>3, <2>4, <2>5, MoreTyped DEF L
  <2>7. QED
    BY <1>7, <2>2, <2>6
<1>9. QED
  BY <1>1, <1>5, <1>7, <1>8

LEMMA SetToSeqTyped ==
  ASSUME NEW S \in SUBSET Keys
  PROVE  SetToSeq(S) \in Seq(Keys)
<1>1. IsFiniteSet(S) /\ Cardinality(S) \in Nat /\ ExistsBijection(1..Cardinality(S), S)
  BY KeysAssumption, FS_Subset, FS_CardinalityType
<1>2. \E f \in [1..Cardinality(S) -> S] : IsInjective(f)
  BY <1>1 DEF ExistsBijection, Bijection, Injection
<1>3. SetToSeq(S) \in [1..Cardinality(S) -> S]
  BY <1>2 DEF SetToSeq
<1>4. QED
  BY <1>1, <1>3

LEMMA MapTyped ==
  ASSUME NEW S, NEW n \in Nat, NEW f, f = [i \in 1..n |-> f[i]], \A i \in 1..n : f[i] \in S
  PROVE  f \in Seq(S)
OBVIOUS

LEMMA EntryTyped ==
  ASSUME NEW k \in Keys, NEW deps \in Seq(Keys), NEW by \in Makers, NEW single \in BOOLEAN,
         NEW raises \in BOOLEAN, NEW do, by = "wired" => do \in {"scan", "get"}
  PROVE  Entry(k, RuleOf(deps, by, single, raises)) \in Entries(do)
BY DEF Entry, RuleOf, Entries, Rule

LEMMA WiredTyped ==
  ASSUME IInv, NEW k \in Keys, NEW do \in {"scan", "get"}
  PROVE  Wired(k) \in Entries(do)
<1>1. setup.annotated[k] \in Seq(Keys)
  BY SetupIs DEF IInv, Shapes, SetupShape
<1>2. (k \in setup.failing) \in BOOLEAN
  OBVIOUS
<1>3. QED
  BY <1>1, <1>2, EntryTyped DEF Wired, Makers

\* A step of a thread that is in no add before or after it.
LEMMA BetweenTyped ==
  ASSUME IInv, TypeInv, NEW t \in Threads, NEW j, Goes(t, j),
         j.pc \in {"read", "item", "copy", "find"}, j.paths \in Seq(Steps), j.read \in SUBSET Keys,
         NEW do \in Jobs, Doing(t, next[t], do), Holds(j, do), j.pc = "copy" => j.todo # <<>>,
         UNCHANGED <<setup, rules, graph, bound, source, next, accepted, mixed>>,
         cached' \in SUBSET Keys, owner' = owner \/ (owner' = t /\ do = "get")
  PROVE  TypeInv'
<1>1. Fits(t, j, next[t]) /\ j.pc # "idle"
  BY DEF Fits, TypeInv, TypeOK, Pcs, Adding
<1>2. /\ rules' \in RulesMap /\ graph' \in GraphMap /\ accepted' \in RulesMap /\ mixed' \in BOOLEAN
  BY DEF TypeInv, TypeOK, RulesMap, GraphMap
<1>3. owner' = owner \/ (owner' = t /\ Does(t, "get"))
  BY DEF Doing, Does, Current
<1>4. QED
  BY <1>1, <1>2, <1>3, MovesTyped DEF IInv

LEMMA StartTyped ==
  ASSUME IInv, TypeInv, NEW t \in Threads, NEW do \in Jobs, Does(t, do), NEW j, Starts(t, j),
         j.pc \in {"read", "item", "find"}, j.paths \in Seq(Steps), j.read \in SUBSET Keys,
         Holds(j, do), j = [x \in JobFields |-> j[x]]
  PROVE  TypeInv'
<1> DEFINE i == [j EXCEPT !.alone = \A u \in Threads \ {t} : job[u].pc = "idle"]
<1>1. /\ Goes(t, i)
      /\ UNCHANGED <<setup, rules, graph, bound, cached, source, owner, next, accepted, mixed>>
  BY DEF Starts, Moves
<1>2. i.pc = j.pc /\ i.todo = j.todo /\ i.paths = j.paths /\ i.read = j.read
  BY DEF JobFields
<1> HIDE DEF i
<1>3. Holds(i, do)
  BY <1>2 DEF Holds
<1>4. Doing(t, next[t], do) /\ cached' \in SUBSET Keys
  BY <1>1 DEF Does, Doing, Current, TypeInv, TypeOK
<1>5. QED
  BY <1>1, <1>2, <1>3, <1>4, BetweenTyped

\* A job that holds what it starts with, but for its rules.
LEMMA FreshTyped ==
  ASSUME NEW todo, NEW do \in Jobs \ {"get"}, todo \in Seq(Entries(do)),
         NEW j, j = [Idle EXCEPT !.pc = "item", !.todo = todo]
  PROVE  /\ j.pc = "item" /\ j.paths \in Seq(Steps) /\ j.read \in SUBSET Keys
         /\ Holds(j, do) /\ j = [x \in JobFields |-> j[x]]
<1>1. /\ j.pc = "item" /\ j.paths = <<>> /\ j.read = {} /\ j.todo = todo
      /\ j = [x \in JobFields |-> j[x]]
  BY DEF Idle, JobFields
<1>2. <<>> \in Seq(Steps)
  OBVIOUS
<1>3. QED
  BY <1>1, <1>2 DEF Holds

LEMMA InstallTyped ==
  ASSUME IInv, TypeInv, NEW t \in Threads, Install(t)
  PROVE  TypeInv'
<1> DEFINE items == Current(t).items
           todo == [i \in DOMAIN items |-> Entry(items[i].key, RuleOf(items[i].deps, "given", FALSE,
                                              items[i].key \in setup.failing))]
           j == [Idle EXCEPT !.pc = "item", !.todo = todo]
<1>1. Does(t, "install") /\ Starts(t, j)
  BY DEF Install
<1>2. items \in Seq([key : Keys, deps : Seq(Keys)])
  <2>1. ASSUME NEW i, JobShape(i), i.do = "install"
        PROVE  i.items \in Seq([key : Keys, deps : Seq(Keys)])
    BY <2>1 DEF JobShape
  <2>2. QED
    BY <1>1, <2>1, JobShaped
<1> HIDE DEF items
<1>3. todo \in Seq(Entries("install"))
  <2>1. DOMAIN items = 1..Len(items) /\ Len(items) \in Nat
    BY <1>2
  <2>2. ASSUME NEW i \in 1..Len(items) PROVE todo[i] \in Entries("install")
    <3>1. items[i] \in [key : Keys, deps : Seq(Keys)]
      BY <1>2, ElementOfSeq
    <3>2. items[i].key \in Keys /\ items[i].deps \in Seq(Keys)
      BY <3>1
    <3>3. (items[i].key \in setup.failing) \in BOOLEAN
      OBVIOUS
    <3>4. Entry(items[i].key, RuleOf(items[i].deps, "given", FALSE, items[i].key \in setup.failing))
            \in Entries("install")
      BY <3>2, <3>3, EntryTyped DEF Makers
    <3>5. QED
      BY <2>1, <3>4
  <2>3. todo = [i \in 1..Len(items) |-> todo[i]]
    BY <2>1
  <2> HIDE DEF todo
  <2>4. QED
    BY <2>1, <2>2, <2>3, MapTyped
<1> HIDE DEF todo
<1>4. "install" \in Jobs \ {"get"}
  BY DEF Jobs
<1>5. /\ j.pc = "item" /\ j.paths \in Seq(Steps) /\ j.read \in SUBSET Keys
      /\ Holds(j, "install") /\ j = [x \in JobFields |-> j[x]]
  BY <1>3, <1>4, FreshTyped, ZenonT(30)
<1> HIDE DEF j
<1>6. QED
  BY <1>1, <1>4, <1>5, StartTyped

LEMMA ScanTyped ==
  ASSUME IInv, TypeInv, NEW t \in Threads, Scan(t)
  PROVE  TypeInv'
<1> DEFINE classes == Current(t).classes
           todo == [i \in DOMAIN classes |-> Wired(classes[i])]
           j == [Idle EXCEPT !.pc = "item", !.todo = todo]
<1>1. Does(t, "scan") /\ Starts(t, j)
  BY DEF Scan
<1>2. classes \in Seq(Keys)
  <2>1. ASSUME NEW i, JobShape(i), i.do = "scan" PROVE i.classes \in Seq(Keys)
    BY <2>1 DEF JobShape
  <2>2. QED
    BY <1>1, <2>1, JobShaped
<1> HIDE DEF classes
<1>3. todo \in Seq(Entries("scan"))
  <2>1. DOMAIN classes = 1..Len(classes) /\ Len(classes) \in Nat
    BY <1>2
  <2>2. ASSUME NEW i \in 1..Len(classes) PROVE todo[i] \in Entries("scan")
    <3>1. classes[i] \in Keys
      BY <1>2, ElementOfSeq
    <3>2. QED
      BY <2>1, <3>1, WiredTyped
  <2>3. todo = [i \in 1..Len(classes) |-> todo[i]]
    BY <2>1
  <2> HIDE DEF todo
  <2>4. QED
    BY <2>1, <2>2, <2>3, MapTyped
<1> HIDE DEF todo
<1>4. "scan" \in Jobs \ {"get"}
  BY DEF Jobs
<1>5. /\ j.pc = "item" /\ j.paths \in Seq(Steps) /\ j.read \in SUBSET Keys
      /\ Holds(j, "scan") /\ j = [x \in JobFields |-> j[x]]
  BY <1>3, <1>4, FreshTyped, ZenonT(30)
<1> HIDE DEF j
<1>6. QED
  BY <1>1, <1>4, <1>5, StartTyped

LEMMA AssignTyped ==
  ASSUME IInv, TypeInv, NEW t \in Threads, Assign(t)
  PROVE  TypeInv'
<1> DEFINE a == Current(t)
           todo == ProviderRules(Current(t))
           j == [Idle EXCEPT !.pc = "item", !.todo = todo]
<1>1. Does(t, "assign") /\ Starts(t, j)
  BY DEF Assign
<1>2. a.name \in Keys /\ a.class \in Keys \cup {NoKey} /\ a.refs \in Seq([key : Keys, form : Forms])
  <2>1. ASSUME NEW i, JobShape(i), i.do = "assign"
        PROVE  /\ i.name \in Keys /\ i.class \in Keys \cup {NoKey}
               /\ i.refs \in Seq([key : Keys, form : Forms])
    BY <2>1 DEF JobShape
  <2>2. QED
    BY <1>1, <2>1, JobShaped
<1> HIDE DEF a
<1>3. todo \in Seq(Entries("assign"))
  <2> DEFINE single == a.provider \in Cached \/ (a.provider = "Factory" /\ a.class # NoKey)
             raises == a.name \in setup.failing \/ Len(RefKeys(a.refs)) < a.needs
             main == Entry(a.name, RuleOf(RefKeys(a.refs), "given", single, raises))
             other == Entry(a.class, RuleOf(<<a.name>>, "given", single, FALSE))
  <2>1. todo = IF a.class = NoKey THEN <<main>> ELSE <<main, other>>
    BY DEF ProviderRules, a
  <2>2. single \in BOOLEAN /\ raises \in BOOLEAN
    OBVIOUS
  <2>3. RefKeys(a.refs) \in Seq(Keys) /\ <<a.name>> \in Seq(Keys)
    <3>1. a.refs \in Seq([key : Keys, form : Forms])
      BY <1>2
    <3>2. RefKeys(a.refs) \in Seq(Keys)
      BY <3>1, RefKeysTyped
    <3>3. QED
      BY <1>2, <3>2
  <2> HIDE DEF single, raises
  <2>4. main \in Entries("assign")
    BY <1>2, <2>2, <2>3, EntryTyped DEF Makers
  <2>5. a.class # NoKey => other \in Entries("assign")
    BY <1>2, <2>2, <2>3, EntryTyped DEF Makers
  <2> HIDE DEF main, other, todo
  <2>6. QED
    BY <2>1, <2>4, <2>5
<1> HIDE DEF todo
<1>4. "assign" \in Jobs \ {"get"}
  BY DEF Jobs
<1>5. /\ j.pc = "item" /\ j.paths \in Seq(Steps) /\ j.read \in SUBSET Keys
      /\ Holds(j, "assign") /\ j = [x \in JobFields |-> j[x]]
  BY <1>3, <1>4, FreshTyped, ZenonT(30)
<1> HIDE DEF j
<1>6. QED
  BY <1>1, <1>4, <1>5, StartTyped

LEMMA ConfigName ==
  ASSUME IInv, NEW t \in Threads, Does(t, "config")
  PROVE  Current(t).name \in Keys
<1>1. ASSUME NEW i, JobShape(i), i.do = "config" PROVE i.name \in Keys
  BY <1>1 DEF JobShape
<1>2. QED
  BY <1>1, JobShaped

LEMMA ValidateTyped ==
  ASSUME IInv, TypeInv, NEW t \in Threads, Validate(t)
  PROVE  TypeInv'
<1> DEFINE read == {Current(t).name} \cup ToSet(source)
           j == [Idle EXCEPT !.pc = "read", !.read = read]
<1>1. Does(t, "config") /\ Starts(t, j)
  BY DEF Validate
<1>2. read \in SUBSET Keys
  <2>1. ToSet(source) \in SUBSET Keys
    BY DEF TypeInv, TypeOK, ToSet
  <2>2. QED
    BY <1>1, <2>1, ConfigName
<1> HIDE DEF read
<1>3. /\ j.pc = "read" /\ j.todo = <<>> /\ j.paths = <<>> /\ j.read = read
      /\ j = [x \in JobFields |-> j[x]]
  BY DEF Idle, JobFields
<1> HIDE DEF j
<1>4. <<>> \in Seq(Steps) /\ <<>> \in Seq(Entries("config"))
  OBVIOUS
<1>5. Holds(j, "config")
  BY <1>3, <1>4 DEF Holds
<1>6. "config" \in Jobs
  BY DEF Jobs
<1>7. QED
  BY <1>1, <1>2, <1>3, <1>4, <1>5, <1>6, StartTyped

LEMMA ReadAgainTyped ==
  ASSUME IInv, TypeInv, NEW t \in Threads, ReadAgain(t)
  PROVE  TypeInv'
<1> DEFINE i == job[t]
           names == <<Current(t).name>> \o source
           todo == [n \in DOMAIN names |-> Entry(names[n], RuleOf(<<>>, "config", FALSE, FALSE))]
           j == [i EXCEPT !.pc = "item", !.todo = todo]
<1>1. /\ i.pc = "read" /\ Goes(t, j) /\ i = [x \in JobFields |-> i[x]]
      /\ UNCHANGED <<setup, rules, graph, bound, cached, source, owner, next, accepted, mixed>>
  BY DEF ReadAgain, Moves, At, IInv, Shapes, JobMade
<1>2. PICK do \in Jobs : Doing(t, next[t], do) /\ Holds(i, do)
  BY <1>1 DEF TypeInv, Fits
<1>3. do = "config" /\ i.paths \in Seq(Steps) /\ i.read \in SUBSET Keys
  BY <1>1, <1>2 DEF Holds, TypeInv, Fits
<1>4. names \in Seq(Keys)
  <2>1. Current(t).name \in Keys
    BY <1>2, <1>3, ConfigName DEF Doing, Does, Current
  <2>2. <<Current(t).name>> \in Seq(Keys) /\ source \in Seq(Keys)
    BY <2>1 DEF TypeInv, TypeOK
  <2>3. QED
    BY <2>2, ConcatProperties
<1> HIDE DEF names
<1>5. todo \in Seq(Entries("config"))
  <2>1. DOMAIN names = 1..Len(names) /\ Len(names) \in Nat
    BY <1>4
  <2>2. ASSUME NEW n \in 1..Len(names) PROVE todo[n] \in Entries("config")
    <3>1. names[n] \in Keys /\ <<>> \in Seq(Keys)
      BY <1>4, ElementOfSeq
    <3>2. Entry(names[n], RuleOf(<<>>, "config", FALSE, FALSE)) \in Entries("config")
      BY <3>1, EntryTyped DEF Makers
    <3>3. QED
      BY <2>1, <3>2
  <2>3. todo = [n \in 1..Len(names) |-> todo[n]]
    BY <2>1
  <2> HIDE DEF todo
  <2>4. QED
    BY <2>1, <2>2, <2>3, MapTyped
<1> HIDE DEF todo
<1>6. j.pc = "item" /\ j.todo = todo /\ j.paths = i.paths /\ j.read = i.read
  BY <1>1 DEF JobFields
<1> HIDE DEF j
<1>7. Holds(j, do)
  BY <1>2, <1>3, <1>5, <1>6 DEF Holds
<1>8. cached' \in SUBSET Keys
  BY <1>1 DEF TypeInv, TypeOK
<1>9. QED
  BY <1>1, <1>2, <1>3, <1>6, <1>7, <1>8, BetweenTyped DEF i

LEMMA PassingTyped ==
  ASSUME IInv, TypeInv, NEW t \in Threads, PassOver(t) \/ TakeItem(t)
  PROVE  TypeInv'
<1> DEFINE i == job[t]
           touched == IF LooksFirst(t) THEN {} ELSE i.touched
           j == IF TakeItem(t) THEN [i EXCEPT !.pc = "copy", !.touched = touched]
                ELSE [i EXCEPT !.todo = Tail(i.todo)]
<1>1. /\ i.pc = "item" /\ i.todo # <<>> /\ Goes(t, j) /\ i = [x \in JobFields |-> i[x]]
      /\ UNCHANGED <<setup, rules, graph, bound, cached, source, owner, next, accepted, mixed>>
  BY DEF PassOver, TakeItem, Moves, At, IInv, Shapes, JobMade
<1>2. PICK do \in Jobs : Doing(t, next[t], do) /\ Holds(i, do)
  BY <1>1 DEF TypeInv, Fits
<1>3. i.paths \in Seq(Steps) /\ i.read \in SUBSET Keys /\ Tail(i.todo) \in Seq(Entries(do))
  BY <1>1, <1>2, ItemTyped DEF Holds, TypeInv, Fits
<1> HIDE DEF touched
<1>4. /\ j.paths = i.paths /\ j.read = i.read
      /\ \/ j.pc = "copy" /\ j.todo = i.todo
         \/ j.pc = "item" /\ j.todo = Tail(i.todo)
  BY <1>1 DEF JobFields
<1> HIDE DEF j
<1>5. Holds(j, do)
  BY <1>1, <1>2, <1>3, <1>4 DEF Holds
<1>6. cached' \in SUBSET Keys
  BY <1>1 DEF TypeInv, TypeOK
<1>7. QED
  BY <1>1, <1>2, <1>3, <1>4, <1>5, <1>6, BetweenTyped DEF i

LEMMA EndingsTyped ==
  ASSUME IInv, TypeInv, NEW t \in Threads,
         \/ RefuseDuplicate(t) \/ Unreadable(t) \/ EndJob(t) \/ Duplicate(t) \/ AssignRefused(t)
         \/ MeetItself(t) \/ Ambiguous(t) \/ NotAnnotated(t) \/ NotFound(t) \/ FactoryRaises(t)
         \/ Return(t)
  PROVE  TypeInv'
<1>1. /\ Stops(t) /\ UNCHANGED <<setup, source, rules, graph, cached, accepted, mixed>>
      /\ bound' = bound \/ (/\ Does(t, "assign") \/ Does(t, "config")
                            /\ bound' = bound \cup {Current(t).name})
  BY DEF RefuseDuplicate, Unreadable, EndJob, Duplicate, AssignRefused, MeetItself, Ambiguous,
         NotAnnotated, NotFound, FactoryRaises, Calling, Return, Fails, Ends
<1>2. Does(t, "assign") \/ Does(t, "config") => Current(t).name \in Keys
  <2>1. ASSUME NEW i, JobShape(i), i.do \in {"assign", "config"} PROVE i.name \in Keys
    BY <2>1 DEF JobShape
  <2>2. QED
    BY <2>1, JobShaped
<1>3. /\ bound' \in SUBSET Keys /\ cached' \in SUBSET Keys /\ mixed' \in BOOLEAN
      /\ rules' \in RulesMap /\ graph' \in GraphMap /\ accepted' \in RulesMap
  BY <1>1, <1>2 DEF TypeInv, TypeOK, RulesMap, GraphMap
<1>4. QED
  BY <1>1, <1>3, StopsTyped DEF IInv

LEMMA RegisterTyped ==
  ASSUME IInv, TypeInv, NEW t \in Threads, Register(t)
  PROVE  TypeInv'
BY InstallTyped, AssignTyped, ValidateTyped, ReadAgainTyped, ScanTyped, PassingTyped,
   EndingsTyped DEF Register

LEMMA GetTyped ==
  ASSUME IInv, TypeInv, NEW t \in Threads, Get(t)
  PROVE  TypeInv'
<1> DEFINE before == [rules |-> rules, cached |-> cached]
           step == [path |-> <<Current(t).key>>, back |-> FALSE, single |-> FALSE, raises |-> FALSE]
           j == [Idle EXCEPT !.pc = "find", !.before = before, !.paths = <<step>>]
<1>1. Does(t, "get") /\ Starts(t, j)
  BY DEF Get
<1>2. Current(t).key \in Keys
  <2>1. ASSUME NEW i, JobShape(i), i.do = "get" PROVE i.key \in Keys
    BY <2>1 DEF JobShape
  <2>2. QED
    BY <1>1, <2>1, JobShaped
<1>3. <<step>> \in Seq(Steps)
  <2>1. <<Current(t).key>> \in Seq(Keys) /\ <<Current(t).key>> # <<>>
    BY <1>2
  <2>2. step \in Steps
    BY <2>1 DEF Steps
  <2> HIDE DEF step
  <2>3. QED
    BY <2>2
<1> HIDE DEF before, step
<1>4. /\ j.pc = "find" /\ j.todo = <<>> /\ j.paths = <<step>> /\ j.read = {}
      /\ j = [x \in JobFields |-> j[x]]
  BY DEF Idle, JobFields
<1> HIDE DEF j
<1>5. Holds(j, "get")
  <2>1. <<>> \in Seq(Entries("get"))
    OBVIOUS
  <2>2. QED
    BY <1>4, <2>1 DEF Holds
<1>6. "get" \in Jobs
  BY DEF Jobs
<1>7. QED
  BY <1>1, <1>3, <1>4, <1>5, <1>6, StartTyped

\* The path a get is at.
LEMMA PathTyped ==
  ASSUME TypeInv, NEW t \in Threads, job[t].pc = "find"
  PROVE  /\ Doing(t, next[t], "get") /\ Holds(job[t], "get") /\ "get" \in Jobs
         /\ job[t].read \in SUBSET Keys /\ job[t].paths \in Seq(Steps)
         /\ job[t].paths # <<>> => /\ Path(t) \in Seq(Keys) /\ Path(t) # <<>> /\ Wanted(t) \in Keys
                                   /\ Head(job[t].paths) \in Steps
                                   /\ Tail(job[t].paths) \in Seq(Steps)
<1>1. Fits(t, job[t], next[t])
  BY DEF TypeInv
<1>2. PICK do \in Jobs : Doing(t, next[t], do) /\ Holds(job[t], do)
  BY <1>1 DEF Fits
<1>3. do = "get"
  BY <1>2 DEF Holds
<1>4. ASSUME job[t].paths # <<>>
      PROVE  /\ Path(t) \in Seq(Keys) /\ Path(t) # <<>> /\ Wanted(t) \in Keys
             /\ Head(job[t].paths) \in Steps
             /\ Tail(job[t].paths) \in Seq(Steps)
  <2>1. Head(job[t].paths) \in Steps /\ Tail(job[t].paths) \in Seq(Steps)
    BY <1>1, <1>4, HeadTailProperties DEF Fits
  <2>2. Path(t) \in Seq(Keys) /\ Path(t) # <<>>
    BY <2>1 DEF Path, Steps
  <2>3. Last(Path(t)) \in Keys
    <3> DEFINE p == Path(t)
    <3>1. p \in Seq(Keys) /\ p # <<>>
      BY <2>2
    <3> HIDE DEF p
    <3>2. p[Len(p)] \in Keys
      BY <3>1
    <3>3. QED
      BY <3>2 DEF Last, p
  <2>4. QED
    BY <2>1, <2>2, <2>3 DEF Wanted
<1>5. QED
  BY <1>1, <1>2, <1>3, <1>4 DEF Fits

LEMMA DescendsTyped ==
  ASSUME IInv, TypeInv, NEW t \in Threads, job[t].pc = "find", job[t].paths # <<>>,
         NEW deps \in Seq(Keys), NEW single \in BOOLEAN, NEW raises \in BOOLEAN, Descends(t, deps, single, raises)
  PROVE  TypeInv'
<1> DEFINE i == job[t]
           down == [n \in DOMAIN deps |-> [path |-> Append(Path(t), deps[n]), back |-> FALSE,
                                           single |-> FALSE, raises |-> FALSE]]
           up == [path |-> Path(t), back |-> TRUE, single |-> single, raises |-> raises]
           paths == down \o <<up>> \o Tail(i.paths)
           j == [i EXCEPT !.tried = FALSE, !.paths = paths]
<1>1. i = [x \in JobFields |-> i[x]]
  BY DEF IInv, Shapes, JobMade
<1>2. Goes(t, j) /\ UNCHANGED <<setup, rules, graph, bound, cached, source, next, accepted, mixed>>
      /\ owner' = t
  <2> DEFINE h == [job[t] EXCEPT !.tried = FALSE, !.paths =
          [n \in DOMAIN deps |-> [path |-> Append(Path(t), deps[n]), back |-> FALSE, single |-> FALSE, raises |-> FALSE]]
            \o <<[path |-> Path(t), back |-> TRUE, single |-> single, raises |-> raises]>> \o Tail(@)]
  <2>1. Goes(t, h) /\ UNCHANGED <<setup, rules, graph, bound, cached, source, next, accepted, mixed>>
        /\ owner' = t
    BY DEF Descends
  <2>2. h = j
    BY <1>1 DEF JobFields
  <2>3. QED
    BY <2>1, <2>2
<1>3. paths \in Seq(Steps)
  <2>1. Path(t) \in Seq(Keys) /\ Path(t) # <<>> /\ Tail(i.paths) \in Seq(Steps)
    BY PathTyped
  <2>2. up \in Steps
    BY <2>1 DEF Steps
  <2>3. down \in Seq(Steps)
    <3>1. DOMAIN deps = 1..Len(deps) /\ Len(deps) \in Nat
      OBVIOUS
    <3>2. ASSUME NEW n \in 1..Len(deps) PROVE down[n] \in Steps
      <4>1. deps[n] \in Keys
        BY ElementOfSeq
      <4>2. Append(Path(t), deps[n]) \in Seq(Keys) /\ Append(Path(t), deps[n]) # <<>>
        BY <2>1, <4>1, AppendProperties
      <4>3. [path |-> Append(Path(t), deps[n]), back |-> FALSE, single |-> FALSE, raises |-> FALSE] \in Steps
        BY <4>2 DEF Steps
      <4>4. QED
        BY <3>1, <4>3
    <3>3. down = [n \in 1..Len(deps) |-> down[n]]
      BY <3>1
    <3> HIDE DEF down
    <3>4. QED
      BY <3>1, <3>2, <3>3, MapTyped
  <2> HIDE DEF down, up
  <2>4. <<up>> \in Seq(Steps)
    BY <2>2
  <2>5. down \o <<up>> \in Seq(Steps)
    BY <2>3, <2>4, ConcatProperties
  <2>6. QED
    BY <2>1, <2>5, ConcatProperties
<1> HIDE DEF paths
<1>4. j.pc = "find" /\ j.todo = i.todo /\ j.paths = paths /\ j.read = i.read
  BY <1>1 DEF JobFields
<1> HIDE DEF j
<1>5. Doing(t, next[t], "get") /\ Holds(i, "get") /\ i.read \in SUBSET Keys /\ "get" \in Jobs
  BY PathTyped
<1>6. Holds(j, "get")
  BY <1>4, <1>5 DEF Holds
<1>7. cached' \in SUBSET Keys
  BY <1>2 DEF TypeInv, TypeOK
<1>8. QED
  BY <1>2, <1>3, <1>4, <1>5, <1>6, <1>7, BetweenTyped

LEMMA MakeUpTyped ==
  ASSUME IInv, TypeInv, NEW t \in Threads, MakeUp(t)
  PROVE  TypeInv'
<1> DEFINE i == job[t]
           entry == Wired(Wanted(t))
           j == [i EXCEPT !.pc = "copy", !.todo = <<entry>>, !.touched = {}]
<1>1. /\ i.pc = "find" /\ i.paths # <<>> /\ Goes(t, j) /\ owner' = t
      /\ UNCHANGED <<setup, rules, graph, bound, cached, source, next, accepted, mixed>>
      /\ i = [x \in JobFields |-> i[x]]
  BY DEF MakeUp, Missing, Looking, At, IInv, Shapes, JobMade
<1>2. /\ Doing(t, next[t], "get") /\ Holds(i, "get") /\ i.read \in SUBSET Keys /\ "get" \in Jobs
      /\ i.paths \in Seq(Steps) /\ Wanted(t) \in Keys
  BY <1>1, PathTyped
<1>3. <<entry>> \in Seq(Entries("get"))
  <2>1. entry \in Entries("get")
    BY <1>2, WiredTyped
  <2> HIDE DEF entry
  <2>2. QED
    BY <2>1
<1> HIDE DEF entry
<1>4. /\ j.pc = "copy" /\ j.todo = <<entry>> /\ j.paths = i.paths /\ j.read = i.read
      /\ j.todo # <<>>
  BY <1>1 DEF JobFields
<1> HIDE DEF j
<1>5. Holds(j, "get")
  BY <1>2, <1>3, <1>4 DEF Holds
<1>6. cached' \in SUBSET Keys
  BY <1>1 DEF TypeInv, TypeOK
<1>7. QED
  BY <1>1, <1>2, <1>4, <1>5, <1>6, BetweenTyped DEF i

LEMMA BackTyped ==
  ASSUME IInv, TypeInv, NEW t \in Threads, Hit(t) \/ Build(t)
  PROVE  TypeInv'
<1> DEFINE i == job[t]
           rest == Tail(i.paths)
           j == IF Hit(t) THEN [i EXCEPT !.paths = rest, !.tried = FALSE]
                ELSE [i EXCEPT !.paths = rest]
<1>1. /\ i.pc = "find" /\ i.paths # <<>> /\ Goes(t, j)
      /\ UNCHANGED <<setup, rules, graph, bound, source, owner, next, accepted, mixed>>
      /\ i = [x \in JobFields |-> i[x]]
      /\ cached' = cached \/ cached' = cached \cup {Wanted(t)}
  BY DEF Hit, Build, StoreResult, Calling, Moves, Looking, At, IInv, Shapes, JobMade
<1>2. /\ Doing(t, next[t], "get") /\ Holds(i, "get") /\ i.read \in SUBSET Keys /\ "get" \in Jobs
      /\ rest \in Seq(Steps) /\ Wanted(t) \in Keys
  BY <1>1, PathTyped
<1> HIDE DEF rest
<1>3. j.pc = "find" /\ j.todo = i.todo /\ j.paths = rest /\ j.read = i.read
  BY <1>1 DEF JobFields
<1> HIDE DEF j
<1>4. Holds(j, "get")
  BY <1>2, <1>3 DEF Holds
<1>5. cached' \in SUBSET Keys
  BY <1>1, <1>2 DEF TypeInv, TypeOK
<1>6. QED
  BY <1>1, <1>2, <1>3, <1>4, <1>5, BetweenTyped

LEMMA ResolveTyped ==
  ASSUME IInv, TypeInv, NEW t \in Threads, Resolve(t)
  PROVE  TypeInv'
<1>1. CASE Find(t)
  <2>1. job[t].pc = "find" /\ job[t].paths # <<>> /\ rules[Wanted(t)] # NoRule
        /\ Descends(t, rules[Wanted(t)].deps, rules[Wanted(t)].single, rules[Wanted(t)].raises)
    BY <1>1 DEF Find, Looking, At, Known
  <2>2. Wanted(t) \in Keys
    BY <2>1, PathTyped
  <2>3. rules[Wanted(t)] \in Rule
    BY <2>1, <2>2 DEF TypeInv, TypeOK
  <2>4. rules[Wanted(t)].deps \in Seq(Keys) /\ rules[Wanted(t)].single \in BOOLEAN
        /\ rules[Wanted(t)].raises \in BOOLEAN
    BY <2>3 DEF Rule
  <2>5. QED
    BY <2>1, <2>4, DescendsTyped
<1>2. CASE Collect(t)
  <2>1. job[t].pc = "find" /\ job[t].paths # <<>>
        /\ Descends(t, SetToSeq(Members(Wanted(t))), FALSE, FALSE)
    BY <1>2 DEF Collect, Missing, Looking, At
  <2>2. Wanted(t) \in Keys
    BY <2>1, PathTyped
  <2>3. Members(Wanted(t)) \in SUBSET Keys
    BY <2>2, SetupIs DEF Members, IInv, Shapes, SetupShape
  <2>4. SetToSeq(Members(Wanted(t))) \in Seq(Keys)
    BY <2>3, SetToSeqTyped
  <2>5. QED
    BY <2>1, <2>4, DescendsTyped
<1>3. QED
  BY <1>1, <1>2, GetTyped, MakeUpTyped, BackTyped, EndingsTyped DEF Resolve

LEMMA ReadingTyped ==
  ASSUME IInv, TypeInv, ChangeSource
  PROVE  TypeInv'
<1>1. /\ UNCHANGED <<setup, rules, graph, bound, cached, owner, next, job, accepted, mixed>>
      /\ source' \in Seq(Keys)
  BY SetupIs DEF ChangeSource, IInv, Shapes, SetupShape
<1>2. SetupShape(setup)'
  BY <1>1 DEF TypeInv, TypeOK
<1>3. TypeOK'
  BY <1>1, <1>2 DEF TypeInv, TypeOK, Does, Current
<1>4. \A t \in Threads : Fits(t, job[t], next[t])'
  BY <1>1 DEF TypeInv, Fits, Doing
<1>5. QED
  BY <1>3, <1>4 DEF TypeInv

LEMMA InitiallyTyped == Init => TypeInv
<1> SUFFICES ASSUME Init PROVE TypeInv
  OBVIOUS
<1>1. SetupShape(setup)
  BY SetupIs DEF Init
<1>2. setup.given \in [Keys -> Seq(Keys) \cup {NoEntry}] /\ source \in Seq(Keys)
  BY <1>1 DEF Init, SetupShape
<1>3. \A t \in Threads : job[t] = Idle /\ next[t] = 1
  BY DEF Init
<1>4. rules \in RulesMap
  <2>1. ASSUME NEW k \in Keys, setup.given[k] # NoEntry
        PROVE  RuleOf(setup.given[k], "given", FALSE, k \in setup.failing) \in Rule
    <3>1. setup.given[k] \in Seq(Keys) /\ "given" \in Makers
      BY <1>2, <2>1 DEF Makers
    <3> DEFINE raises == k \in setup.failing
    <3>2. raises \in BOOLEAN
      OBVIOUS
    <3> HIDE DEF raises
    <3>3. RuleOf(setup.given[k], "given", FALSE, raises) \in Rule
      BY <3>1, <3>2 DEF Rule, RuleOf
    <3>4. QED
      BY <3>3 DEF raises
  <2>2. \A k \in Keys : (IF setup.given[k] = NoEntry THEN NoRule
                         ELSE RuleOf(setup.given[k], "given", FALSE, k \in setup.failing))
                        \in Rule \cup {NoRule}
    BY <2>1
  <2>3. QED
    BY <2>2 DEF Init, RulesMap
<1>5. Idle.pc = "idle" /\ Idle.paths = <<>> /\ Idle.read = {}
  BY DEF Idle
<1>6. \A t \in Threads : Fits(t, job[t], next[t])
  <2>1. <<>> \in Seq(Steps) /\ 1 \in Nat
    OBVIOUS
  <2>2. ASSUME NEW t \in Threads PROVE Fits(t, Idle, 1)
    BY <1>5, <2>1 DEF Fits, Pcs, Adding
  <2>3. QED
    BY <1>3, <2>2
<1>7. TypeOK
  BY <1>1, <1>2, <1>3, <1>4, <1>5 DEF Init, TypeOK, RulesMap, Pcs, Adding
<1>8. QED
  BY <1>6, <1>7 DEF TypeInv

LEMMA StandingTyped ==
  ASSUME TypeInv, UNCHANGED vars
  PROVE  TypeInv'
<1>1. UNCHANGED <<setup, rules, graph, bound, cached, source, owner, next, job, accepted, mixed>>
  BY DEF vars
<1>2. SetupShape(setup)'
  BY <1>1 DEF TypeInv, TypeOK
<1>3. TypeOK'
  BY <1>1, <1>2 DEF TypeInv, TypeOK, Does, Current
<1>4. \A t \in Threads : Fits(t, job[t], next[t])'
  BY <1>1 DEF TypeInv, Fits, Doing
<1>5. QED
  BY <1>3, <1>4 DEF TypeInv

LEMMA TypedAlways == Spec => []TypeInv
<1>1. IInv /\ TypeInv /\ [Next]_vars => TypeInv'
  <2> SUFFICES ASSUME IInv, TypeInv, [Next]_vars PROVE TypeInv'
    OBVIOUS
  <2>1. ASSUME NEW t \in Threads, Add(t) PROVE TypeInv'
    BY <2>1, AddTyped DEF IInv
  <2>2. QED
    BY <2>1, RegisterTyped, ResolveTyped, ReadingTyped, StandingTyped DEF Next
<1>2. QED
  BY RegistrationInvariance, InitiallyTyped, <1>1, PTL DEF Spec

\* The map and the graph hold rules and their references, for registered keys
\* only; a thread inside an add has a rule to add and a copy of the whole map to
\* restore; the lock is held by a get that runs; an idle thread holds nothing.
THEOREM RegistrationTypes == Spec => []TypeOK
<1>1. TypeInv => TypeOK
  BY DEF TypeInv
<1>2. QED
  BY TypedAlways, <1>1, PTL

-----------------------------------------------------------------------------
(* What a thread found free, for KeptRules *)

\* A key that was free when the thread looked is free, or has been changed by
\* another since.
StillFree(t, k) == ~Known(k) \/ k \in job[t].touched
Looked(t) ==
  /\ job[t].pc \in {"copy", "copy graph", "map"} /\ RuleIn(t).by = "wired" => StillFree(t, KeyOf(t))
  /\ job[t].pc # "undo graph" => \A k \in job[t].read : StillFree(t, k)
LookInv == \A t \in Threads : Looked(t)

\* Others may take a key that the thread found free, but then it is touched.
LEMMA LookKept ==
  ASSUME IInv, TypeInv, LookInv, NEW t \in Threads, NEW j, Goes(t, j), Looked(t)'
  PROVE  LookInv'
<1> SUFFICES ASSUME NEW u \in Threads \ {t} PROVE Looked(u)'
  BY DEF LookInv
<1>1. /\ job'[u].pc = job[u].pc /\ job'[u].todo = job[u].todo /\ job'[u].read = job[u].read
      /\ job[u].pc = "idle" => job'[u] = job[u]
      /\ job[u].pc # "idle" =>
           job'[u].touched = job[u].touched \cup {k \in Keys : rules'[k] # rules[k]}
  BY OthersHold DEF IInv
<1>2. Looked(u) /\ Fits(u, job[u], next[u])
  BY DEF LookInv, TypeInv
<1>3. CASE job[u].pc = "idle"
  <2>1. Idle.read = {}
    BY DEF Idle
  <2>2. QED
    BY <1>1, <1>2, <1>3, <2>1 DEF Looked, Fits
<1>4. CASE job[u].pc # "idle"
  <2>1. \A k \in Keys : StillFree(u, k) => StillFree(u, k)'
    BY <1>1, <1>4 DEF StillFree, Known
  <2>2. KeyOf(u)' = KeyOf(u) /\ RuleIn(u)' = RuleIn(u)
    BY <1>1 DEF KeyOf, RuleIn, Item
  <2>3. job[u].pc \in {"copy", "copy graph", "map"} => KeyOf(u) \in Keys
    BY <1>2, ItemTyped DEF Fits, Adding
  <2>4. job[u].read \subseteq Keys
    BY <1>2 DEF Fits
  <2>5. job[u].pc \in {"copy", "copy graph", "map"} /\ RuleIn(u)'.by = "wired" =>
          StillFree(u, KeyOf(u))'
    <3>1. ASSUME job[u].pc \in {"copy", "copy graph", "map"}, RuleIn(u)'.by = "wired"
          PROVE  StillFree(u, KeyOf(u))
      BY <1>2, <2>2, <3>1 DEF Looked
    <3>2. QED
      BY <2>1, <2>2, <2>3, <3>1 DEF StillFree, Known
  <2>6. QED
    BY <1>1, <1>2, <2>1, <2>4, <2>5 DEF Looked
<1>5. QED
  BY <1>3, <1>4

LEMMA SameLook ==
  ASSUME IInv, TypeInv, LookInv, NEW t \in Threads, NEW j, Goes(t, j), rules' = rules,
         job[t].pc # "undo graph", j.read = job[t].read, j.touched = job[t].touched,
         j.pc \in {"copy", "copy graph", "map"} =>
           job[t].pc \in {"copy", "copy graph", "map"} /\ j.todo = job[t].todo
  PROVE  LookInv'
<1>1. job'[t] = j /\ Looked(t)
  BY GoesToOthers DEF IInv, LookInv
<1>2. \A k : StillFree(t, k)' <=> StillFree(t, k)
  BY <1>1 DEF StillFree, Known
<1>3. j.pc \in {"copy", "copy graph", "map"} => KeyOf(t)' = KeyOf(t) /\ RuleIn(t)' = RuleIn(t)
  BY <1>1 DEF KeyOf, RuleIn, Item
<1>4. Looked(t)'
  BY <1>1, <1>2, <1>3 DEF Looked, StillFree, Known
<1>5. QED
  BY <1>4, LookKept

LEMMA NoLook ==
  ASSUME IInv, TypeInv, LookInv, NEW t \in Threads, NEW j, Goes(t, j),
         j.pc \notin {"copy", "copy graph", "map"}, j.read = {} \/ j.pc = "undo graph"
  PROVE  LookInv'
<1>1. job'[t] = j
  BY GoesToOthers DEF IInv
<1>2. Looked(t)'
  BY <1>1 DEF Looked
<1>3. QED
  BY <1>2, LookKept

LEMMA AddLooks ==
  ASSUME IInv, TypeInv, LookInv, NEW t \in Threads, Add(t)
  PROVE  LookInv'
<1> DEFINE i == job[t]
<1>1. i = [x \in JobFields |-> i[x]]
  BY DEF IInv, Shapes, JobMade
<1>2. CASE CopyMap(t)
  <2> DEFINE j == [i EXCEPT !.pc = "copy graph", !.oldRules = rules, !.crossed = FALSE]
  <2>1. Goes(t, j) /\ rules' = rules /\ i.pc = "copy"
    BY <1>2 DEF CopyMap, Moves, At
  <2>2. j.pc = "copy graph" /\ j.read = i.read /\ j.touched = i.touched /\ j.todo = i.todo
    BY <1>1 DEF JobFields
  <2> HIDE DEF j
  <2>3. QED
    BY <2>1, <2>2, SameLook
<1>3. CASE CopyGraph(t)
  <2> DEFINE j == [i EXCEPT !.pc = "map", !.oldGraph = graph]
  <2>1. Goes(t, j) /\ rules' = rules /\ i.pc = "copy graph"
    BY <1>3 DEF CopyGraph, Moves, At
  <2>2. j.pc = "map" /\ j.read = i.read /\ j.touched = i.touched /\ j.todo = i.todo
    BY <1>1 DEF JobFields
  <2> HIDE DEF j
  <2>3. QED
    BY <2>1, <2>2, SameLook
<1>4. CASE WriteMap(t)
  <2> DEFINE read == i.read \ {KeyOf(t)}
             j == [i EXCEPT !.pc = "graph", !.read = read]
  <2>1. Goes(t, j) /\ rules' = [rules EXCEPT ![KeyOf(t)] = RuleIn(t)] /\ i.pc = "map"
    <3> DEFINE h == [i EXCEPT !.pc = "graph", !.read = @ \ {Item(t).key}]
    <3>1. Goes(t, h) /\ rules' = [rules EXCEPT ![KeyOf(t)] = RuleIn(t)] /\ i.pc = "map"
      BY <1>4 DEF WriteMap, At, KeyOf, RuleIn
    <3>2. h = j
      BY <1>1 DEF JobFields, KeyOf
    <3>3. QED
      BY <3>1, <3>2
  <2>2. read \subseteq i.read /\ KeyOf(t) \notin read
    OBVIOUS
  <2> HIDE DEF read
  <2>3. j.pc = "graph" /\ j.read = read /\ j.touched = i.touched
    BY <1>1 DEF JobFields
  <2> HIDE DEF j
  <2>4. job'[t] = j /\ Looked(t)
    BY <2>1, GoesToOthers DEF IInv, LookInv
  <2>5. ASSUME NEW k \in read PROVE StillFree(t, k)'
    <3>1. k \in i.read /\ k # KeyOf(t) /\ k \in Keys
      BY <2>2, <2>5 DEF TypeInv, Fits
    <3>2. rules'[k] = rules[k]
      BY <2>1, <3>1 DEF IInv, Shapes, OnKeys
    <3>3. StillFree(t, k)
      BY <2>1, <2>4, <3>1 DEF Looked
    <3>4. QED
      BY <2>3, <2>4, <3>2, <3>3 DEF StillFree, Known
  <2>6. Looked(t)'
    BY <2>3, <2>4, <2>5 DEF Looked
  <2>7. QED
    BY <2>1, <2>6, LookKept
<1>5. CASE WriteGraph(t) \/ Refuse(t)
  <2> DEFINE j == IF WriteGraph(t) THEN [i EXCEPT !.pc = "check"] ELSE [i EXCEPT !.pc = "undo"]
  <2>1. Goes(t, j) /\ rules' = rules /\ i.pc \in {"graph", "check"}
    BY <1>5 DEF WriteGraph, Refuse, Moves, At
  <2>2. j.pc \in {"check", "undo"} /\ j.read = i.read /\ j.touched = i.touched
    BY <1>1 DEF JobFields
  <2> HIDE DEF j
  <2>3. QED
    BY <2>1, <2>2, SameLook
<1>6. CASE Accept(t)
  <2> DEFINE j == [i EXCEPT !.pc = After(t), !.todo = Tail(@), !.oldRules = <<>>,
                            !.oldGraph = <<>>, !.tried = After(t) = "find"]
  <2>1. Goes(t, j) /\ rules' = rules /\ i.pc = "check"
    BY <1>6 DEF Accept, At
  <2>2. j.pc = After(t) /\ j.read = i.read /\ j.touched = i.touched
    BY <1>1 DEF JobFields
  <2>3. After(t) \in {"find", "item"}
    BY DEF After
  <2> HIDE DEF j
  <2>4. QED
    BY <2>1, <2>2, <2>3, SameLook
<1>7. CASE UndoMap(t)
  <2> DEFINE j == [i EXCEPT !.pc = "undo graph"]
  <2>1. Goes(t, j) /\ j.pc = "undo graph"
    BY <1>1, <1>7 DEF UndoMap, JobFields
  <2> HIDE DEF j
  <2>2. QED
    BY <2>1, NoLook
<1>8. CASE UndoGraph(t)
  <2>1. Goes(t, Idle) /\ Idle.pc = "idle" /\ Idle.read = {}
    BY <1>8 DEF UndoGraph, Ends, Stops, Idle
  <2>2. QED
    BY <2>1, NoLook
<1>9. QED
  BY <1>2, <1>3, <1>4, <1>5, <1>6, <1>7, <1>8 DEF Add

\* A job starts with nothing found free, except a configuration, for which all
\* the paths of its first reading were.
LEMMA StartLooks ==
  ASSUME IInv, TypeInv, LookInv, NEW t \in Threads, NEW j, Starts(t, j), job[t].pc = "idle",
         j = [x \in JobFields |-> j[x]], j.pc \in {"read", "item", "find"},
         \A k \in j.read : ~Known(k)
  PROVE  LookInv'
<1> DEFINE i == [j EXCEPT !.alone = \A u \in Threads \ {t} : job[u].pc = "idle"]
<1>1. Goes(t, i) /\ rules' = rules
  BY DEF Starts, Moves
<1>2. i.pc = j.pc /\ i.read = j.read
  BY DEF JobFields
<1> HIDE DEF i
<1>3. job'[t] = i
  BY <1>1, GoesToOthers DEF IInv
<1>4. Looked(t)'
  BY <1>1, <1>2, <1>3 DEF Looked, StillFree, Known
<1>5. QED
  BY <1>1, <1>4, LookKept

LEMMA StartsLook ==
  ASSUME IInv, TypeInv, LookInv, NEW t \in Threads,
         Install(t) \/ Assign(t) \/ Scan(t) \/ Validate(t) \/ Get(t)
  PROVE  LookInv'
<1>1. Idle = [x \in JobFields |-> Idle[x]] /\ Idle.read = {}
  BY DEF Idle, JobFields
<1>2. CASE Install(t) \/ Assign(t) \/ Scan(t)
  <2>1. job[t].pc = "idle" /\ \E todo : Starts(t, [Idle EXCEPT !.pc = "item", !.todo = todo])
    BY <1>2 DEF Install, Assign, Scan, At
  <2>2. PICK todo : Starts(t, [Idle EXCEPT !.pc = "item", !.todo = todo])
    BY <2>1
  <2> DEFINE j == [Idle EXCEPT !.pc = "item", !.todo = todo]
  <2>3. j = [x \in JobFields |-> j[x]] /\ j.pc = "item" /\ j.read = {}
    BY <1>1 DEF JobFields
  <2>4. Starts(t, j)
    BY <2>2
  <2> HIDE DEF j
  <2>5. QED
    BY <2>1, <2>3, <2>4, StartLooks
<1>3. CASE Validate(t)
  <2> DEFINE read == {Current(t).name} \cup ToSet(source)
             j == [Idle EXCEPT !.pc = "read", !.read = read]
  <2>1. job[t].pc = "idle" /\ Starts(t, j)
    BY <1>3 DEF Validate, At
  <2>2. \A k \in read : ~Known(k)
    BY <1>3 DEF Validate, Taken
  <2> HIDE DEF read
  <2>3. j = [x \in JobFields |-> j[x]] /\ j.pc = "read" /\ j.read = read
    BY <1>1 DEF JobFields
  <2> HIDE DEF j
  <2>4. QED
    BY <2>1, <2>2, <2>3, StartLooks
<1>4. CASE Get(t)
  <2> DEFINE before == [rules |-> rules, cached |-> cached]
             paths == <<[path |-> <<Current(t).key>>, back |-> FALSE, single |-> FALSE, raises |-> FALSE]>>
             j == [Idle EXCEPT !.pc = "find", !.before = before, !.paths = paths]
  <2>1. job[t].pc = "idle" /\ Starts(t, j)
    BY <1>4 DEF Get, At
  <2> HIDE DEF before, paths
  <2>2. j = [x \in JobFields |-> j[x]] /\ j.pc = "find" /\ j.read = {}
    BY <1>1 DEF JobFields
  <2> HIDE DEF j
  <2>3. QED
    BY <2>1, <2>2, StartLooks
<1>5. QED
  BY <1>2, <1>3, <1>4

LEMMA EndingsLook ==
  ASSUME IInv, TypeInv, LookInv, NEW t \in Threads,
         \/ RefuseDuplicate(t) \/ Unreadable(t) \/ EndJob(t) \/ Duplicate(t) \/ AssignRefused(t)
         \/ MeetItself(t) \/ Ambiguous(t) \/ NotAnnotated(t) \/ NotFound(t) \/ FactoryRaises(t)
         \/ Return(t)
  PROVE  LookInv'
<1>1. Goes(t, Idle)
  BY DEF RefuseDuplicate, Unreadable, EndJob, Duplicate, AssignRefused, MeetItself, Ambiguous,
         NotAnnotated, NotFound, FactoryRaises, Calling, Return, Fails, Ends, Stops
<1>2. Idle.pc = "idle" /\ Idle.read = {}
  BY DEF Idle
<1>3. QED
  BY <1>1, <1>2, NoLook

\* A scan takes a class that it finds free; only configurations have paths that
\* they found free.
LEMMA TakingLooks ==
  ASSUME IInv, TypeInv, LookInv, NEW t \in Threads, TakeItem(t)
  PROVE  LookInv'
<1> DEFINE i == job[t]
           touched == IF LooksFirst(t) THEN {} ELSE i.touched
           j == [i EXCEPT !.pc = "copy", !.touched = touched]
<1>1. i = [x \in JobFields |-> i[x]] /\ i.pc = "item" /\ i.todo # <<>>
  BY DEF IInv, Shapes, JobMade, TakeItem, At
<1>2. Goes(t, j) /\ rules' = rules
  <2> DEFINE h == [i EXCEPT !.pc = "copy", !.touched = IF LooksFirst(t) THEN {} ELSE @]
  <2>1. Goes(t, h) /\ rules' = rules
    BY DEF TakeItem, Moves
  <2>2. h = j
    BY <1>1 DEF JobFields
  <2>3. QED
    BY <2>1, <2>2
<1>3. PICK do \in Jobs : Doing(t, next[t], do) /\ Holds(i, do)
  BY <1>1 DEF TypeInv, Fits
<1>4. LooksFirst(t) => do # "config" /\ ~Known(KeyOf(t))
  BY <1>3 DEF LooksFirst, Does, Doing, Current, TakeItem, KeyOf
<1>5. RuleIn(t).by = "wired" => LooksFirst(t)
  <2>1. RuleIn(t).by = "wired" => do \in {"scan", "get"}
    BY <1>1, <1>3, ItemTyped DEF Holds
  <2>2. QED
    BY <1>1, <1>3, <2>1 DEF Holds, LooksFirst, Does, Doing, Current
<1>6. LooksFirst(t) => i.read = {}
  BY <1>3, <1>4 DEF Holds
<1>7. ~LooksFirst(t) => touched = i.touched
  OBVIOUS
<1> HIDE DEF touched
<1>8. j.pc = "copy" /\ j.todo = i.todo /\ j.read = i.read /\ j.touched = touched
  BY <1>1 DEF JobFields
<1> HIDE DEF j
<1>9. job'[t] = j /\ Looked(t)
  BY <1>2, GoesToOthers DEF IInv, LookInv
<1>10. KeyOf(t)' = KeyOf(t) /\ RuleIn(t)' = RuleIn(t)
  BY <1>8, <1>9 DEF KeyOf, RuleIn, Item
<1>11. RuleIn(t)'.by = "wired" => StillFree(t, KeyOf(t))'
  BY <1>2, <1>4, <1>5, <1>10 DEF StillFree, Known
<1>12. \A k \in i.read : StillFree(t, k)'
  <2>1. ASSUME NEW k \in i.read PROVE StillFree(t, k)'
    <3>1. StillFree(t, k) /\ touched = i.touched
      BY <1>1, <1>6, <1>7, <1>9, <2>1 DEF Looked
    <3>2. QED
      BY <1>2, <1>8, <1>9, <3>1 DEF StillFree, Known
  <2>2. QED
    BY <2>1
<1>13. Looked(t)'
  BY <1>8, <1>9, <1>11, <1>12 DEF Looked
<1>14. QED
  BY <1>2, <1>13, LookKept

\* A get makes a rule up for a key that it finds free.
LEMMA MakingLooks ==
  ASSUME IInv, TypeInv, LookInv, NEW t \in Threads, MakeUp(t)
  PROVE  LookInv'
<1> DEFINE i == job[t]
           entry == Wired(Wanted(t))
           j == [i EXCEPT !.pc = "copy", !.todo = <<entry>>, !.touched = {}]
<1>1. /\ i.pc = "find" /\ Goes(t, j) /\ rules' = rules /\ i = [x \in JobFields |-> i[x]]
      /\ ~Known(Wanted(t))
  BY DEF MakeUp, Missing, Looking, At, IInv, Shapes, JobMade
<1>2. i.read = {}
  BY <1>1, PathTyped DEF Holds
<1>3. entry.key = Wanted(t)
  BY DEF Wired, Entry
<1> HIDE DEF entry
<1>4. j.pc = "copy" /\ Head(j.todo) = entry /\ j.read = i.read
  <2>1. j.pc = "copy" /\ j.todo = <<entry>> /\ j.read = i.read
    BY <1>1 DEF JobFields
  <2> HIDE DEF j
  <2>2. QED
    BY <2>1
<1> HIDE DEF j
<1>5. job'[t] = j
  BY <1>1, GoesToOthers DEF IInv
<1>6. KeyOf(t)' = Wanted(t)
  BY <1>3, <1>4, <1>5 DEF KeyOf, Item
<1>7. Looked(t)'
  BY <1>1, <1>2, <1>4, <1>5, <1>6 DEF Looked, StillFree, Known
<1>8. QED
  BY <1>1, <1>7, LookKept

\* The other steps leave what was found free.
LEMMA OthersLook ==
  ASSUME IInv, TypeInv, LookInv, NEW t \in Threads,
         ReadAgain(t) \/ PassOver(t) \/ Hit(t) \/ Build(t) \/ Find(t) \/ Collect(t)
  PROVE  LookInv'
<1> DEFINE i == job[t]
<1>1. i = [x \in JobFields |-> i[x]]
  BY DEF IInv, Shapes, JobMade
<1>2. CASE ReadAgain(t)
  <2> DEFINE names == <<Current(t).name>> \o source
             todo == [n \in DOMAIN names |-> Entry(names[n], RuleOf(<<>>, "config", FALSE, FALSE))]
             j == [i EXCEPT !.pc = "item", !.todo = todo]
  <2>1. Goes(t, j) /\ rules' = rules /\ i.pc = "read"
    BY <1>2 DEF ReadAgain, Moves, At
  <2> HIDE DEF todo
  <2>2. j.pc = "item" /\ j.read = i.read /\ j.touched = i.touched
    BY <1>1 DEF JobFields
  <2> HIDE DEF j
  <2>3. QED
    BY <2>1, <2>2, SameLook
<1>3. CASE PassOver(t)
  <2> DEFINE j == [i EXCEPT !.todo = Tail(@)]
  <2>1. Goes(t, j) /\ rules' = rules /\ i.pc = "item"
    BY <1>3 DEF PassOver, Moves, At
  <2>2. j.pc = i.pc /\ j.read = i.read /\ j.touched = i.touched
    BY <1>1 DEF JobFields
  <2> HIDE DEF j
  <2>3. QED
    BY <2>1, <2>2, SameLook
<1>4. CASE Hit(t)
  <2> DEFINE j == [i EXCEPT !.paths = Tail(@), !.tried = FALSE]
  <2>1. Goes(t, j) /\ rules' = rules /\ i.pc = "find"
    BY <1>4 DEF Hit, Moves, Looking, At
  <2>2. j.pc = i.pc /\ j.read = i.read /\ j.touched = i.touched
    BY <1>1 DEF JobFields
  <2> HIDE DEF j
  <2>3. QED
    BY <2>1, <2>2, SameLook
<1>5. CASE Build(t)
  <2> DEFINE j == [i EXCEPT !.paths = Tail(@)]
  <2>1. Goes(t, j) /\ rules' = rules /\ i.pc = "find"
    BY <1>5 DEF Build, StoreResult, Calling, At
  <2>2. j.pc = i.pc /\ j.read = i.read /\ j.touched = i.touched
    BY <1>1 DEF JobFields
  <2> HIDE DEF j
  <2>3. QED
    BY <2>1, <2>2, SameLook
<1>6. CASE Find(t) \/ Collect(t)
  <2>1. i.pc = "find" /\ rules' = rules /\ \E paths : Goes(t, [i EXCEPT !.tried = FALSE, !.paths = paths])
    <3>1. i.pc = "find" /\ \E deps, single, raises : Descends(t, deps, single, raises)
      BY <1>6 DEF Find, Collect, Missing, Looking, At
    <3>2. PICK deps, single, raises : Descends(t, deps, single, raises)
      BY <3>1
    <3> DEFINE h == [i EXCEPT !.tried = FALSE, !.paths =
          [n \in DOMAIN deps |-> [path |-> Append(Path(t), deps[n]), back |-> FALSE, single |-> FALSE, raises |-> FALSE]]
            \o <<[path |-> Path(t), back |-> TRUE, single |-> single, raises |-> raises]>> \o Tail(@)]
               paths == [n \in DOMAIN deps |-> [path |-> Append(Path(t), deps[n]), back |-> FALSE,
                                                single |-> FALSE, raises |-> FALSE]]
                          \o <<[path |-> Path(t), back |-> TRUE, single |-> single, raises |-> raises]>>
                          \o Tail(i.paths)
    <3>3. Goes(t, h) /\ rules' = rules
      BY <3>2 DEF Descends
    <3>4. h = [i EXCEPT !.tried = FALSE, !.paths = paths]
      BY <1>1 DEF JobFields
    <3> HIDE DEF h, paths
    <3>5. QED
      BY <3>1, <3>3, <3>4
  <2>2. PICK paths : Goes(t, [i EXCEPT !.tried = FALSE, !.paths = paths])
    BY <2>1
  <2> DEFINE j == [i EXCEPT !.tried = FALSE, !.paths = paths]
  <2>3. Goes(t, j) /\ j.pc = i.pc /\ j.read = i.read /\ j.touched = i.touched
    BY <1>1, <2>2 DEF JobFields
  <2> HIDE DEF j
  <2>4. QED
    BY <2>1, <2>3, SameLook
<1>7. QED
  BY <1>2, <1>3, <1>4, <1>5, <1>6

LEMMA LookedAlways == Spec => []LookInv
<1>1. Init => LookInv
  <2>1. Idle.pc = "idle" /\ Idle.read = {}
    BY DEF Idle
  <2>2. QED
    BY <2>1 DEF Init, LookInv, Looked
<1>2. IInv /\ TypeInv /\ LookInv /\ [Next]_vars => LookInv'
  <2> SUFFICES ASSUME IInv, TypeInv, LookInv, [Next]_vars PROVE LookInv'
    OBVIOUS
  <2>1. CASE ChangeSource \/ UNCHANGED vars
    <3>1. rules' = rules /\ job' = job
      BY <2>1 DEF ChangeSource, vars
    <3>2. QED
      BY <3>1 DEF LookInv, Looked, StillFree, Known, KeyOf, RuleIn, Item
  <2>2. ASSUME NEW t \in Threads, Add(t) PROVE LookInv'
    BY <2>2, AddLooks
  <2>3. ASSUME NEW t \in Threads, Register(t) PROVE LookInv'
    BY <2>3, StartsLook, EndingsLook, TakingLooks, OthersLook DEF Register
  <2>4. ASSUME NEW t \in Threads, Resolve(t) PROVE LookInv'
    BY <2>4, StartsLook, EndingsLook, MakingLooks, OthersLook DEF Resolve
  <2>5. QED
    BY <2>1, <2>2, <2>3, <2>4 DEF Next
<1>3. QED
  BY RegistrationInvariance, TypedAlways, <1>1, <1>2, PTL DEF Spec

\* A rule that is made for a type, by a scan or by a get, or for a path of a
\* configuration never takes the place of a rule that was there when the thread
\* looked, except for a path that only the configuration's second reading has.
THEOREM ExplicitRulesStay == Spec => KeptRules
<1> DEFINE Kept(t) == WriteMap(t) /\ Item(t).rule.by # "given" /\ Known(Item(t).key)
                        => \/ Item(t).key \in job[t].touched
                           \/ Item(t).rule.by = "config" /\ Item(t).key \notin job[t].read
<1>1. TypeInv /\ LookInv /\ [Next]_vars => [\A t \in Threads : Kept(t)]_vars
  <2> SUFFICES ASSUME TypeInv, LookInv, NEW t \in Threads, WriteMap(t),
                      RuleIn(t).by # "given", Known(KeyOf(t))
               PROVE  \/ KeyOf(t) \in job[t].touched
                      \/ RuleIn(t).by = "config" /\ KeyOf(t) \notin job[t].read
    BY DEF KeyOf, RuleIn
  <2>1. job[t].pc = "map" /\ Looked(t) /\ job[t].todo # <<>>
    BY DEF WriteMap, At, LookInv, TypeInv, Fits, Adding
  <2>2. RuleIn(t).by \in Makers
    BY <2>1, ItemTyped DEF Rule
  <2>3. CASE RuleIn(t).by = "wired"
    BY <2>1, <2>3 DEF Looked, StillFree
  <2>4. CASE RuleIn(t).by = "config"
    BY <2>1, <2>4 DEF Looked, StillFree
  <2>5. QED
    BY <2>2, <2>3, <2>4 DEF Makers
<1>2. QED
  BY TypedAlways, LookedAlways, <1>1, PTL DEF Spec, KeptRules

-----------------------------------------------------------------------------
(* Every cycle goes through a key that is being added, for AcyclicRules *)

\* Keys each of which leads to another of them.
Core(C, r, g) ==
  /\ C # {}
  /\ \A i \in C : g[i] # NoEntry /\ \E d \in ToSet(g[i]) : d \in C /\ r[d] # NoRule
Leads(k) == \E C \in SUBSET Keys : k \in C /\ Core(C, rules, graph)
Unsettled(k) == rules[k] # accepted[k] \/ graph[k] # GraphOf(accepted[k])
\* Every cycle goes through a key that is being added.
CyclesOpen == \A C \in SUBSET Keys : Core(C, rules, graph) => \E k \in C : Unsettled(k)
\* Until its edges are written, the key has those that were accepted.
EdgesWait(t) ==
  job[t].pc = "graph" /\ KeyOf(t) \in Keys => graph[KeyOf(t)] = GraphOf(accepted[KeyOf(t)])
Uncrossed(t) == Writing(t) /\ ~job[t].crossed /\ KeyOf(t) \in Keys
\* A rule is taken back because it leads to a cycle.
RefusedForCause(t) ==
  Uncrossed(t) /\ job[t].pc \in {"undo", "undo graph"} /\ accepted[KeyOf(t)] # NoRule
    => Leads(KeyOf(t))
\* So every cycle that its copies have goes through another key being added.
CopiesOpen(t) ==
  Uncrossed(t) /\ (job[t].pc # "graph" /\ accepted[KeyOf(t)] # NoRule => Leads(KeyOf(t)))
    => \A C \in SUBSET Keys :
         Core(C, job[t].oldRules, job[t].oldGraph) => \E k \in C \ {KeyOf(t)} : Unsettled(k)
Open == CyclesOpen /\ \A t \in Threads : EdgesWait(t) /\ RefusedForCause(t) /\ CopiesOpen(t)
CycleInv == setup.checked /\ ~mixed => Open

LEMMA CyclesAreCores ==
  ASSUME NEW g, NEW r, NEW k
  PROVE  CycleFrom(EdgesOf(g, {i \in Keys : r[i] # NoRule}), k)
           <=> \E C \in SUBSET Keys : k \in C /\ Core(C, r, g)
<1> DEFINE known == {i \in Keys : r[i] # NoRule}
           E == EdgesOf(g, known)
<1>1. /\ DOMAIN E = {i \in Keys : g[i] # NoEntry}
      /\ \A i \in DOMAIN E : E[i] = ToSet(g[i]) \cap known
  BY DEF EdgesOf
<1>2. \A i : i \in known <=> i \in Keys /\ r[i] # NoRule
  OBVIOUS
<1> HIDE DEF E, known
<1>3. ASSUME NEW C \in SUBSET DOMAIN E, k \in C, \A i \in C : E[i] \cap C # {}
      PROVE  C \in SUBSET Keys /\ Core(C, r, g)
  BY <1>1, <1>2, <1>3 DEF Core
<1>4. ASSUME NEW C \in SUBSET Keys, k \in C, Core(C, r, g)
      PROVE  C \in SUBSET DOMAIN E /\ \A i \in C : E[i] \cap C # {}
  <2>1. C \in SUBSET DOMAIN E
    BY <1>1, <1>4 DEF Core
  <2>2. ASSUME NEW i \in C PROVE E[i] \cap C # {}
    <3>1. PICK d \in ToSet(g[i]) : d \in C /\ r[d] # NoRule
      BY <1>4, <2>2 DEF Core
    <3>2. d \in E[i]
      BY <1>1, <1>2, <2>1, <3>1
    <3>3. QED
      BY <3>1, <3>2
  <2>3. QED
    BY <2>1, <2>2
<1>5. QED
  BY <1>3, <1>4 DEF CycleFrom, E, known

LEMMA ClosingLeads ==
  ASSUME NEW k
  PROVE  Closes(k) <=> Leads(k)
BY CyclesAreCores DEF Closes, Edges, Known, Leads

\* A core stays one when the edges of its keys stay and no rule of them goes.
LEMMA CoreLike ==
  ASSUME NEW C, NEW r, NEW g, NEW q, NEW h, Core(C, r, g),
         \A i \in C : h[i] = g[i] /\ (r[i] # NoRule => q[i] # NoRule)
  PROVE  Core(C, q, h)
BY DEF Core

\* What a thread that nobody has crossed has written, and its copies.
LEMMA CopiesAre ==
  ASSUME IInv, TypeInv, ~mixed, NEW t \in Threads, Writing(t), ~job[t].crossed
  PROVE  /\ KeyOf(t) \in Keys /\ RuleIn(t) # NoRule
         /\ \A i \in Keys \ {KeyOf(t)} :
              rules[i] = job[t].oldRules[i] /\ graph[i] = job[t].oldGraph[i]
         /\ job[t].pc # "undo graph" => rules[KeyOf(t)] = RuleIn(t)
         /\ job[t].pc = "undo graph" => rules[KeyOf(t)] = job[t].oldRules[KeyOf(t)]
         /\ job[t].pc = "graph" => graph[KeyOf(t)] = job[t].oldGraph[KeyOf(t)]
         /\ job[t].oldRules[KeyOf(t)] = accepted[KeyOf(t)]
         /\ job[t].oldGraph[KeyOf(t)] = GraphOf(accepted[KeyOf(t)])
<1> DEFINE k == KeyOf(t)
           q == job[t].oldRules
           h == job[t].oldGraph
<1>1. job[t].pc \in Adding \ {"copy graph"}
  BY DEF Writing, Adding
<1>2. job[t].todo # <<>> /\ q = [i \in Keys |-> q[i]] /\ h = [i \in Keys |-> h[i]]
  BY <1>1 DEF IInv, Shapes, JobMade, OnKeys
<1>3. k \in Keys /\ RuleIn(t) # NoRule
  BY <1>2, ItemTyped
<1>4. CopiesOf(t) /\ Restorable(t)
  BY DEF IInv, Exact, InOrder
<1>5. /\ job[t].pc # "undo graph" => rules = [q EXCEPT ![k] = RuleIn(t)]
      /\ job[t].pc = "undo graph" => rules = q
      /\ job[t].pc = "graph" => graph = h
      /\ job[t].pc # "graph" => graph = [h EXCEPT ![k] = RuleIn(t).deps]
  BY <1>4 DEF CopiesOf, Writing
<1>6. q[k] = accepted[k] /\ h[k] = GraphOf(accepted[k])
  BY <1>3, <1>4 DEF Restorable
<1> HIDE DEF k, q, h
<1>7. \A i \in Keys \ {k} : rules[i] = q[i] /\ graph[i] = h[i]
  <2>1. \A i \in Keys \ {k} : rules[i] = q[i]
    BY <1>2, <1>5
  <2>2. \A i \in Keys \ {k} : graph[i] = h[i]
    BY <1>2, <1>5
  <2>3. QED
    BY <2>1, <2>2
<1>8. job[t].pc # "undo graph" => rules[k] = RuleIn(t)
  BY <1>2, <1>3, <1>5
<1>9. QED
  BY <1>3, <1>5, <1>6, <1>7, <1>8 DEF k, q, h

\* A step that leaves what was accepted and what others are writing.  Who is
\* not crossed by it sees no change at all.
LEMMA OthersOpen ==
  ASSUME Shapes, Open, NEW t \in Threads, NEW j, Goes(t, j), accepted' = accepted,
         NEW u \in Threads \ {t},
         Writing(u) /\ KeyOf(u) \in Keys => graph'[KeyOf(u)] = graph[KeyOf(u)]
  PROVE  EdgesWait(u)' /\ RefusedForCause(u)' /\ CopiesOpen(u)'
<1>1. /\ job'[u].pc = job[u].pc /\ job'[u].todo = job[u].todo
      /\ job'[u].oldRules = job[u].oldRules /\ job'[u].oldGraph = job[u].oldGraph
      /\ ~job'[u].crossed =>
           /\ job[u].pc \in Adding => rules' = rules /\ graph' = graph
           /\ ~job[u].crossed
  BY GoesToOthers
<1>2. KeyOf(u)' = KeyOf(u) /\ (Writing(u)' <=> Writing(u))
  BY <1>1 DEF KeyOf, Item, Writing
<1>3. EdgesWait(u) /\ RefusedForCause(u) /\ CopiesOpen(u)
  BY DEF Open
<1>4. EdgesWait(u)'
  BY <1>1, <1>2, <1>3 DEF EdgesWait, Writing, GraphOf
<1>5. Uncrossed(u)' => /\ Uncrossed(u) /\ rules' = rules /\ graph' = graph
                       /\ Leads(KeyOf(u))' = Leads(KeyOf(u))
                       /\ \A i : Unsettled(i)' <=> Unsettled(i)
  <2>1. Uncrossed(u)' => Uncrossed(u) /\ rules' = rules /\ graph' = graph
    BY <1>1, <1>2 DEF Uncrossed, Writing, Adding
  <2>2. QED
    BY <1>2, <2>1 DEF Leads, Unsettled, GraphOf
<1>6. RefusedForCause(u)'
  BY <1>1, <1>2, <1>3, <1>5 DEF RefusedForCause
<1>7. CopiesOpen(u)'
  <2> SUFFICES ASSUME Uncrossed(u)',
                      job'[u].pc # "graph" /\ accepted'[KeyOf(u)'] # NoRule => Leads(KeyOf(u))',
                      NEW C \in SUBSET Keys, Core(C, job'[u].oldRules, job'[u].oldGraph)
               PROVE  \E k \in C \ {KeyOf(u)'} : Unsettled(k)'
    BY DEF CopiesOpen, Unsettled, GraphOf
  <2>1. Uncrossed(u) /\ (job[u].pc # "graph" /\ accepted[KeyOf(u)] # NoRule => Leads(KeyOf(u)))
    BY <1>1, <1>2, <1>5
  <2>2. Core(C, job[u].oldRules, job[u].oldGraph)
    BY <1>1
  <2>3. \E k \in C \ {KeyOf(u)} : Unsettled(k)
    BY <1>3, <2>1, <2>2 DEF CopiesOpen
  <2>4. QED
    BY <1>2, <1>5, <2>3
<1>8. QED
  BY <1>4, <1>6, <1>7

\* Nothing is written, and the thread is not writing.
LEMMA QuietOpens ==
  ASSUME IInv, CycleInv, NEW t \in Threads, NEW j, Goes(t, j),
         j.pc \notin {"graph", "check", "undo", "undo graph"},
         UNCHANGED <<setup, rules, graph, accepted, mixed>>
  PROVE  CycleInv'
<1> SUFFICES ASSUME setup.checked, ~mixed PROVE Open'
  BY DEF CycleInv, Open, CyclesOpen, EdgesWait, RefusedForCause, CopiesOpen
<1>1. Open
  BY DEF CycleInv
<1>2. CyclesOpen'
  BY <1>1 DEF Open, CyclesOpen, Unsettled, GraphOf
<1>3. ~Writing(t)'
  BY GoesToOthers DEF IInv, Writing
<1>4. EdgesWait(t)' /\ RefusedForCause(t)' /\ CopiesOpen(t)'
  BY <1>3 DEF EdgesWait, RefusedForCause, CopiesOpen, Uncrossed, Writing
<1>5. \A u \in Threads \ {t} : EdgesWait(u)' /\ RefusedForCause(u)' /\ CopiesOpen(u)'
  BY <1>1, OthersOpen DEF IInv
<1>6. QED
  BY <1>2, <1>4, <1>5 DEF Open

\* A thread that writes, or takes back, alone with its key.
LEMMA WriterOpens ==
  ASSUME IInv, CycleInv, setup.checked, ~mixed, NEW t \in Threads, NEW j, Goes(t, j),
         accepted' = accepted,
         \A i \in Keys \ {KeyOf(t)} : graph'[i] = graph[i],
         \A u \in Threads \ {t} : Writing(u) => KeyOf(u) # KeyOf(t),
         CyclesOpen', EdgesWait(t)', RefusedForCause(t)', CopiesOpen(t)'
  PROVE  Open'
<1>1. \A u \in Threads \ {t} : EdgesWait(u)' /\ RefusedForCause(u)' /\ CopiesOpen(u)'
  BY OthersOpen DEF IInv, CycleInv
<1>2. QED
  BY <1>1 DEF Open

\* The key was settled: what was a cycle without its new rule went through
\* another that is being added, and its edges are still the accepted ones.
LEMMA WriteMapOpens ==
  ASSUME IInv, TypeInv, CycleInv, NEW t \in Threads, WriteMap(t)
  PROVE  CycleInv'
<1> SUFFICES ASSUME setup.checked, ~mixed, ~SharesKey(t) PROVE Open'
  BY DEF CycleInv, WriteMap
<1> DEFINE k == KeyOf(t)
           j == [job[t] EXCEPT !.pc = "graph", !.read = job[t].read \ {KeyOf(t)}]
<1>1. /\ job[t].pc = "map" /\ rules' = [rules EXCEPT ![k] = RuleIn(t)]
      /\ graph' = graph /\ accepted' = accepted
  BY DEF WriteMap, At, KeyOf, RuleIn
<1>2. job[t].todo # <<>> /\ job[t] = [x \in JobFields |-> job[t][x]]
  BY <1>1 DEF IInv, Shapes, JobMade, Adding
<1>3. Goes(t, j)
  <2> DEFINE h == [job[t] EXCEPT !.pc = "graph", !.read = @ \ {Item(t).key}]
  <2>1. Goes(t, h)
    BY DEF WriteMap
  <2>2. h = j
    BY <1>2 DEF JobFields, KeyOf
  <2>3. QED
    BY <2>1, <2>2
<1>4. /\ j.pc = "graph" /\ j.todo = job[t].todo /\ j.oldRules = job[t].oldRules
      /\ j.oldGraph = job[t].oldGraph /\ j.crossed = job[t].crossed
  BY <1>2 DEF JobFields
<1> HIDE DEF j
<1>5. job'[t] = j /\ KeyOf(t)' = k
  BY <1>3, <1>4, GoesToOthers DEF IInv, KeyOf, Item
<1>6. k \in Keys /\ RuleIn(t) # NoRule
  BY <1>2, ItemTyped
<1>7. \A u \in Threads : Writing(u) => KeyOf(u) # k
  BY <1>1 DEF SharesKey, Writing, Adding, KeyOf
<1>8. ~Unsettled(k)
  BY <1>6, <1>7 DEF IInv, Exact, Settled, Unsettled
<1> HIDE DEF k
<1>9. \A i \in Keys : rules'[i] = IF i = k THEN RuleIn(t) ELSE rules[i]
  BY <1>1, <1>6 DEF IInv, Shapes, OnKeys
<1>10. \A i \in Keys \ {k} : Unsettled(i)' <=> Unsettled(i)
  BY <1>1, <1>9 DEF Unsettled, GraphOf
<1>11. Open
  BY DEF CycleInv
<1>12. CyclesOpen'
  <2> SUFFICES ASSUME NEW C \in SUBSET Keys, Core(C, rules', graph')
               PROVE  \E i \in C : Unsettled(i)'
    BY DEF CyclesOpen, Unsettled, GraphOf
  <2>1. k \in C => rules[k] # NoRule
    BY <1>1, <1>8 DEF Core, Unsettled, GraphOf
  <2>2. Core(C, rules, graph)
    <3>1. \A i \in C : graph[i] = graph'[i] /\ (rules'[i] # NoRule => rules[i] # NoRule)
      BY <1>1, <1>9, <2>1
    <3>2. QED
      BY <3>1, CoreLike
  <2>3. PICK i \in C : Unsettled(i)
    BY <1>11, <2>2 DEF Open, CyclesOpen
  <2>4. i \in Keys \ {k}
    BY <1>8, <2>3
  <2>5. QED
    BY <1>10, <2>3, <2>4
<1>13. EdgesWait(t)' /\ RefusedForCause(t)'
  BY <1>1, <1>4, <1>5, <1>8 DEF EdgesWait, RefusedForCause, Unsettled, GraphOf
<1>14. CopiesOpen(t)'
  <2> SUFFICES ASSUME Uncrossed(t)', NEW C \in SUBSET Keys,
                      Core(C, job'[t].oldRules, job'[t].oldGraph)
               PROVE  \E i \in C \ {k} : Unsettled(i)'
    BY <1>5 DEF CopiesOpen, Unsettled, GraphOf
  <2>1. ~job[t].crossed
    BY <1>4, <1>5 DEF Uncrossed
  <2>2. CopiesOf(t)
    BY DEF IInv, Exact, InOrder
  <2>3. rules = job[t].oldRules /\ graph = job[t].oldGraph
    BY <1>1, <2>1, <2>2 DEF CopiesOf
  <2>4. PICK i \in C : Unsettled(i)
    BY <1>4, <1>5, <1>11, <2>3 DEF Open, CyclesOpen
  <2>5. i \in Keys \ {k}
    BY <1>8, <2>4
  <2>6. QED
    BY <1>10, <2>4, <2>5
<1>15. QED
  BY <1>1, <1>3, <1>7, <1>12, <1>13, <1>14, WriterOpens DEF k

\* If the edges are new the key is not settled; if not, nothing is.
LEMMA WriteGraphOpens ==
  ASSUME IInv, TypeInv, CycleInv, NEW t \in Threads, WriteGraph(t)
  PROVE  CycleInv'
<1> SUFFICES ASSUME setup.checked, ~mixed PROVE Open'
  BY DEF CycleInv, WriteGraph
<1> DEFINE k == KeyOf(t)
           j == [job[t] EXCEPT !.pc = "check"]
<1>1. /\ job[t].pc = "graph" /\ Goes(t, j) /\ rules' = rules
      /\ graph' = [graph EXCEPT ![k] = RuleIn(t).deps] /\ accepted' = accepted
  BY DEF WriteGraph, At, KeyOf, RuleIn
<1>2. job[t].todo # <<>> /\ job[t] = [x \in JobFields |-> job[t][x]] /\ Writing(t)
  BY <1>1 DEF IInv, Shapes, JobMade, Adding, Writing
<1>3. /\ j.pc = "check" /\ j.todo = job[t].todo /\ j.oldRules = job[t].oldRules
      /\ j.oldGraph = job[t].oldGraph /\ j.crossed = job[t].crossed
  BY <1>2 DEF JobFields
<1> HIDE DEF j
<1>4. job'[t] = j /\ KeyOf(t)' = k
  BY <1>1, <1>3, GoesToOthers DEF IInv, KeyOf, Item
<1>5. k \in Keys
  BY <1>2, ItemTyped
<1>6. \A u \in Threads \ {t} : Writing(u) => KeyOf(u) # k
  BY <1>2 DEF IInv, Exact, OneWriter
<1>7. Open
  BY DEF CycleInv
<1>8. rules[k] = RuleIn(t) /\ graph[k] = GraphOf(accepted[k])
  BY <1>1, <1>2, <1>5, <1>7 DEF IInv, Exact, InOrder, WrittenBy, Open, EdgesWait
<1> HIDE DEF k
<1>9. \A i \in Keys : graph'[i] = IF i = k THEN RuleIn(t).deps ELSE graph[i]
  BY <1>1, <1>5 DEF IInv, Shapes, OnKeys
<1>10. \A i \in Keys \ {k} : Unsettled(i)' <=> Unsettled(i)
  BY <1>1, <1>9 DEF Unsettled, GraphOf
<1>11. RuleIn(t) # NoRule
  BY <1>2, ItemTyped
<1>12. CyclesOpen'
  <2> SUFFICES ASSUME NEW C \in SUBSET Keys, Core(C, rules', graph')
               PROVE  \E i \in C : Unsettled(i)'
    BY DEF CyclesOpen, Unsettled, GraphOf
  <2>1. CASE k \in C /\ RuleIn(t) # accepted[k]
    BY <1>1, <1>8, <2>1 DEF Unsettled
  <2>2. CASE ~(k \in C /\ RuleIn(t) # accepted[k])
    <3>1. \A i \in C : graph[i] = graph'[i]
      BY <1>8, <1>9, <1>11, <2>2 DEF GraphOf
    <3>2. Core(C, rules, graph)
      BY <1>1, <3>1, CoreLike
    <3>3. PICK i \in C : Unsettled(i)
      BY <1>7, <3>2 DEF Open, CyclesOpen
    <3>4. QED
      BY <1>1, <3>1, <3>3 DEF Unsettled, GraphOf
  <2>3. QED
    BY <2>1, <2>2
<1>13. EdgesWait(t)' /\ RefusedForCause(t)'
  BY <1>3, <1>4 DEF EdgesWait, RefusedForCause
<1>14. CopiesOpen(t)'
  <2> SUFFICES ASSUME Uncrossed(t)', NEW C \in SUBSET Keys,
                      Core(C, job'[t].oldRules, job'[t].oldGraph)
               PROVE  \E i \in C \ {k} : Unsettled(i)'
    BY <1>4 DEF CopiesOpen, Unsettled, GraphOf
  <2>1. Uncrossed(t)
    BY <1>2, <1>3, <1>4, <1>5 DEF Uncrossed, k
  <2>2. PICK i \in C \ {k} : Unsettled(i)
    BY <1>1, <1>3, <1>4, <1>7, <2>1 DEF Open, CopiesOpen, k
  <2>3. QED
    BY <1>10, <2>2
<1>15. QED
  BY <1>1, <1>6, <1>9, <1>12, <1>13, <1>14, WriterOpens DEF k

LEMMA RefuseOpens ==
  ASSUME IInv, TypeInv, CycleInv, NEW t \in Threads, Refuse(t)
  PROVE  CycleInv'
<1> SUFFICES ASSUME setup.checked, ~mixed PROVE Open'
  BY DEF CycleInv, Refuse, Moves
<1> DEFINE j == [job[t] EXCEPT !.pc = "undo"]
<1>1. /\ job[t].pc = "check" /\ Goes(t, j)
      /\ UNCHANGED <<rules, graph, accepted>> /\ Closes(KeyOf(t))
  BY DEF Refuse, Moves, At, KeyOf
<1>2. job[t] = [x \in JobFields |-> job[t][x]] /\ Writing(t)
  BY <1>1 DEF IInv, Shapes, JobMade, Writing
<1>3. /\ j.pc = "undo" /\ j.todo = job[t].todo /\ j.oldRules = job[t].oldRules
      /\ j.oldGraph = job[t].oldGraph /\ j.crossed = job[t].crossed
  BY <1>2 DEF JobFields
<1> HIDE DEF j
<1>4. job'[t] = j /\ KeyOf(t)' = KeyOf(t)
  BY <1>1, <1>3, GoesToOthers DEF IInv, KeyOf, Item
<1>5. Leads(KeyOf(t)) /\ (Leads(KeyOf(t)))'
  <2>1. Leads(KeyOf(t))
    BY <1>1, ClosingLeads
  <2>2. QED
    BY <1>1, <1>4, <2>1 DEF Leads
<1>6. Open
  BY DEF CycleInv
<1>7. \A i : Unsettled(i)' <=> Unsettled(i)
  BY <1>1 DEF Unsettled, GraphOf
<1>8. CyclesOpen'
  BY <1>1, <1>6 DEF Open, CyclesOpen, Unsettled, GraphOf
<1>9. EdgesWait(t)' /\ RefusedForCause(t)'
  BY <1>3, <1>4, <1>5 DEF EdgesWait, RefusedForCause
<1>10. CopiesOpen(t)'
  <2> SUFFICES ASSUME Uncrossed(t)', NEW C \in SUBSET Keys,
                      Core(C, job'[t].oldRules, job'[t].oldGraph)
               PROVE  \E i \in C \ {KeyOf(t)} : Unsettled(i)'
    BY <1>4 DEF CopiesOpen, Unsettled, GraphOf
  <2>1. Uncrossed(t)
    BY <1>2, <1>3, <1>4 DEF Uncrossed
  <2>2. PICK i \in C \ {KeyOf(t)} : Unsettled(i)
    BY <1>3, <1>4, <1>5, <1>6, <2>1 DEF Open, CopiesOpen
  <2>3. QED
    BY <1>7, <2>2
<1>11. \A u \in Threads \ {t} : Writing(u) => KeyOf(u) # KeyOf(t)
  BY <1>2 DEF IInv, Exact, OneWriter
<1>12. QED
  BY <1>1, <1>8, <1>9, <1>10, <1>11, WriterOpens

\* The rule goes, the edges stay: what is a cycle now was one before.  Taking
\* the rule back settles its key only if the edges were the accepted ones, and
\* then the copies are what is left.
LEMMA UndoMapOpens ==
  ASSUME IInv, TypeInv, CycleInv, NEW t \in Threads, UndoMap(t)
  PROVE  CycleInv'
<1> SUFFICES ASSUME setup.checked, ~mixed, ~job[t].crossed PROVE Open'
  BY DEF CycleInv, UndoMap
<1> DEFINE k == KeyOf(t)
           q == job[t].oldRules
           h == job[t].oldGraph
           j == [job[t] EXCEPT !.pc = "undo graph"]
<1>1. /\ job[t].pc = "undo" /\ Goes(t, j) /\ rules' = q
      /\ graph' = graph /\ accepted' = accepted
  BY DEF UndoMap, At
<1>2. job[t] = [x \in JobFields |-> job[t][x]] /\ Writing(t)
  BY <1>1 DEF IInv, Shapes, JobMade, Writing
<1>3. j.pc = "undo graph" /\ j.todo = job[t].todo /\ j.oldRules = q /\ j.oldGraph = h
  BY <1>2 DEF JobFields
<1> HIDE DEF j
<1>4. job'[t] = j /\ KeyOf(t)' = k
  BY <1>1, <1>3, GoesToOthers, ZenonT(30) DEF IInv, KeyOf, Item
<1>5. /\ k \in Keys /\ RuleIn(t) # NoRule
      /\ \A i \in Keys \ {k} : rules[i] = q[i] /\ graph[i] = h[i]
      /\ rules[k] = RuleIn(t) /\ q[k] = accepted[k] /\ h[k] = GraphOf(accepted[k])
  BY <1>1, <1>2, CopiesAre
<1>6. Uncrossed(t)
  BY <1>2, <1>5 DEF Uncrossed
<1>7. Open
  BY DEF CycleInv
<1>8. accepted[k] # NoRule => Leads(k)
  BY <1>1, <1>6, <1>7 DEF Open, RefusedForCause
<1>9. \A C \in SUBSET Keys : Core(C, q, h) => \E i \in C \ {k} : Unsettled(i)
  BY <1>6, <1>7, <1>8 DEF Open, CopiesOpen
<1>10. \A u \in Threads \ {t} : Writing(u) => KeyOf(u) # k
  BY <1>2 DEF IInv, Exact, OneWriter
<1> HIDE DEF k, q, h
<1>11. \A i \in Keys \ {k} : Unsettled(i)' <=> Unsettled(i)
  BY <1>1, <1>5 DEF Unsettled, GraphOf
<1>12. CyclesOpen'
  <2> SUFFICES ASSUME NEW C \in SUBSET Keys, Core(C, rules', graph')
               PROVE  \E i \in C : Unsettled(i)'
    BY DEF CyclesOpen, Unsettled, GraphOf
  <2>1. CASE k \in C /\ graph[k] # GraphOf(accepted[k])
    BY <1>1, <2>1 DEF Unsettled, GraphOf
  <2>2. CASE k \in C /\ graph[k] = GraphOf(accepted[k])
    <3>1. \A i \in C : h[i] = graph'[i] /\ (rules'[i] # NoRule => q[i] # NoRule)
      BY <1>1, <1>5, <2>2
    <3>2. Core(C, q, h)
      BY <3>1, CoreLike
    <3>3. PICK i \in C \ {k} : Unsettled(i)
      BY <1>9, <3>2
    <3>4. QED
      BY <1>11, <3>3
  <2>3. CASE k \notin C
    <3>1. \A i \in C : graph[i] = graph'[i] /\ (rules'[i] # NoRule => rules[i] # NoRule)
      BY <1>1, <1>5, <2>3
    <3>2. Core(C, rules, graph)
      BY <3>1, CoreLike
    <3>3. PICK i \in C : Unsettled(i)
      BY <1>7, <3>2 DEF Open, CyclesOpen
    <3>4. QED
      BY <1>11, <2>3, <3>3
  <2>4. QED
    BY <2>1, <2>2, <2>3
<1>13. EdgesWait(t)'
  BY <1>3, <1>4 DEF EdgesWait
<1>14. RefusedForCause(t)'
  <2> SUFFICES ASSUME accepted[k] # NoRule
               PROVE  \E D \in SUBSET Keys : k \in D /\ Core(D, rules', graph')
    BY <1>1, <1>4 DEF RefusedForCause, Leads, Core
  <2>1. PICK D \in SUBSET Keys : k \in D /\ Core(D, rules, graph)
    BY <1>8 DEF Leads
  <2>2. \A i \in D : graph'[i] = graph[i] /\ (rules[i] # NoRule => rules'[i] # NoRule)
    BY <1>1, <1>5
  <2>3. Core(D, rules', graph')
    BY <2>1, <2>2, CoreLike
  <2>4. QED
    BY <2>1, <2>3
<1>15. CopiesOpen(t)'
  <2> SUFFICES ASSUME NEW C \in SUBSET Keys, Core(C, q, h)
               PROVE  \E i \in C \ {k} : Unsettled(i)'
    BY <1>3, <1>4 DEF CopiesOpen, Unsettled, GraphOf
  <2>1. PICK i \in C \ {k} : Unsettled(i)
    BY <1>9
  <2>2. QED
    BY <1>11, <2>1
<1>16. QED
  BY <1>1, <1>10, <1>12, <1>13, <1>14, <1>15, WriterOpens DEF k

\* The copies are what is left.
LEMMA UndoGraphOpens ==
  ASSUME IInv, TypeInv, CycleInv, NEW t \in Threads, UndoGraph(t)
  PROVE  CycleInv'
<1> SUFFICES ASSUME setup.checked, ~mixed, ~job[t].crossed PROVE Open'
  BY DEF CycleInv, UndoGraph
<1> DEFINE k == KeyOf(t)
           q == job[t].oldRules
           h == job[t].oldGraph
<1>1. /\ job[t].pc = "undo graph" /\ Goes(t, Idle) /\ rules' = rules
      /\ graph' = h /\ accepted' = accepted
  BY DEF UndoGraph, Ends, Stops, At
<1>2. Writing(t)
  BY <1>1 DEF Writing
<1>3. job'[t].pc = "idle"
  <2>1. job'[t] = Idle
    BY <1>1, GoesToOthers DEF IInv
  <2>2. QED
    BY <2>1 DEF Idle
<1>4. /\ k \in Keys /\ \A i \in Keys \ {k} : rules[i] = q[i] /\ graph[i] = h[i]
      /\ rules[k] = q[k] /\ q[k] = accepted[k]
  BY <1>1, <1>2, CopiesAre
<1>5. Uncrossed(t)
  BY <1>2, <1>4 DEF Uncrossed
<1>6. Open
  BY DEF CycleInv
<1>7. \A C \in SUBSET Keys : Core(C, q, h) => \E i \in C \ {k} : Unsettled(i)
  BY <1>1, <1>5, <1>6 DEF Open, RefusedForCause, CopiesOpen
<1>8. \A u \in Threads \ {t} : Writing(u) => KeyOf(u) # k
  BY <1>2 DEF IInv, Exact, OneWriter
<1> HIDE DEF k, q, h
<1>9. \A i \in Keys \ {k} : graph'[i] = graph[i] /\ (Unsettled(i)' <=> Unsettled(i))
  BY <1>1, <1>4 DEF Unsettled, GraphOf
<1>10. CyclesOpen'
  <2> SUFFICES ASSUME NEW C \in SUBSET Keys, Core(C, rules', graph')
               PROVE  \E i \in C : Unsettled(i)'
    BY DEF CyclesOpen, Unsettled, GraphOf
  <2>1. \A i \in C : h[i] = graph'[i] /\ (rules'[i] # NoRule => q[i] # NoRule)
    BY <1>1, <1>4
  <2>2. Core(C, q, h)
    BY <2>1, CoreLike
  <2>3. PICK i \in C \ {k} : Unsettled(i)
    BY <1>7, <2>2
  <2>4. QED
    BY <1>9, <2>3
<1>11. EdgesWait(t)' /\ RefusedForCause(t)' /\ CopiesOpen(t)'
  BY <1>3 DEF EdgesWait, RefusedForCause, CopiesOpen, Uncrossed, Writing
<1>12. QED
  BY <1>1, <1>8, <1>9, <1>10, <1>11, WriterOpens DEF k

\* No cycle goes through a key whose rule is accepted.  What the copies of
\* another have as a cycle through it would be one now, if need be with the
\* cycle that the other has been refused for.
LEMMA AcceptedInNoCopy ==
  ASSUME IInv, TypeInv, ~mixed, NEW t \in Threads, Writing(t), ~Leads(KeyOf(t)),
         NEW u \in Threads \ {t}, Uncrossed(u),
         job[u].pc # "graph" /\ accepted[KeyOf(u)] # NoRule => Leads(KeyOf(u)),
         NEW C \in SUBSET Keys, Core(C, job[u].oldRules, job[u].oldGraph)
  PROVE  KeyOf(t) \notin C
<1> DEFINE k == KeyOf(u)
           q == job[u].oldRules
           h == job[u].oldGraph
<1>1. SUFFICES ASSUME KeyOf(t) \in C PROVE FALSE
  OBVIOUS
<1>2. Writing(u) /\ k # KeyOf(t)
  BY DEF Uncrossed, IInv, Exact, OneWriter
<1>3. /\ k \in Keys /\ RuleIn(u) # NoRule
      /\ \A i \in Keys \ {k} : rules[i] = q[i] /\ graph[i] = h[i]
      /\ job[u].pc # "undo graph" => rules[k] = RuleIn(u)
      /\ job[u].pc = "undo graph" => rules[k] = q[k]
      /\ job[u].pc = "graph" => graph[k] = h[k]
      /\ h[k] = GraphOf(accepted[k])
  BY <1>2, CopiesAre DEF Uncrossed
<1> HIDE DEF k, q, h
<1>4. \A i \in Keys : q[i] # NoRule => rules[i] # NoRule
  BY <1>3
<1>5. CASE k \notin C \/ job[u].pc = "graph"
  <2>1. \A i \in C : graph[i] = h[i] /\ (q[i] # NoRule => rules[i] # NoRule)
    BY <1>3, <1>4, <1>5
  <2>2. Core(C, rules, graph)
    BY <2>1, CoreLike DEF q, h
  <2>3. QED
    BY <1>1, <2>2 DEF Leads
<1>6. CASE k \in C /\ job[u].pc # "graph"
  <2>1. accepted[k] # NoRule
    BY <1>3, <1>6 DEF Core, GraphOf, h
  <2>2. PICK D \in SUBSET Keys : k \in D /\ Core(D, rules, graph)
    BY <1>6, <2>1 DEF Leads, k
  <2>3. Core(C \cup D, rules, graph)
    <3>1. ASSUME NEW i \in C, i \notin D
          PROVE  graph[i] # NoEntry /\ \E d \in ToSet(graph[i]) : d \in C \cup D /\ rules[d] # NoRule
      <4>1. graph[i] = h[i]
        BY <1>3, <2>2, <3>1
      <4>2. h[i] # NoEntry /\ \E d \in ToSet(h[i]) : d \in C /\ q[d] # NoRule
        BY <3>1 DEF Core, q, h
      <4>3. QED
        BY <1>4, <4>1, <4>2
    <3>2. \A i \in D : graph[i] # NoEntry /\ \E d \in ToSet(graph[i]) : d \in D /\ rules[d] # NoRule
      BY <2>2 DEF Core
    <3>3. QED
      BY <1>1, <3>1, <3>2 DEF Core
  <2>4. QED
    BY <1>1, <2>3 DEF Leads
<1>7. QED
  BY <1>5, <1>6

LEMMA AcceptOpens ==
  ASSUME IInv, TypeInv, CycleInv, NEW t \in Threads, Accept(t)
  PROVE  CycleInv'
<1> SUFFICES ASSUME setup.checked, ~mixed PROVE Open'
  BY DEF CycleInv, Accept
<1> DEFINE j == [job[t] EXCEPT !.pc = After(t), !.todo = Tail(@), !.oldRules = <<>>,
                               !.oldGraph = <<>>, !.tried = After(t) = "find"]
<1>1. /\ job[t].pc = "check" /\ Goes(t, j) /\ rules' = rules /\ graph' = graph
      /\ accepted' = [accepted EXCEPT ![KeyOf(t)] = RuleIn(t)]
      /\ ~Closes(KeyOf(t))
  BY DEF Accept, At, KeyOf, RuleIn
<1>2. j.pc \in {"find", "item"} /\ Writing(t)
  BY <1>1 DEF IInv, Shapes, JobMade, JobFields, After, Writing
<1> HIDE DEF j
<1>3. ~Leads(KeyOf(t))
  BY <1>1, ClosingLeads
<1>4. Open
  BY DEF CycleInv
<1> DEFINE k == KeyOf(t)
<1>5. \A i \in Keys \ {k} : accepted'[i] = accepted[i]
  BY <1>1 DEF IInv, Shapes, OnKeys
<1>6. \A i \in Keys \ {k} : Unsettled(i)' <=> Unsettled(i)
  BY <1>1, <1>5 DEF Unsettled, GraphOf
<1>7. CyclesOpen'
  <2> SUFFICES ASSUME NEW C \in SUBSET Keys, Core(C, rules', graph')
               PROVE  \E i \in C : Unsettled(i)'
    BY DEF CyclesOpen, Unsettled, GraphOf
  <2>1. Core(C, rules, graph) /\ k \notin C
    BY <1>1, <1>3 DEF Leads
  <2>2. PICK i \in C : Unsettled(i)
    BY <1>4, <2>1 DEF Open, CyclesOpen
  <2>3. QED
    BY <1>6, <2>1, <2>2
<1>8. EdgesWait(t)' /\ RefusedForCause(t)' /\ CopiesOpen(t)'
  <2>1. job'[t] = j
    BY <1>1, GoesToOthers DEF IInv
  <2>2. QED
    BY <1>2, <2>1 DEF EdgesWait, RefusedForCause, CopiesOpen, Uncrossed, Writing
<1>9. ASSUME NEW u \in Threads \ {t} PROVE EdgesWait(u)' /\ RefusedForCause(u)' /\ CopiesOpen(u)'
  <2>1. /\ job'[u].pc = job[u].pc /\ job'[u].todo = job[u].todo
        /\ job'[u].oldRules = job[u].oldRules /\ job'[u].oldGraph = job[u].oldGraph
        /\ ~job'[u].crossed => ~job[u].crossed
    BY <1>1, GoesToOthers DEF IInv
  <2>2. KeyOf(u)' = KeyOf(u) /\ (Writing(u)' <=> Writing(u))
    BY <2>1 DEF KeyOf, Item, Writing
  <2>3. Writing(u) => KeyOf(u) # k
    BY <1>2 DEF IInv, Exact, OneWriter
  <2>4. Writing(u) /\ KeyOf(u) \in Keys => accepted'[KeyOf(u)] = accepted[KeyOf(u)]
    BY <1>5, <2>3
  <2>5. EdgesWait(u) /\ RefusedForCause(u) /\ CopiesOpen(u)
    BY <1>4 DEF Open
  <2>6. EdgesWait(u)'
    BY <1>1, <2>1, <2>2, <2>4, <2>5 DEF EdgesWait, GraphOf, Writing
  <2>7. Uncrossed(u)' => Uncrossed(u) /\ accepted'[KeyOf(u)] = accepted[KeyOf(u)]
    BY <2>1, <2>2, <2>4 DEF Uncrossed
  <2>8. (Leads(KeyOf(u)))' <=> Leads(KeyOf(u))
    BY <1>1, <2>2 DEF Leads
  <2>9. RefusedForCause(u)'
    BY <2>1, <2>2, <2>5, <2>7, <2>8 DEF RefusedForCause
  <2>10. CopiesOpen(u)'
    <3> SUFFICES ASSUME Uncrossed(u)',
                        job'[u].pc # "graph" /\ accepted'[KeyOf(u)'] # NoRule => (Leads(KeyOf(u)))',
                        NEW C \in SUBSET Keys, Core(C, job'[u].oldRules, job'[u].oldGraph)
                 PROVE  \E i \in C \ {KeyOf(u)'} : Unsettled(i)'
      BY DEF CopiesOpen, Unsettled, GraphOf
    <3>1. Uncrossed(u) /\ (job[u].pc # "graph" /\ accepted[KeyOf(u)] # NoRule => Leads(KeyOf(u)))
      BY <2>1, <2>2, <2>7, <2>8
    <3>2. Core(C, job[u].oldRules, job[u].oldGraph)
      BY <2>1
    <3>3. PICK i \in C \ {KeyOf(u)} : Unsettled(i)
      BY <2>5, <3>1, <3>2 DEF CopiesOpen
    <3>4. k \notin C
      BY <1>2, <1>3, <3>1, <3>2, AcceptedInNoCopy
    <3>5. QED
      BY <1>6, <2>2, <3>3, <3>4
  <2>11. QED
    BY <2>6, <2>9, <2>10
<1>10. QED
  BY <1>7, <1>8, <1>9 DEF Open

\* Every other step writes nothing and is of a thread that is not writing.
LEMMA RegisterOpens ==
  ASSUME IInv, CycleInv, NEW t \in Threads, Register(t)
  PROVE  CycleInv'
<1>1. /\ UNCHANGED <<setup, rules, graph, accepted, mixed>>
      /\ \E j : Goes(t, j) /\ j.pc \notin {"graph", "check", "undo", "undo graph"}
  <2>1. CASE Install(t) \/ Assign(t) \/ Scan(t)
    <3>1. \E todo : Starts(t, [Idle EXCEPT !.pc = "item", !.todo = todo])
      BY <2>1 DEF Install, Assign, Scan
    <3>2. PICK todo : Starts(t, [Idle EXCEPT !.pc = "item", !.todo = todo])
      BY <3>1
    <3> DEFINE i == [Idle EXCEPT !.pc = "item", !.todo = todo]
               j == [i EXCEPT !.alone = \A u \in Threads \ {t} : job[u].pc = "idle"]
    <3>3. Goes(t, j) /\ UNCHANGED <<setup, rules, graph, accepted, mixed>>
      BY <3>2 DEF Starts, Moves
    <3>4. j.pc = "item"
      BY DEF Idle
    <3>5. QED
      BY <3>3, <3>4
  <2>2. CASE Validate(t)
    <3> DEFINE i == [Idle EXCEPT !.pc = "read", !.read = {Current(t).name} \cup ToSet(source)]
               j == [i EXCEPT !.alone = \A u \in Threads \ {t} : job[u].pc = "idle"]
    <3>1. Goes(t, j) /\ UNCHANGED <<setup, rules, graph, accepted, mixed>>
      BY <2>2 DEF Validate, Starts, Moves
    <3>2. j.pc = "read"
      BY DEF Idle
    <3>3. QED
      BY <3>1, <3>2
  <2>3. CASE ReadAgain(t)
    <3>1. \E todo : Moves(t, [job[t] EXCEPT !.pc = "item", !.todo = todo])
      BY <2>3 DEF ReadAgain
    <3>2. PICK todo : Moves(t, [job[t] EXCEPT !.pc = "item", !.todo = todo])
      BY <3>1
    <3>3. [job[t] EXCEPT !.pc = "item", !.todo = todo].pc = "item"
      BY DEF IInv, Shapes, JobMade, JobFields
    <3>4. QED
      BY <3>2, <3>3 DEF Moves
  <2>4. CASE PassOver(t)
    <3>1. Moves(t, [job[t] EXCEPT !.todo = Tail(@)]) /\ job[t].pc = "item"
      BY <2>4 DEF PassOver, At
    <3>2. [job[t] EXCEPT !.todo = Tail(@)].pc = "item"
      BY <3>1 DEF IInv, Shapes, JobMade, JobFields
    <3>3. QED
      BY <3>1, <3>2 DEF Moves
  <2>5. CASE TakeItem(t)
    <3> DEFINE j == [job[t] EXCEPT !.pc = "copy", !.touched = IF LooksFirst(t) THEN {} ELSE @]
    <3>1. Moves(t, j)
      BY <2>5 DEF TakeItem
    <3>2. j.pc = "copy"
      BY DEF IInv, Shapes, JobMade, JobFields
    <3>3. QED
      BY <3>1, <3>2 DEF Moves
  <2>6. CASE RefuseDuplicate(t) \/ Unreadable(t) \/ EndJob(t) \/ Duplicate(t) \/ AssignRefused(t)
    <3>1. Goes(t, Idle) /\ UNCHANGED <<setup, rules, graph, accepted, mixed>>
      BY <2>6 DEF RefuseDuplicate, Unreadable, EndJob, Duplicate, AssignRefused, Fails, Ends, Stops
    <3>2. Idle.pc = "idle"
      BY DEF Idle
    <3>3. QED
      BY <3>1, <3>2
  <2>7. QED
    BY <2>1, <2>2, <2>3, <2>4, <2>5, <2>6 DEF Register
<1>2. QED
  BY <1>1, QuietOpens

LEMMA ResolveOpens ==
  ASSUME IInv, CycleInv, NEW t \in Threads, Resolve(t)
  PROVE  CycleInv'
<1>1. /\ UNCHANGED <<setup, rules, graph, accepted, mixed>>
      /\ \E j : Goes(t, j) /\ j.pc \notin {"graph", "check", "undo", "undo graph"}
  <2>1. CASE Get(t)
    <3> DEFINE i == [Idle EXCEPT !.pc = "find", !.before = [rules |-> rules, cached |-> cached],
             !.paths = <<[path |-> <<Current(t).key>>, back |-> FALSE, single |-> FALSE, raises |-> FALSE]>>]
               j == [i EXCEPT !.alone = \A u \in Threads \ {t} : job[u].pc = "idle"]
    <3>1. Goes(t, j) /\ UNCHANGED <<setup, rules, graph, accepted, mixed>>
      BY <2>1 DEF Get, Starts, Moves
    <3>2. j.pc = "find"
      BY DEF Idle
    <3>3. QED
      BY <3>1, <3>2
  <2>2. CASE Hit(t) \/ Build(t)
    <3> DEFINE j == IF Hit(t) THEN [job[t] EXCEPT !.paths = Tail(@), !.tried = FALSE]
                    ELSE [job[t] EXCEPT !.paths = Tail(@)]
    <3>1. Goes(t, j) /\ job[t].pc = "find" /\ UNCHANGED <<setup, rules, graph, accepted, mixed>>
      BY <2>2 DEF Hit, Build, StoreResult, Calling, Looking, At, Moves
    <3>2. j.pc = "find"
      BY <3>1 DEF IInv, Shapes, JobMade, JobFields
    <3>3. QED
      BY <3>1, <3>2
  <2>3. CASE Find(t) \/ Collect(t)
    <3>1. job[t].pc = "find" /\ \E deps, single, raises : Descends(t, deps, single, raises)
      BY <2>3 DEF Find, Collect, Missing, Looking, At
    <3>2. PICK deps, single, raises : Descends(t, deps, single, raises)
      BY <3>1
    <3> DEFINE j == [job[t] EXCEPT !.tried = FALSE, !.paths =
          [n \in DOMAIN deps |-> [path |-> Append(Path(t), deps[n]), back |-> FALSE, single |-> FALSE, raises |-> FALSE]]
            \o <<[path |-> Path(t), back |-> TRUE, single |-> single, raises |-> raises]>> \o Tail(@)]
    <3>3. Goes(t, j) /\ UNCHANGED <<setup, rules, graph, accepted, mixed>>
      BY <3>2 DEF Descends
    <3>4. j.pc = "find"
      BY <3>1 DEF IInv, Shapes, JobMade, JobFields
    <3>5. QED
      BY <3>3, <3>4
  <2>4. CASE MakeUp(t)
    <3> DEFINE j == [job[t] EXCEPT !.pc = "copy", !.todo = <<Wired(Wanted(t))>>, !.touched = {}]
    <3>1. Goes(t, j) /\ UNCHANGED <<setup, rules, graph, accepted, mixed>>
      BY <2>4 DEF MakeUp
    <3>2. j.pc = "copy"
      BY DEF IInv, Shapes, JobMade, JobFields
    <3>3. QED
      BY <3>1, <3>2
  <2>5. CASE MeetItself(t) \/ Ambiguous(t) \/ NotAnnotated(t) \/ NotFound(t) \/ FactoryRaises(t)
         \/ Return(t)
    <3>1. Goes(t, Idle) /\ UNCHANGED <<setup, rules, graph, accepted, mixed>>
      BY <2>5 DEF MeetItself, Ambiguous, NotAnnotated, NotFound, FactoryRaises, Calling, Return, Fails, Ends, Stops
    <3>2. Idle.pc = "idle"
      BY DEF Idle
    <3>3. QED
      BY <3>1, <3>2
  <2>6. QED
    BY <2>1, <2>2, <2>3, <2>4, <2>5 DEF Resolve
<1>2. QED
  BY <1>1, QuietOpens

LEMMA InitiallyOpen == Init => CycleInv
<1> SUFFICES ASSUME Init, setup.checked PROVE Open
  BY DEF CycleInv
<1>1. \A k \in Keys : ~CycleFrom(EdgesOf(graph, {i \in Keys : graph[i] # NoEntry}), k)
  BY SetupIs DEF Init, SetupShape
<1>2. \A k \in Keys : rules[k] # NoRule <=> graph[k] # NoEntry
  <2>1. \A k \in Keys : rules[k] = IF graph[k] = NoEntry THEN NoRule
                     ELSE RuleOf(graph[k], "given", FALSE, k \in setup.failing)
    BY DEF Init
  <2>2. \A k \in Keys : RuleOf(graph[k], "given", FALSE, k \in setup.failing) # NoRule
    <3>1. \A k \in Keys : RuleOf(graph[k], "given", FALSE, k \in setup.failing).by = "given"
      BY DEF RuleOf
    <3>2. NoRule.by = "nobody"
      BY DEF NoRule
    <3>3. QED
      BY <3>1, <3>2
  <2>3. QED
    BY <2>1, <2>2
<1>3. {i \in Keys : graph[i] # NoEntry} = {i \in Keys : rules[i] # NoRule}
  BY <1>2
<1>4. \A k \in Keys : ~CycleFrom(EdgesOf(graph, {i \in Keys : rules[i] # NoRule}), k)
  BY <1>1, <1>3
<1>5. CyclesOpen
  <2> SUFFICES ASSUME NEW C \in SUBSET Keys, Core(C, rules, graph) PROVE FALSE
    BY DEF CyclesOpen
  <2>1. PICK k \in C : TRUE
    BY DEF Core
  <2>2. CycleFrom(EdgesOf(graph, {i \in Keys : rules[i] # NoRule}), k)
    BY <2>1, CyclesAreCores
  <2>3. QED
    BY <1>4, <2>2
<1>6. \A t \in Threads : job[t].pc = "idle"
  BY DEF Init, Idle
<1>7. QED
  BY <1>5, <1>6 DEF Open, EdgesWait, RefusedForCause, CopiesOpen, Uncrossed, Writing

LEMMA OpenAlways == Spec => []CycleInv
<1>1. IInv /\ TypeInv /\ CycleInv /\ [Next]_vars => CycleInv'
  <2> SUFFICES ASSUME IInv, TypeInv, CycleInv, [Next]_vars PROVE CycleInv'
    OBVIOUS
  <2>1. CASE ChangeSource \/ UNCHANGED vars
    <3>1. UNCHANGED <<setup, rules, graph, job, accepted, mixed>>
      BY <2>1 DEF ChangeSource, vars
    <3>2. CyclesOpen => CyclesOpen'
      BY <3>1 DEF CyclesOpen, Unsettled, GraphOf
    <3>3. ASSUME NEW t \in Threads, EdgesWait(t) /\ RefusedForCause(t) /\ CopiesOpen(t)
          PROVE  EdgesWait(t)' /\ RefusedForCause(t)' /\ CopiesOpen(t)'
      BY <3>1, <3>3 DEF EdgesWait, RefusedForCause, CopiesOpen, Uncrossed, Leads, Unsettled, GraphOf,
                        Writing, KeyOf, Item
    <3>4. QED
      BY <3>1, <3>2, <3>3 DEF CycleInv, Open
  <2>2. ASSUME NEW t \in Threads, Add(t) PROVE CycleInv'
    <3>1. CASE CopyMap(t) \/ CopyGraph(t)
      <4> DEFINE j == IF CopyMap(t)
                      THEN [job[t] EXCEPT !.pc = "copy graph", !.oldRules = rules, !.crossed = FALSE]
                      ELSE [job[t] EXCEPT !.pc = "map", !.oldGraph = graph]
      <4>1. Goes(t, j) /\ UNCHANGED <<setup, rules, graph, accepted, mixed>>
        BY <3>1 DEF CopyMap, CopyGraph, Moves
      <4>2. j.pc \in {"copy graph", "map"}
        BY DEF IInv, Shapes, JobMade, JobFields
      <4> HIDE DEF j
      <4>3. QED
        BY <4>1, <4>2, QuietOpens
    <3>2. QED
      BY <2>2, <3>1, WriteMapOpens, WriteGraphOpens, AcceptOpens, RefuseOpens, UndoMapOpens,
         UndoGraphOpens DEF Add
  <2>3. QED
    BY <2>1, <2>2, RegisterOpens, ResolveOpens DEF Next
<1>2. QED
  BY RegistrationInvariance, TypedAlways, InitiallyOpen, <1>1, PTL DEF Spec

\* When nobody is adding a rule, and no add was taken back while another wrote,
\* the rules have no cycle, however many threads registered at once without a
\* lock.  (RuleSet.add, with check_cycles_on_register.)
THEOREM NoCycleIsLeft == Spec => []AcyclicRules
<1>1. IInv /\ CycleInv => AcyclicRules
  <2> SUFFICES ASSUME IInv, CycleInv, setup.checked, ~mixed, \A k \in Keys : ~InAdd(k),
                      NEW k \in Keys, CycleFrom(Edges, k)
               PROVE  FALSE
    BY DEF AcyclicRules
  <2>1. PICK C \in SUBSET Keys : Core(C, rules, graph)
    BY CyclesAreCores DEF Edges, Known
  <2>2. PICK i \in C : Unsettled(i)
    BY <2>1 DEF CycleInv, Open, CyclesOpen
  <2>3. PICK t \in Threads : Writing(t) /\ KeyOf(t) = i
    BY <2>2 DEF IInv, Exact, Settled, Unsettled
  <2>4. InAdd(i)
    BY <2>3 DEF InAdd, Writing, Adding, KeyOf
  <2>5. QED
    BY <2>4
<1>2. QED
  BY RegistrationInvariance, OpenAlways, <1>1, PTL

-----------------------------------------------------------------------------
(* What is reachable, for GetExact *)

\* Edges among keys.
EdgeMap(E) == DOMAIN E \subseteq Keys /\ \A i \in DOMAIN E : E[i] \subseteq Keys
Round(E, S) == S \cup UNION {E[i] : i \in S \cap DOMAIN E}
ClosedIn(E, S) == \A i \in S \cap DOMAIN E : E[i] \subseteq S

LEMMA RoundIs ==
  ASSUME NEW E, EdgeMap(E), NEW S \in SUBSET Keys
  PROVE  /\ S \subseteq Round(E, S) /\ Round(E, S) \subseteq Keys
         /\ ClosedIn(E, S) => Round(E, S) = S
         /\ \/ ClosedIn(E, S)
            \/ Cardinality(Round(E, S)) >= Cardinality(S) + 1
         /\ \A U : S \subseteq U /\ ClosedIn(E, U) => Round(E, S) \subseteq U
<1>1. S \subseteq Round(E, S) /\ Round(E, S) \subseteq Keys
  BY DEF Round, EdgeMap
<1>2. ClosedIn(E, S) => Round(E, S) = S
  BY DEF Round, ClosedIn
<1>3. ASSUME ~ClosedIn(E, S) PROVE Cardinality(Round(E, S)) >= Cardinality(S) + 1
  <2>1. S # Round(E, S)
    BY <1>3 DEF Round, ClosedIn
  <2>2. IsFiniteSet(Round(E, S)) /\ Cardinality(Round(E, S)) \in Nat
    BY <1>1, KeysAssumption, FS_Subset, FS_CardinalityType
  <2>3. Cardinality(S) <= Cardinality(Round(E, S)) /\ Cardinality(S) # Cardinality(Round(E, S))
    BY <1>1, <2>1, <2>2, FS_Subset
  <2>4. Cardinality(S) \in Nat
    BY <1>1, <2>2, FS_Subset, FS_CardinalityType
  <2>5. QED
    BY <2>2, <2>3, <2>4
<1>4. \A U : S \subseteq U /\ ClosedIn(E, U) => Round(E, S) \subseteq U
  BY DEF Round, ClosedIn
<1>5. QED
  BY <1>1, <1>2, <1>3, <1>4

\* What is reachable is the least closed set with the key: in as many rounds as
\* there are keys, a round adds nothing.
LEMMA ReachIs ==
  ASSUME NEW E, EdgeMap(E), NEW k \in Keys
  PROVE  /\ k \in ReachFrom(E, k) /\ ReachFrom(E, k) \subseteq Keys
         /\ ClosedIn(E, ReachFrom(E, k))
         /\ \A S \in SUBSET Keys : k \in S /\ ClosedIn(E, S) => ReachFrom(E, k) \subseteq S
<1> DEFINE N == Cardinality(Keys)
           W == CHOOSE h : h = [n \in 0..N |-> IF n = 0 THEN {k}
                                  ELSE h[n - 1] \cup UNION {E[i] : i \in h[n - 1] \cap DOMAIN E}]
           Q == SUBSET Keys
           F == [n \in 1..N |-> [S \in Q |-> Round(E, S)]]
           a == {k}
<1>1. N \in Nat
  BY KeysAssumption, FS_CardinalityType
<1>2. ReachFrom(E, k) = W[N]
  BY DEF ReachFrom
<1>3. a \in Q /\ F \in [1..N -> [Q -> Q]]
  BY RoundIs
<1>4. \A n \in 1..N, S \in Q : F[n][S] = Round(E, S)
  OBVIOUS
<1> HIDE DEF F, N, Q, a
<1>5. PICK f \in [0..N -> Q] : f[0] = a /\ \A n \in 1..N : f[n] = F[n][f[n - 1]]
  <2>1. \E f : Runs(Q, a, N, F, f)
    BY <1>1, <1>3, Iterated
  <2>2. QED
    BY <2>1 DEF Runs
<1>6. \A n \in 0..N : n # 0 => n \in 1..N /\ n - 1 \in 0..N
  BY <1>1
<1>7. f = [n \in 0..N |-> IF n = 0 THEN {k}
                          ELSE f[n - 1] \cup UNION {E[i] : i \in f[n - 1] \cap DOMAIN E}]
  BY <1>4, <1>5, <1>6 DEF Round, a
<1>8. W = [n \in 0..N |-> IF n = 0 THEN {k}
                          ELSE W[n - 1] \cup UNION {E[i] : i \in W[n - 1] \cap DOMAIN E}]
  BY <1>7
<1> HIDE DEF W
<1>9. W[0] = {k} /\ \A n \in 1..N : W[n] = Round(E, W[n - 1])
  <2>1. 0 \in 0..N /\ \A n \in 1..N : n \in 0..N /\ n # 0
    BY <1>1
  <2>2. QED
    BY <1>8, <2>1 DEF Round
<1> DEFINE Good(n) == /\ k \in W[n] /\ W[n] \subseteq Keys
                      /\ ClosedIn(E, W[n]) \/ Cardinality(W[n]) >= n + 1
                      /\ \A S \in SUBSET Keys : k \in S /\ ClosedIn(E, S) => W[n] \subseteq S
           G == {n \in 0..N : Good(n)}
<1>10. 0 \in G
  <2>1. 0 \in 0..N /\ W[0] = {k}
    BY <1>1, <1>9
  <2>2. Cardinality(W[0]) >= 0 + 1
    <3>1. Cardinality(W[0]) = 1
      BY <2>1, FS_Singleton
    <3>2. QED
      BY <3>1
  <2>3. Good(0)
    BY <2>1, <2>2
  <2>4. QED
    BY <2>1, <2>3
<1>11. ASSUME NEW n \in 1..N, n - 1 \in G PROVE n \in G
  <2>1. Good(n - 1) /\ W[n] = Round(E, W[n - 1]) /\ n \in 0..N
    BY <1>1, <1>9, <1>11
  <2> DEFINE S == W[n - 1]
  <2>2. S \in SUBSET Keys /\ k \in S
    BY <2>1
  <2>3. /\ S \subseteq W[n] /\ W[n] \subseteq Keys
        /\ ClosedIn(E, S) => W[n] = S
        /\ ClosedIn(E, S) \/ Cardinality(W[n]) >= Cardinality(S) + 1
        /\ \A U : S \subseteq U /\ ClosedIn(E, U) => W[n] \subseteq U
    BY <2>1, RoundIs
  <2>4. Cardinality(S) \in Nat /\ Cardinality(W[n]) \in Nat
    BY <2>2, <2>3, KeysAssumption, FS_Subset, FS_CardinalityType
  <2>5. \A U \in SUBSET Keys : k \in U /\ ClosedIn(E, U) => W[n] \subseteq U
    BY <2>1, <2>3
  <2>6. ClosedIn(E, S) \/ Cardinality(S) >= n
    BY <2>1
  <2> HIDE DEF S
  <2>7. ClosedIn(E, W[n]) \/ Cardinality(W[n]) >= n + 1
    <3>1. CASE ClosedIn(E, S)
      BY <2>3, <3>1
    <3>2. CASE ~ClosedIn(E, S)
      BY <2>3, <2>4, <2>6, <3>2
    <3>3. QED
      BY <3>1, <3>2
  <2>8. QED
    BY <2>1, <2>2, <2>3, <2>5, <2>7
<1> HIDE DEF G
<1>12. \A n \in 1..N : n - 1 \in G => n \in G
  BY <1>11
<1>13. \A n \in 0..N : n \in G
  BY <1>1, <1>10, <1>12, UpTo
<1>14. Good(N)
  BY <1>1, <1>13 DEF G
<1>15. ~(Cardinality(W[N]) >= N + 1)
  <2>1. Cardinality(W[N]) <= N /\ Cardinality(W[N]) \in Nat
    BY <1>14, KeysAssumption, FS_Subset, FS_CardinalityType DEF N
  <2>2. QED
    BY <1>1, <2>1
<1>16. QED
  BY <1>2, <1>14, <1>15

-----------------------------------------------------------------------------
(* What a get has settled *)

Begin == [rules : RulesMap, cached : SUBSET Keys]
\* k can be made, and so can all that it needs.
Fine(b, r, k) ==
  ~CycleFrom(Start(b), k) /\ \A j \in ReachFrom(Start(b), k) \ b.cached : Buildable(r, j)

LEMMA SetupHas ==
  ASSUME SetupShape(setup), NEW k \in Keys
  PROVE  /\ setup.annotated[k] \in Seq(Keys) /\ ToSet(setup.annotated[k]) \subseteq Keys
         /\ setup.members[k] \subseteq Keys /\ setup.kind[k] \in Kinds
<1>1. setup.annotated[k] \in Seq(Keys) /\ setup.members[k] \subseteq Keys /\ setup.kind[k] \in Kinds
  BY DEF SetupShape
<1>2. QED
  BY <1>1 DEF ToSet

LEMMA NeedsAre ==
  ASSUME SetupShape(setup), NEW r \in RulesMap, NEW k \in Keys
  PROVE  NeedsOf(r, k) \subseteq Keys
<1>1. CASE r[k] # NoRule
  <2>1. r[k] \in Rule
    BY <1>1 DEF RulesMap
  <2>2. r[k].deps \in Seq(Keys)
    BY <2>1 DEF Rule
  <2>3. ToSet(r[k].deps) \subseteq Keys
    <3> DEFINE s == r[k].deps
    <3>1. s \in Seq(Keys)
      BY <2>2
    <3> HIDE DEF s
    <3>2. ToSet(s) \subseteq Keys
      BY <3>1 DEF ToSet
    <3>3. QED
      BY <3>2 DEF s
  <2>4. QED
    BY <1>1, <2>3 DEF NeedsOf
<1>2. CASE r[k] = NoRule
  BY <1>2, SetupHas DEF NeedsOf
<1>3. QED
  BY <1>1, <1>2

LEMMA StartIs ==
  ASSUME SetupShape(setup), NEW b \in Begin
  PROVE  /\ b.rules \in RulesMap /\ b.cached \in SUBSET Keys
         /\ EdgeMap(Start(b)) /\ DOMAIN Start(b) = Keys \ b.cached
         /\ \A k \in Keys \ b.cached : Start(b)[k] = NeedsOf(b.rules, k)
<1>1. b.rules \in RulesMap /\ b.cached \in SUBSET Keys
  BY DEF Begin
<1>2. \A k \in Keys \ b.cached : NeedsOf(b.rules, k) \subseteq Keys
  BY <1>1, NeedsAre
<1>3. QED
  BY <1>1, <1>2 DEF Start, EdgeMap

LEMMA FineKey ==
  ASSUME SetupShape(setup), NEW b \in Begin, NEW r, NEW k \in Keys, k \notin b.cached,
         Buildable(r, k), \A d \in NeedsOf(b.rules, k) : Fine(b, r, d)
  PROVE  Fine(b, r, k)
<1> DEFINE E == Start(b)
           R(d) == ReachFrom(E, d)
<1>1. /\ EdgeMap(E) /\ DOMAIN E = Keys \ b.cached /\ k \in DOMAIN E
      /\ E[k] = NeedsOf(b.rules, k) /\ E[k] \subseteq Keys
  BY StartIs DEF EdgeMap
<1>2. \A d \in E[k] : ~CycleFrom(E, d) /\ \A j \in R(d) \ b.cached : Buildable(r, j)
  BY <1>1 DEF Fine
<1> HIDE DEF E
<1>3. ~CycleFrom(E, k)
  BY <1>1, <1>2 DEF CycleFrom
<1>4. \A d \in E[k] : d \in R(d) /\ R(d) \subseteq Keys /\ ClosedIn(E, R(d))
  BY <1>1, ReachIs
<1> DEFINE S == {k} \cup UNION {R(d) : d \in E[k]}
<1>5. S \in SUBSET Keys /\ k \in S
  BY <1>4
<1>6. ASSUME NEW i \in S \cap DOMAIN E PROVE E[i] \subseteq S
  <2>1. CASE i = k
    BY <1>4, <2>1
  <2>2. CASE i # k
    <3>1. PICK d \in E[k] : i \in R(d)
      BY <2>2
    <3>2. E[i] \subseteq R(d)
      BY <1>4, <3>1 DEF ClosedIn
    <3>3. QED
      BY <3>2
  <2>3. QED
    BY <2>1, <2>2
<1>7. R(k) \subseteq S
  <2>1. ClosedIn(E, S)
    BY <1>6 DEF ClosedIn
  <2> HIDE DEF S
  <2>2. QED
    BY <1>1, <1>5, <2>1, ReachIs
<1>8. \A j \in R(k) \ b.cached : Buildable(r, j)
  BY <1>2, <1>7
<1>9. QED
  BY <1>3, <1>8 DEF Fine, E

\* An instance that was there needs nothing.
LEMMA FineCached ==
  ASSUME SetupShape(setup), NEW b \in Begin, NEW r, NEW k \in Keys, k \in b.cached
  PROVE  Fine(b, r, k)
<1> DEFINE E == Start(b)
<1>1. EdgeMap(E) /\ DOMAIN E = Keys \ b.cached
  BY StartIs
<1> HIDE DEF E
<1>2. ~CycleFrom(E, k)
  BY <1>1 DEF CycleFrom
<1>3. ReachFrom(E, k) \subseteq {k}
  <2>1. ClosedIn(E, {k})
    BY <1>1 DEF ClosedIn
  <2>2. QED
    BY <1>1, <2>1, ReachIs
<1>4. QED
  BY <1>2, <1>3 DEF Fine, E

-----------------------------------------------------------------------------
(* The branch a get is on *)

\* Rules were made up for what the get needs, and nothing else has changed.
Grown(b, r, root) ==
  \A k \in Keys : r[k] # b.rules[k] => r[k] = Wired(k).rule /\ MayMakeUp(b, root, k)
\* Each key of a path needs the next one, and none comes twice but the last.
OnPath(b, r, root, p) ==
  /\ p[1] = root
  /\ \A i \in 1..Len(p) - 1 : p[i + 1] \in NeedsOf(r, p[i]) /\ p[i] \notin b.cached
  /\ \A i, j \in 1..Len(p) - 1 : p[i] = p[j] => i = j
  /\ \A i \in 1..Len(p) : p[i] \in ReachFrom(Start(b), root)
\* What is built when its dependencies are there has a rule, whose factory may yet
\* raise, and each of them is fine or still to be resolved.
Waits(b, r, P, s) ==
  s.back =>
    /\ Last(s.path) \notin b.cached /\ Obtainable(r, Last(s.path))
    /\ s.raises = r[Last(s.path)].raises
    /\ \A d \in NeedsOf(b.rules, Last(s.path)) :
         Fine(b, r, d) \/ \E x \in ToSet(P) : x.path = Append(s.path, d)
\* Longer paths come first.
Falling(P) == \A i, j \in 1..Len(P) : i < j => Len(P[j].path) <= Len(P[i].path)
Branch(b, r, root, P, c) ==
  /\ Grown(b, r, root)
  /\ b.cached \subseteq c /\ \A k \in c : Fine(b, r, k)
  /\ Falling(P)
  /\ \A s \in ToSet(P) : OnPath(b, r, root, s.path) /\ Waits(b, r, P, s)
  /\ Fine(b, r, root) \/ \E s \in ToSet(P) : s.path = <<root>>
Sound(b, r, root, P, c) ==
  /\ SetupShape(setup) /\ b \in Begin /\ r \in RulesMap /\ root \in Keys /\ P \in Seq(Steps)
  /\ c \in SUBSET Keys
  /\ Branch(b, r, root, P, c)

LEMMA WiredIs ==
  ASSUME SetupShape(setup), NEW k \in Keys
  PROVE  /\ Wired(k).rule.deps = setup.annotated[k] /\ Wired(k).rule # NoRule
         /\ Wired(k).key = k /\ Wired(k).rule \in Rule
<1>1. Wired(k) = [key |-> k, rule |-> [deps |-> setup.annotated[k], by |-> "wired", single |-> TRUE, raises |-> k \in setup.failing]]
  BY DEF Wired, Entry, RuleOf
<1>2. setup.annotated[k] \in Seq(Keys)
  BY SetupHas
<1>3. [deps |-> setup.annotated[k], by |-> "wired", single |-> TRUE, raises |-> k \in setup.failing] # NoRule
  BY DEF NoRule
<1>4. QED
  BY <1>1, <1>2, <1>3 DEF Rule, Makers

\* What was needed from the start is needed now; what else is, a collection
\* found that had been made up.
LEMMA NeedsGrow ==
  ASSUME SetupShape(setup), NEW b \in Begin, NEW r \in RulesMap, NEW root, Grown(b, r, root),
         NEW k \in Keys
  PROVE  /\ NeedsOf(b.rules, k) \subseteq NeedsOf(r, k)
         /\ \A d \in NeedsOf(r, k) \ NeedsOf(b.rules, k) : MayMakeUp(b, root, d)
         /\ b.rules[k] # NoRule => r[k] = b.rules[k]
         /\ r[k] # NoRule => NeedsOf(r, k) = ToSet(r[k].deps)
<1>1. \A i \in Keys : b.rules[i] # NoRule => r[i] = b.rules[i]
  BY DEF Grown, MayMakeUp
<1>2. \A i \in Keys : r[i] # NoRule /\ b.rules[i] = NoRule => MayMakeUp(b, root, i)
  BY DEF Grown
<1>3. setup.members[k] \subseteq Keys
  BY SetupHas
<1>4. CASE r[k] # b.rules[k]
  <2>1. r[k] = Wired(k).rule /\ MayMakeUp(b, root, k)
    BY <1>4 DEF Grown
  <2>2. NeedsOf(r, k) = ToSet(setup.annotated[k])
    BY <2>1, WiredIs DEF NeedsOf
  <2>3. NeedsOf(b.rules, k) = ToSet(setup.annotated[k])
    BY <2>1 DEF MayMakeUp, NeedsOf
  <2>4. QED
    BY <1>1, <2>2, <2>3 DEF NeedsOf
<1>5. CASE r[k] = b.rules[k] /\ r[k] = NoRule /\ setup.kind[k] = "collection"
  BY <1>1, <1>2, <1>3, <1>5 DEF NeedsOf
<1>6. CASE r[k] = b.rules[k] /\ ~(r[k] = NoRule /\ setup.kind[k] = "collection")
  BY <1>6 DEF NeedsOf
<1>7. QED
  BY <1>4, <1>5, <1>6

\* What something on the way needs is on the way.
LEMMA NeededIsReached ==
  ASSUME SetupShape(setup), NEW b \in Begin, NEW r \in RulesMap, NEW root \in Keys,
         Grown(b, r, root), NEW k \in ReachFrom(Start(b), root), k \notin b.cached,
         NEW d \in NeedsOf(r, k)
  PROVE  d \in Keys /\ d \in ReachFrom(Start(b), root)
<1> DEFINE E == Start(b)
           R == ReachFrom(E, root)
<1>1. EdgeMap(E) /\ DOMAIN E = Keys \ b.cached /\ \A i \in Keys \ b.cached : E[i] = NeedsOf(b.rules, i)
  BY StartIs
<1>2. R \subseteq Keys /\ ClosedIn(E, R)
  BY <1>1, ReachIs
<1>3. k \in Keys /\ E[k] \subseteq R
  BY <1>1, <1>2 DEF ClosedIn
<1>4. d \in E[k] \/ d \in R
  BY <1>1, <1>3, NeedsGrow DEF MayMakeUp
<1>5. QED
  BY <1>2, <1>3, <1>4

\* A path and a key that its last one needs.
LEMMA PathGoesOn ==
  ASSUME SetupShape(setup), NEW b \in Begin, NEW r \in RulesMap, NEW root \in Keys,
         Grown(b, r, root), NEW p \in Seq(Keys) \ {<<>>}, OnPath(b, r, root, p),
         p[Len(p)] \notin b.cached, \A i \in 1..Len(p) - 1 : p[i] # p[Len(p)],
         NEW d \in NeedsOf(r, p[Len(p)])
  PROVE  OnPath(b, r, root, Append(p, d))
<1> DEFINE n == Len(p)
           q == Append(p, d)
<1>1. n \in Nat \ {0} /\ n \in 1..n /\ p[n] \in Keys
  BY LenProperties, EmptySeq, ElementOfSeq
<1>2. d \in Keys /\ d \in ReachFrom(Start(b), root)
  <2>1. p[n] \in ReachFrom(Start(b), root)
    BY <1>1 DEF OnPath
  <2>2. QED
    BY <2>1, NeededIsReached
<1>3. Len(q) = n + 1 /\ q[n + 1] = d /\ \A i \in 1..n : q[i] = p[i]
  BY <1>2, AppendProperties
<1>4. /\ p[1] = root
      /\ \A i \in 1..n - 1 : p[i + 1] \in NeedsOf(r, p[i]) /\ p[i] \notin b.cached
      /\ \A i, j \in 1..n - 1 : p[i] = p[j] => i = j
      /\ \A i \in 1..n : p[i] \in ReachFrom(Start(b), root)
      /\ \A i \in 1..n - 1 : p[i] # p[n]
      /\ p[n] \notin b.cached /\ d \in NeedsOf(r, p[n])
  BY DEF OnPath
<1> HIDE DEF n, q
<1>5. /\ \A i \in 1..n : i \in 1..n - 1 \/ i = n
      /\ \A i \in 1..n - 1 : i \in 1..n /\ i + 1 \in 1..n
      /\ \A i \in 1..n + 1 : i \in 1..n \/ i = n + 1
      /\ 1 \in 1..n /\ n + 1 - 1 = n
  BY <1>1
<1>6. q[1] = root
  BY <1>3, <1>4, <1>5
<1>7. ASSUME NEW i \in 1..n PROVE q[i + 1] \in NeedsOf(r, q[i]) /\ q[i] \notin b.cached
  BY <1>3, <1>4, <1>5
<1>8. \A i, j \in 1..n : q[i] = q[j] => i = j
  BY <1>3, <1>4, <1>5
<1>9. \A i \in 1..n + 1 : q[i] \in ReachFrom(Start(b), root)
  BY <1>2, <1>3, <1>4, <1>5
<1>10. OnPath(b, r, root, q)
  <2>1. Len(q) - 1 = n
    BY <1>1, <1>3
  <2>2. QED
    BY <1>3, <1>6, <1>7, <1>8, <1>9, <2>1 DEF OnPath
<1>11. QED
  BY <1>10 DEF q

-----------------------------------------------------------------------------
(* The steps a get still has to take *)

LEMMA FrontIs ==
  ASSUME NEW T, NEW p \in Seq(T) \ {<<>>}
  PROVE  /\ Last(p) = p[Len(p)] /\ Len(p) \in Nat \ {0} /\ Last(p) \in T
         /\ ToSet(Front(p)) = {p[i] : i \in 1..Len(p) - 1}
<1> DEFINE n == Len(p)
           f == Front(p)
<1>1. n \in Nat \ {0} /\ p[n] \in T
  BY LenProperties, EmptySeq, ElementOfSeq
<1>2. f = SubSeq(p, 1, n - 1)
  BY DEF Front
<1>3. \A i \in 1..n - 1 : i \in 1..n
  BY <1>1
<1>4. /\ f \in Seq(T) /\ Len(f) = IF 1 <= n - 1 THEN n - 1 - 1 + 1 ELSE 0
      /\ \A i \in 1..n - 1 - 1 + 1 : f[i] = p[1 + i - 1]
  BY <1>1, <1>2, <1>3, SubSeqProperties
<1> HIDE DEF n, f
<1>5. n - 1 - 1 + 1 = n - 1 /\ (IF 1 <= n - 1 THEN n - 1 - 1 + 1 ELSE 0) = n - 1
      /\ \A i \in 1..n - 1 : 1 + i - 1 = i
  BY <1>1
<1>6. Len(f) = n - 1 /\ \A i \in 1..n - 1 : f[i] = p[i]
  BY <1>4, <1>5
<1>7. DOMAIN f = 1..n - 1
  BY <1>4, <1>6, LenProperties
<1>8. ToSet(f) = {p[i] : i \in 1..n - 1}
  BY <1>6, <1>7 DEF ToSet
<1>9. QED
  BY <1>1, <1>8 DEF Last, n, f

LEMMA StepPath ==
  ASSUME NEW s \in Steps
  PROVE  s.path \in Seq(Keys) \ {<<>>} /\ Len(s.path) \in Nat \ {0} /\ Last(s.path) \in Keys
         /\ s.back \in BOOLEAN
<1>1. s.path \in Seq(Keys) \ {<<>>} /\ s.back \in BOOLEAN
  BY DEF Steps
<1>2. QED
  BY <1>1, FrontIs

LEMMA HeadOff ==
  ASSUME NEW P \in Seq(Steps), P # <<>>
  PROVE  /\ Head(P) \in Steps /\ Tail(P) \in Seq(Steps) /\ Head(P) = P[1] /\ 1 \in 1..Len(P)
         /\ ToSet(P) = ToSet(Tail(P)) \cup {Head(P)}
         /\ Falling(P) => Falling(Tail(P))
         /\ Falling(P) => \A s \in ToSet(P) : Len(s.path) <= Len(Head(P).path)
<1> DEFINE n == Len(P)
           r == Tail(P)
           x == Head(P)
<1>1. n \in Nat \ {0} /\ DOMAIN P = 1..n /\ \A i \in 1..n : P[i] \in Steps
  BY LenProperties, EmptySeq, ElementOfSeq
<1>2. x = P[1] /\ r \in Seq(Steps) /\ Len(r) = n - 1 /\ \A i \in 1..n - 1 : r[i] = P[i + 1]
  BY HeadTailProperties
<1>3. DOMAIN r = 1..n - 1
  BY <1>2, LenProperties
<1>4. \A i \in 1..n : Len(P[i].path) \in Nat
  BY <1>1, StepPath
<1> HIDE DEF n, r, x
<1>5. 1 \in 1..n /\ \A i \in 1..n - 1 : i + 1 \in 1..n
  BY <1>1
<1>6. ToSet(P) = ToSet(r) \cup {x}
  <2>1. ToSet(r) \cup {x} \subseteq ToSet(P)
    BY <1>1, <1>2, <1>3, <1>5 DEF ToSet
  <2>2. ASSUME NEW i \in 1..n PROVE P[i] \in ToSet(r) \cup {x}
    <3>1. CASE i = 1
      BY <1>2, <3>1
    <3>2. CASE i # 1
      <4> DEFINE j == i - 1
      <4>1. j \in 1..n - 1 /\ i = j + 1
        BY <1>1, <3>2
      <4> HIDE DEF j
      <4>2. P[i] = r[j]
        BY <1>2, <4>1
      <4>3. QED
        BY <1>3, <4>1, <4>2 DEF ToSet
    <3>3. QED
      BY <3>1, <3>2
  <2>3. QED
    BY <1>1, <2>1, <2>2 DEF ToSet
<1>7. ASSUME Falling(P) PROVE Falling(r)
  <2>1. \A i, j \in 1..n : i < j => Len(P[j].path) <= Len(P[i].path)
    BY <1>7 DEF Falling, n
  <2>2. ASSUME NEW i \in 1..n - 1, NEW j \in 1..n - 1, i < j
        PROVE  Len(r[j].path) <= Len(r[i].path)
    <3> DEFINE a == i + 1
               d == j + 1
    <3>1. a \in 1..n /\ d \in 1..n /\ a < d /\ r[i] = P[a] /\ r[j] = P[d]
      BY <1>1, <1>2, <2>2
    <3> HIDE DEF a, d
    <3>2. QED
      BY <2>1, <3>1
  <2>3. QED
    BY <1>2, <2>2 DEF Falling
<1>8. ASSUME Falling(P), NEW i \in 1..n PROVE Len(P[i].path) <= Len(x.path)
  <2>1. i = 1 \/ 1 < i
    BY <1>1
  <2>2. CASE i = 1
    BY <1>2, <1>4, <2>2
  <2>3. CASE 1 < i
    BY <1>2, <1>5, <1>8, <2>3 DEF Falling, n
  <2>4. QED
    BY <2>1, <2>2, <2>3
<1>9. Falling(P) => \A s \in ToSet(P) : Len(s.path) <= Len(x.path)
  BY <1>1, <1>8 DEF ToSet
<1>10. x \in Steps
  BY <1>1, <1>2, <1>5
<1>11. QED
  BY <1>2, <1>5, <1>6, <1>7, <1>9, <1>10 DEF n, r, x

LEMMA FallingJoined ==
  ASSUME NEW A \in Seq(Steps), NEW B \in Seq(Steps), NEW R, Joined(R, A, B),
         Falling(A), Falling(B), NEW l \in Nat,
         \A s \in ToSet(A) : l <= Len(s.path), \A s \in ToSet(B) : Len(s.path) <= l
  PROVE  Falling(R)
<1> DEFINE m == Len(A)
           n == Len(B)
<1>1. /\ m \in Nat /\ DOMAIN A = 1..m /\ n \in Nat /\ DOMAIN B = 1..n
      /\ (\A i \in 1..m : A[i] \in Steps) /\ (\A i \in 1..n : B[i] \in Steps)
  BY LenProperties, ElementOfSeq
<1>2. /\ Len(R) = m + n
      /\ \A i \in 1..m + n : R[i] = IF i <= m THEN A[i] ELSE B[i - m]
  BY ConcatProperties DEF Joined
<1>3. /\ \A i, j \in 1..m : i < j => Len(A[j].path) <= Len(A[i].path)
      /\ \A i, j \in 1..n : i < j => Len(B[j].path) <= Len(B[i].path)
  BY DEF Falling
<1>4. \A i \in 1..m : l <= Len(A[i].path) /\ Len(A[i].path) \in Nat
  <2>1. \A i \in 1..m : A[i] \in ToSet(A) /\ A[i] \in Steps
    BY <1>1 DEF ToSet
  <2>2. QED
    BY <2>1, StepPath
<1>5. \A i \in 1..n : Len(B[i].path) <= l /\ Len(B[i].path) \in Nat
  <2>1. \A i \in 1..n : B[i] \in ToSet(B) /\ B[i] \in Steps
    BY <1>1 DEF ToSet
  <2>2. QED
    BY <2>1, StepPath
<1> HIDE DEF m, n
<1>6. ASSUME NEW i \in 1..m + n, NEW j \in 1..m + n, i < j PROVE Len(R[j].path) <= Len(R[i].path)
  <2>1. CASE j <= m
    <3>1. i \in 1..m /\ j \in 1..m /\ R[i] = A[i] /\ R[j] = A[j]
      BY <1>1, <1>2, <1>6, <2>1
    <3>2. QED
      BY <1>3, <1>6, <3>1
  <2>2. CASE i <= m /\ ~(j <= m)
    <3> DEFINE d == j - m
    <3>1. i \in 1..m /\ R[i] = A[i] /\ d \in 1..n /\ R[j] = B[d]
      BY <1>1, <1>2, <1>6, <2>2
    <3> HIDE DEF d
    <3>2. Len(B[d].path) <= l /\ l <= Len(A[i].path) /\ Len(B[d].path) \in Nat /\ Len(A[i].path) \in Nat
      BY <1>4, <1>5, <3>1
    <3> DEFINE x == Len(B[d].path)
               y == Len(A[i].path)
    <3> HIDE DEF x, y
    <3>3. x <= y
      BY <3>2 DEF x, y
    <3>4. QED
      BY <3>1, <3>3 DEF x, y
  <2>3. CASE ~(i <= m)
    <3> DEFINE a == i - m
               d == j - m
    <3>1. a \in 1..n /\ R[i] = B[a] /\ d \in 1..n /\ R[j] = B[d] /\ a < d
      BY <1>1, <1>2, <1>6, <2>3
    <3> HIDE DEF a, d
    <3>2. QED
      BY <1>3, <3>1
  <2>4. QED
    BY <1>1, <2>1, <2>2, <2>3
<1>7. QED
  BY <1>2, <1>6 DEF Falling

-----------------------------------------------------------------------------
(* What a get's steps do to its branch *)

\* A key is resolved: whoever waits for it has one dependency less to wait for.
LEMMA BranchReturns ==
  ASSUME NEW b, NEW r, NEW root, NEW P, NEW c, Sound(b, r, root, P, c), P # <<>>,
         Fine(b, r, Last(Head(P).path)),
         NEW e \in SUBSET Keys, c \subseteq e, e \subseteq c \cup {Last(Head(P).path)}
  PROVE  Sound(b, r, root, Tail(P), e)
<1> DEFINE h == Head(P)
           Q == Tail(P)
<1>1. /\ SetupShape(setup) /\ b \in Begin /\ r \in RulesMap /\ root \in Keys /\ P \in Seq(Steps)
      /\ Branch(b, r, root, P, c)
  BY DEF Sound
<1>2. /\ h \in Steps /\ Q \in Seq(Steps) /\ ToSet(P) = ToSet(Q) \cup {h} /\ Falling(Q)
  BY <1>1, HeadOff DEF Branch
<1>3. Fine(b, r, Last(h.path))
  OBVIOUS
<1>4. \A k \in e : Fine(b, r, k)
  BY <1>1 DEF Branch
<1>5. ToSet(Q) \subseteq Steps
  BY <1>2, ElementOfSeq DEF ToSet
<1> HIDE DEF h, Q
<1>6. ASSUME NEW s \in ToSet(Q) PROVE OnPath(b, r, root, s.path) /\ Waits(b, r, Q, s)
  <2>1. OnPath(b, r, root, s.path) /\ Waits(b, r, P, s)
    BY <1>1, <1>2 DEF Branch
  <2>2. ASSUME s.back, NEW d \in NeedsOf(b.rules, Last(s.path))
        PROVE  Fine(b, r, d) \/ \E x \in ToSet(Q) : x.path = Append(s.path, d)
    <3>1. CASE h.path = Append(s.path, d)
      <4>1. s.path \in Seq(Keys) \ {<<>>} /\ Last(s.path) \in Keys
        BY <1>5, StepPath
      <4>2. d \in Keys
        BY <1>1, <4>1, NeedsAre DEF Begin
      <4> DEFINE p == s.path
                 q == Append(p, d)
      <4>3. q \in Seq(Keys) /\ Len(q) = Len(p) + 1 /\ q[Len(p) + 1] = d
        BY <4>1, <4>2, AppendProperties
      <4>4. Last(q) = d
        BY <4>3 DEF Last
      <4> HIDE DEF q
      <4>5. QED
        BY <1>3, <3>1, <4>4 DEF q
    <3>2. CASE h.path # Append(s.path, d)
      BY <1>2, <2>1, <2>2, <3>2 DEF Waits
    <3>3. QED
      BY <3>1, <3>2
  <2>3. QED
    BY <2>1, <2>2 DEF Waits
<1>7. Fine(b, r, root) \/ \E s \in ToSet(Q) : s.path = <<root>>
  <2>1. Last(<<root>>) = root
    BY DEF Last
  <2>2. QED
    BY <1>1, <1>2, <1>3, <2>1 DEF Branch
<1>8. Branch(b, r, root, Q, e)
  BY <1>1, <1>2, <1>4, <1>6, <1>7 DEF Branch
<1>9. QED
  BY <1>1, <1>2, <1>8 DEF Sound, Q

\* Nothing longer is left: all that the key needs is fine, and so is the key.
LEMMA BuiltIsFine ==
  ASSUME NEW b, NEW r, NEW root, NEW P, NEW c, Sound(b, r, root, P, c), P # <<>>, Head(P).back,
         ~Head(P).raises
  PROVE  Fine(b, r, Last(Head(P).path))
<1> DEFINE h == Head(P)
           k == Last(h.path)
<1>1. /\ SetupShape(setup) /\ b \in Begin /\ P \in Seq(Steps) /\ Branch(b, r, root, P, c)
  BY DEF Sound
<1>2. h \in Steps /\ h \in ToSet(P) /\ \A s \in ToSet(P) : Len(s.path) <= Len(h.path)
  BY <1>1, HeadOff DEF Branch
<1>3. k \in Keys /\ h.path \in Seq(Keys) /\ Len(h.path) \in Nat
  BY <1>2, StepPath
<1>4. Waits(b, r, P, h) /\ h.back /\ ~h.raises
  BY <1>1, <1>2 DEF Branch
<1> HIDE DEF h
<1>5. ASSUME NEW d \in NeedsOf(b.rules, k) PROVE Fine(b, r, d)
  <2>1. d \in Keys
    BY <1>1, <1>3, NeedsAre DEF Begin
  <2>2. ASSUME NEW x \in ToSet(P), x.path = Append(h.path, d) PROVE FALSE
    <3>1. Len(x.path) = Len(h.path) + 1
      BY <1>3, <2>1, <2>2, AppendProperties
    <3>2. Len(x.path) <= Len(h.path)
      BY <1>2
    <3> DEFINE m == Len(h.path)
               n == Len(x.path)
    <3>3. m \in Nat /\ n = m + 1 /\ n <= m
      BY <1>3, <3>1, <3>2
    <3> HIDE DEF m, n
    <3>4. QED
      BY <3>3
  <2>3. QED
    BY <1>4, <2>2 DEF Waits
<1>6. k \notin b.cached /\ Buildable(r, k)
  BY <1>4 DEF Waits, Buildable
<1>7. QED
  BY <1>1, <1>3, <1>5, <1>6, FineKey DEF h

\* The paths of a key's dependencies and the return to it.
Downs(p, deps) ==
  [i \in DOMAIN deps |-> [path |-> Append(p, deps[i]), back |-> FALSE, single |-> FALSE, raises |-> FALSE]]
Up(p, single, raises) == [path |-> p, back |-> TRUE, single |-> single, raises |-> raises]

LEMMA DownsAre ==
  ASSUME NEW p \in Seq(Keys) \ {<<>>}, NEW deps \in Seq(Keys), NEW single \in BOOLEAN,
         NEW raises \in BOOLEAN
  PROVE  /\ Downs(p, deps) \in Seq(Steps) /\ Up(p, single, raises) \in Steps
         /\ \A s \in ToSet(Downs(p, deps)) : /\ s.back = FALSE /\ Len(s.path) = Len(p) + 1
                                             /\ \E d \in ToSet(deps) : s.path = Append(p, d)
         /\ \A d \in ToSet(deps) : \E s \in ToSet(Downs(p, deps)) : s.path = Append(p, d)
         /\ Falling(Downs(p, deps))
<1> DEFINE D == Downs(p, deps)
           m == Len(deps)
<1>1. m \in Nat /\ DOMAIN deps = 1..m /\ \A i \in 1..m : deps[i] \in Keys
  BY LenProperties, ElementOfSeq
<1>2. \A i \in 1..m : /\ D[i] = [path |-> Append(p, deps[i]), back |-> FALSE, single |-> FALSE, raises |-> FALSE]
                      /\ D[i].path = Append(p, deps[i]) /\ D[i].back = FALSE
  BY <1>1 DEF Downs
<1>3. \A i \in 1..m : Append(p, deps[i]) \in Seq(Keys) /\ Append(p, deps[i]) # <<>>
                      /\ Len(Append(p, deps[i])) = Len(p) + 1
  BY <1>1, AppendProperties
<1>4. D = [i \in 1..m |-> D[i]]
  BY <1>1 DEF Downs
<1> HIDE DEF D, m
<1>5. ASSUME NEW i \in 1..m PROVE D[i] \in Steps /\ Len(D[i].path) = Len(p) + 1
  <2> DEFINE q == Append(p, deps[i])
  <2>1. q \in Seq(Keys) \ {<<>>} /\ D[i] = [path |-> q, back |-> FALSE, single |-> FALSE, raises |-> FALSE]
        /\ Len(q) = Len(p) + 1
    BY <1>2, <1>3
  <2> HIDE DEF q
  <2>2. QED
    BY <2>1 DEF Steps
<1>6. D \in Seq(Steps)
  BY <1>1, <1>4, <1>5, MapTyped
<1>7. DOMAIN D = 1..m /\ Len(D) = m
  BY <1>1, <1>4, <1>6, LenProperties
<1>8. ToSet(D) = {D[i] : i \in 1..m} /\ ToSet(deps) = {deps[i] : i \in 1..m}
  BY <1>1, <1>7 DEF ToSet
<1>9. \A i, j \in 1..m : Len(D[i].path) <= Len(D[j].path)
  <2> DEFINE l == Len(p) + 1
  <2>1. l \in Nat /\ \A i \in 1..m : Len(D[i].path) = l
    BY <1>5, LenProperties
  <2> HIDE DEF l
  <2>2. QED
    BY <2>1
<1>10. Falling(D)
  BY <1>7, <1>9 DEF Falling
<1>11. Up(p, single, raises) \in Steps
  BY DEF Up, Steps
<1>12. ASSUME NEW s \in ToSet(D)
       PROVE  /\ s.back = FALSE /\ Len(s.path) = Len(p) + 1
              /\ \E d \in ToSet(deps) : s.path = Append(p, d)
  <2>1. PICK i \in 1..m : s = D[i]
    BY <1>8
  <2>2. s.back = FALSE /\ s.path = Append(p, deps[i]) /\ Len(s.path) = Len(p) + 1
    BY <1>2, <1>5, <2>1
  <2>3. deps[i] \in ToSet(deps)
    BY <1>8
  <2>4. QED
    BY <2>2, <2>3
<1>13. \A d \in ToSet(deps) : \E s \in ToSet(D) : s.path = Append(p, d)
  BY <1>2, <1>8
<1>14. QED
  BY <1>6, <1>10, <1>11, <1>12, <1>13 DEF D

LEMMA OneStep ==
  ASSUME NEW u \in Steps
  PROVE  <<u>> \in Seq(Steps) /\ ToSet(<<u>>) = {u} /\ Falling(<<u>>)
<1>1. Len(<<u>>) = 1 /\ DOMAIN <<u>> = {1} /\ <<u>>[1] = u
  OBVIOUS
<1>2. ToSet(<<u>>) = {u}
  BY <1>1 DEF ToSet
<1>3. Falling(<<u>>)
  BY <1>1 DEF Falling
<1>4. QED
  BY <1>2, <1>3

LEMMA DescentFalls ==
  ASSUME NEW p \in Seq(Keys) \ {<<>>}, NEW deps \in Seq(Keys), NEW single \in BOOLEAN,
         NEW raises \in BOOLEAN, NEW T \in Seq(Steps), Falling(T), \A s \in ToSet(T) : Len(s.path) <= Len(p)
  PROVE  LET Q == Downs(p, deps) \o <<Up(p, single, raises)>> \o T
         IN /\ Q \in Seq(Steps) /\ Falling(Q)
            /\ ToSet(Q) = ToSet(Downs(p, deps)) \cup {Up(p, single, raises)} \cup ToSet(T)
<1> DEFINE D == Downs(p, deps)
           u == Up(p, single, raises)
           U == <<u>>
           A == D \o U
           Q == A \o T
           l == Len(p)
<1>1. /\ D \in Seq(Steps) /\ u \in Steps /\ Falling(D) /\ \A s \in ToSet(D) : Len(s.path) = l + 1
  BY DownsAre
<1>2. U \in Seq(Steps) /\ ToSet(U) = {u} /\ Falling(U)
  BY <1>1, OneStep
<1>3. l \in Nat /\ Len(u.path) = l
  BY LenProperties DEF Up
<1>4. Joined(A, D, U) /\ Joined(Q, A, T)
  BY DEF Joined
<1> HIDE DEF D, u, U, A, Q, l
<1>5. A \in Seq(Steps) /\ ToSet(A) = ToSet(D) \cup {u}
  BY <1>1, <1>2, <1>4, ItemsJoined
<1>6. Falling(A)
  <2> DEFINE h == l + 1
  <2>1. h \in Nat /\ l <= h /\ \A s \in ToSet(D) : h <= Len(s.path)
    BY <1>1, <1>3
  <2>2. \A s \in ToSet(U) : Len(s.path) <= h
    BY <1>2, <1>3, <2>1
  <2> HIDE DEF h
  <2>3. QED
    BY <1>1, <1>2, <1>4, <2>1, <2>2, FallingJoined
<1>7. Q \in Seq(Steps) /\ ToSet(Q) = ToSet(D) \cup {u} \cup ToSet(T)
  BY <1>4, <1>5, ItemsJoined
<1>8. \A s \in ToSet(A) : l <= Len(s.path)
  BY <1>1, <1>3, <1>5
<1>9. \A s \in ToSet(T) : Len(s.path) <= l
  BY DEF l
<1>10. Falling(Q)
  BY <1>3, <1>4, <1>5, <1>6, <1>8, <1>9, FallingJoined
<1>11. QED
  BY <1>7, <1>10 DEF Q, A, U, D, u

LEMMA BranchDescends ==
  ASSUME NEW b, NEW r, NEW root, NEW P, NEW c, Sound(b, r, root, P, c), P # <<>>,
         NEW p, p = Head(P).path, Last(p) \notin c, Last(p) \notin ToSet(Front(p)),
         Obtainable(r, Last(p)), NEW deps \in Seq(Keys),
         NeedsOf(b.rules, Last(p)) \subseteq ToSet(deps), ToSet(deps) \subseteq NeedsOf(r, Last(p)),
         NEW single \in BOOLEAN, NEW raises \in BOOLEAN, raises = r[Last(p)].raises
  PROVE  Sound(b, r, root, Downs(p, deps) \o <<Up(p, single, raises)>> \o Tail(P), c)
<1> DEFINE h == Head(P)
           T == Tail(P)
           D == Downs(p, deps)
           u == Up(p, single, raises)
           Q == D \o <<u>> \o T
           k == Last(p)
<1>1. /\ SetupShape(setup) /\ b \in Begin /\ r \in RulesMap /\ root \in Keys /\ P \in Seq(Steps)
      /\ c \in SUBSET Keys /\ Branch(b, r, root, P, c)
  BY DEF Sound
<1>2. /\ h \in Steps /\ T \in Seq(Steps) /\ ToSet(P) = ToSet(T) \cup {h} /\ Falling(T)
      /\ \A s \in ToSet(P) : Len(s.path) <= Len(p)
  BY <1>1, HeadOff DEF Branch
<1>3. p \in Seq(Keys) \ {<<>>} /\ h.path = p
  BY <1>2, StepPath
<1>4. /\ k = p[Len(p)] /\ k \in Keys /\ \A i \in 1..Len(p) - 1 : p[i] # k
  BY <1>3, FrontIs
<1>5. Q \in Seq(Steps) /\ Falling(Q) /\ ToSet(Q) = ToSet(D) \cup {u} \cup ToSet(T)
  <2>1. T \in Seq(Steps) /\ Falling(T) /\ \A s \in ToSet(T) : Len(s.path) <= Len(p)
    BY <1>2
  <2> HIDE DEF T
  <2>2. QED
    BY <1>3, <2>1, DescentFalls
<1>6. /\ \A s \in ToSet(D) : s.back = FALSE /\ \E d \in ToSet(deps) : s.path = Append(p, d)
      /\ \A d \in ToSet(deps) : \E s \in ToSet(D) : s.path = Append(p, d)
  BY <1>3, DownsAre
<1>7. u.path = p /\ u.raises = r[k].raises
  BY DEF Up
<1>8. k \notin b.cached /\ Grown(b, r, root) /\ OnPath(b, r, root, p)
  BY <1>1, <1>2, <1>3 DEF Branch
<1>9. \A s \in ToSet(T) : OnPath(b, r, root, s.path) /\ Waits(b, r, P, s)
  BY <1>1, <1>2 DEF Branch
<1>10. Obtainable(r, k) /\ NeedsOf(b.rules, k) \subseteq ToSet(deps) /\ ToSet(deps) \subseteq NeedsOf(r, k)
  OBVIOUS
<1> HIDE DEF h, T, D, u, Q, k
<1>11. ASSUME NEW s \in ToSet(D) PROVE OnPath(b, r, root, s.path) /\ Waits(b, r, Q, s)
  <2>1. PICK d \in ToSet(deps) : s.path = Append(p, d)
    BY <1>6
  <2>2. d \in NeedsOf(r, p[Len(p)])
    BY <1>4, <1>10, <2>1
  <2>3. OnPath(b, r, root, Append(p, d))
    BY <1>1, <1>3, <1>4, <1>8, <2>2, PathGoesOn
  <2>4. Waits(b, r, Q, s)
    BY <1>6 DEF Waits
  <2>5. QED
    BY <2>1, <2>3, <2>4
<1>12. Waits(b, r, Q, u)
  BY <1>5, <1>6, <1>7, <1>8, <1>10 DEF Waits, k
<1>13. ASSUME NEW s \in ToSet(T) PROVE Waits(b, r, Q, s)
  <2>1. Waits(b, r, P, s)
    BY <1>9
  <2>2. ASSUME s.back, NEW d \in NeedsOf(b.rules, Last(s.path))
        PROVE  Fine(b, r, d) \/ \E x \in ToSet(Q) : x.path = Append(s.path, d)
    <3>1. CASE Fine(b, r, d)
      BY <3>1
    <3>2. CASE ~Fine(b, r, d)
      <4>1. PICK x \in ToSet(P) : x.path = Append(s.path, d)
        BY <2>1, <2>2, <3>2 DEF Waits
      <4>2. x \in ToSet(T) \/ x.path = u.path
        BY <1>2, <1>3, <1>7
      <4>3. QED
        BY <1>5, <4>1, <4>2
    <3>3. QED
      BY <3>1, <3>2
  <2>3. QED
    BY <2>1, <2>2 DEF Waits
<1>14. Fine(b, r, root) \/ \E s \in ToSet(Q) : s.path = <<root>>
  BY <1>1, <1>2, <1>3, <1>5, <1>7 DEF Branch
<1>15. \A s \in ToSet(Q) : OnPath(b, r, root, s.path) /\ Waits(b, r, Q, s)
  BY <1>5, <1>7, <1>8, <1>9, <1>11, <1>12, <1>13
<1>16. Branch(b, r, root, Q, c)
  BY <1>1, <1>5, <1>14, <1>15 DEF Branch
<1>17. QED
  BY <1>1, <1>5, <1>16 DEF Sound, Q, D, u, T

\* A rule is made up.
LEMMA BranchGrows ==
  ASSUME NEW b, NEW r, NEW root, NEW P, NEW c, Sound(b, r, root, P, c),
         NEW w \in Keys, r[w] = NoRule, MayMakeUp(b, root, w),
         NEW q, q = [r EXCEPT ![w] = Wired(w).rule]
  PROVE  Sound(b, q, root, P, c)
<1>1. /\ SetupShape(setup) /\ b \in Begin /\ r \in RulesMap /\ root \in Keys /\ P \in Seq(Steps)
      /\ c \in SUBSET Keys /\ Branch(b, r, root, P, c)
  BY DEF Sound
<1> DEFINE rule == Wired(w).rule
<1>2. rule \in Rule /\ rule # NoRule /\ rule.deps = setup.annotated[w]
  BY <1>1, WiredIs
<1>3. q \in RulesMap /\ q[w] = rule /\ \A i \in Keys \ {w} : q[i] = r[i]
  BY <1>1, <1>2 DEF RulesMap
<1>4. \A i : r[i] # NoRule => q[i] # NoRule
  <2>1. \A i : i # w => q[i] = r[i]
    BY <1>1 DEF RulesMap
  <2>2. QED
    BY <1>2, <1>3, <2>1
<1>5. Grown(b, q, root)
  BY <1>1, <1>3 DEF Branch, Grown
<1> HIDE DEF rule
<1>6. ASSUME NEW i \in Keys PROVE NeedsOf(r, i) \subseteq NeedsOf(q, i)
  <2>1. CASE i = w
    BY <1>2, <1>3, <2>1 DEF NeedsOf, MayMakeUp
  <2>2. CASE i # w
    BY <1>3, <1>4, <2>2 DEF NeedsOf
  <2>3. QED
    BY <2>1, <2>2
<1>7. \A k \in Keys : Obtainable(r, k) => Obtainable(q, k) /\ q[k].raises = r[k].raises
  <2>1. ~Obtainable(r, w)
    BY DEF Obtainable, MayMakeUp
  <2>2. \A k : Obtainable(r, k) => Obtainable(q, k)
    BY <1>4 DEF Obtainable, NeedsOf
  <2>3. QED
    BY <1>3, <2>1, <2>2
<1>8. ASSUME NEW k \in Keys, Fine(b, r, k) PROVE Fine(b, q, k)
  <2>1. ReachFrom(Start(b), k) \subseteq Keys
    BY <1>1, StartIs, ReachIs
  <2>2. \A i \in Keys : Buildable(r, i) => Buildable(q, i)
    BY <1>7 DEF Buildable
  <2>3. QED
    BY <1>8, <2>1, <2>2 DEF Fine
<1>9. ReachFrom(Start(b), root) \subseteq Keys
  BY <1>1, StartIs, ReachIs
<1>10. ASSUME NEW s \in ToSet(P) PROVE OnPath(b, q, root, s.path) /\ Waits(b, q, P, s)
  <2>1. OnPath(b, r, root, s.path) /\ Waits(b, r, P, s)
    BY <1>1 DEF Branch
  <2>2. s.path \in Seq(Keys) /\ Len(s.path) \in Nat /\ Last(s.path) \in Keys
    <3>1. s \in Steps
      BY <1>1, ElementOfSeq DEF ToSet
    <3>2. QED
      BY <3>1, StepPath
  <2> DEFINE p == s.path
  <2>3. /\ OnPath(b, r, root, p) /\ Len(p) \in Nat
    BY <2>1, <2>2
  <2> HIDE DEF p
  <2>4. \A i \in 1..Len(p) - 1 : p[i] \in Keys /\ i \in 1..Len(p)
    <3>1. \A i \in 1..Len(p) - 1 : i \in 1..Len(p)
      BY <2>3
    <3>2. QED
      BY <1>9, <2>3, <3>1 DEF OnPath
  <2>5. OnPath(b, q, root, p)
    BY <1>6, <2>3, <2>4 DEF OnPath
  <2>6. Waits(b, q, P, s)
    <3>1. NeedsOf(b.rules, Last(s.path)) \subseteq Keys
      BY <1>1, <2>2, NeedsAre DEF Begin
    <3>2. QED
      BY <1>7, <1>8, <2>1, <2>2, <3>1 DEF Waits
  <2>7. QED
    BY <2>5, <2>6 DEF p
<1>11. Branch(b, q, root, P, c)
  BY <1>1, <1>5, <1>8, <1>10 DEF Branch
<1>12. QED
  BY <1>1, <1>3, <1>11 DEF Sound

LEMMA BranchStarts ==
  ASSUME SetupShape(setup), NEW r \in RulesMap, NEW c \in SUBSET Keys, NEW root \in Keys,
         NEW b, b = [rules |-> r, cached |-> c],
         NEW P, P = <<[path |-> <<root>>, back |-> FALSE, single |-> FALSE, raises |-> FALSE]>>
  PROVE  Sound(b, r, root, P, c)
<1> DEFINE s == [path |-> <<root>>, back |-> FALSE, single |-> FALSE, raises |-> FALSE]
<1>1. s \in Steps /\ s.path = <<root>> /\ s.back = FALSE
  <2>1. <<root>> \in Seq(Keys) \ {<<>>}
    OBVIOUS
  <2>2. QED
    BY <2>1 DEF Steps
<1>2. P = <<s>>
  OBVIOUS
<1> HIDE DEF s
<1>3. P \in Seq(Steps) /\ ToSet(P) = {s} /\ Falling(P)
  BY <1>1, <1>2, OneStep
<1>4. b \in Begin /\ b.rules = r /\ b.cached = c
  BY DEF Begin
<1>5. Grown(b, r, root)
  BY <1>4 DEF Grown
<1>6. \A k \in c : Fine(b, r, k)
  BY <1>4, FineCached
<1>7. OnPath(b, r, root, <<root>>)
  <2>1. Len(<<root>>) = 1 /\ <<root>>[1] = root
    OBVIOUS
  <2>2. root \in ReachFrom(Start(b), root)
    BY <1>4, StartIs, ReachIs
  <2>3. QED
    BY <2>1, <2>2 DEF OnPath
<1>8. \A x \in ToSet(P) : OnPath(b, r, root, x.path) /\ Waits(b, r, P, x)
  BY <1>1, <1>3, <1>7 DEF Waits
<1>9. \E x \in ToSet(P) : x.path = <<root>>
  BY <1>1, <1>3
<1>10. Branch(b, r, root, P, c)
  BY <1>3, <1>4, <1>5, <1>6, <1>8, <1>9 DEF Branch
<1>11. QED
  BY <1>3, <1>4, <1>10 DEF Sound

-----------------------------------------------------------------------------
(* Why a get ends as it does *)

\* A path that leads to a cycle, or comes back to itself, starts from a cycle.
LEMMA PathToCycle ==
  ASSUME SetupShape(setup), NEW b \in Begin, NEW r, NEW root \in Keys, NEW p \in Seq(Keys) \ {<<>>},
         OnPath(b, r, root, p),
         \/ Last(p) \in ToSet(Front(p))
         \/ \E C \in SUBSET Keys : Last(p) \in C /\ \A i \in C : NeedsOf(r, i) \cap C # {}
  PROVE  CycleFrom([k \in Keys |-> NeedsOf(r, k)], root)
<1> DEFINE n == Len(p)
           E == [k \in Keys |-> NeedsOf(r, k)]
<1>1. /\ Last(p) = p[n] /\ n \in Nat \ {0} /\ ToSet(Front(p)) = {p[i] : i \in 1..n - 1}
      /\ \A i \in 1..n : p[i] \in Keys
  BY FrontIs, ElementOfSeq
<1>2. p[1] = root /\ \A i \in 1..n - 1 : p[i + 1] \in NeedsOf(r, p[i])
  BY DEF OnPath
<1>3. DOMAIN E = Keys /\ \A k \in Keys : E[k] = NeedsOf(r, k)
  OBVIOUS
<1> HIDE DEF n, E
<1>4. PICK C \in SUBSET Keys : \/ C = {} /\ p[n] \in {p[i] : i \in 1..n - 1}
                               \/ p[n] \in C /\ \A i \in C : NeedsOf(r, i) \cap C # {}
  BY <1>1
<1> DEFINE S == C \cup {p[i] : i \in 1..n}
<1>5. S \subseteq Keys /\ root \in S
  <2>1. 1 \in 1..n
    BY <1>1
  <2>2. QED
    BY <1>1, <1>2, <2>1
<1>6. ASSUME NEW i \in 1..n - 1 PROVE NeedsOf(r, p[i]) \cap S # {}
  <2>1. i + 1 \in 1..n
    BY <1>1
  <2>2. QED
    BY <1>2, <2>1
<1>7. NeedsOf(r, p[n]) \cap S # {}
  BY <1>4, <1>6
<1>8. ASSUME NEW k \in S PROVE E[k] \cap S # {}
  <2>1. CASE k \in C
    BY <1>3, <1>4, <2>1
  <2>2. CASE \E i \in 1..n : k = p[i]
    <3>1. PICK i \in 1..n : k = p[i]
      BY <2>2
    <3>2. i = n \/ i \in 1..n - 1
      BY <1>1
    <3>3. NeedsOf(r, k) \cap S # {}
      BY <1>6, <1>7, <3>1, <3>2
    <3>4. QED
      BY <1>3, <1>5, <3>3
  <2>3. QED
    BY <2>1, <2>2
<1>9. QED
  BY <1>3, <1>5, <1>8 DEF CycleFrom, E

\* A path is no longer than what can be reached.
LEMMA PathsAreShort ==
  ASSUME SetupShape(setup), NEW b \in Begin, NEW r, NEW root \in Keys, NEW p \in Seq(Keys) \ {<<>>},
         OnPath(b, r, root, p), Last(p) \notin ToSet(Front(p))
  PROVE  /\ Len(p) <= Cardinality(ReachFrom(Start(b), root))
         /\ Cardinality(ReachFrom(Start(b), root)) \in Nat /\ Len(p) \in Nat
<1> DEFINE n == Len(p)
           R == ReachFrom(Start(b), root)
<1>1. /\ Last(p) = p[n] /\ n \in Nat \ {0} /\ ToSet(Front(p)) = {p[i] : i \in 1..n - 1}
      /\ DOMAIN p = 1..n
  BY FrontIs, LenProperties
<1>2. /\ \A i, j \in 1..n - 1 : p[i] = p[j] => i = j
      /\ \A i \in 1..n : p[i] \in R
  BY DEF OnPath
<1>3. R \subseteq Keys
  BY StartIs, ReachIs
<1>4. IsFiniteSet(R) /\ Cardinality(R) \in Nat
  BY <1>3, KeysAssumption, FS_Subset, FS_CardinalityType
<1> HIDE DEF n, R
<1>5. \A i \in 1..n : i = n \/ i \in 1..n - 1
  BY <1>1
<1>6. \A i, j \in 1..n : p[i] = p[j] => i = j
  BY <1>1, <1>2, <1>5
<1>7. IsInjective(p)
  BY <1>1, <1>6 DEF IsInjective
<1>8. Cardinality(ToSet(p)) = n
  BY <1>7, AsManyItems DEF n
<1>9. ToSet(p) \subseteq R
  BY <1>1, <1>2 DEF ToSet
<1>10. Cardinality(ToSet(p)) <= Cardinality(R)
  BY <1>4, <1>9, FS_Subset
<1>11. QED
  BY <1>1, <1>4, <1>8, <1>10 DEF n, R

-----------------------------------------------------------------------------
(* The gets that run alone *)

\* The rules less the one that is being added.
Standing(j, rl) == IF j.pc \in {"graph", "check", "undo"} THEN j.oldRules ELSE rl
LeadsInto(r, k) == \E C \in SUBSET Keys : k \in C /\ \A i \in C : NeedsOf(r, i) \cap C # {}
\* The key that the get is at, which has not been resolved yet.
Facing(P) == P # <<>> /\ ~Head(P).back
Faced(P) == Last(Head(P).path)
\* A rule is made up for it.
Making(j, root, r, c) ==
  /\ Facing(j.paths) /\ Faced(j.paths) \notin c
  /\ Faced(j.paths) \notin ToSet(Front(Head(j.paths).path))
  /\ j.todo = <<Wired(Faced(j.paths))>>
  /\ r[Faced(j.paths)] = NoRule /\ MayMakeUp(j.before, root, Faced(j.paths))
\* A get that runs alone is j, for root, with these rules and instances.
GetIs(j, root, rl, c, m) ==
  /\ Sound(j.before, Standing(j, rl), root, j.paths, c)
  /\ j.pc = "find" /\ j.tried => Facing(j.paths) /\ rl[Faced(j.paths)] # NoRule
  /\ j.pc \in Adding \cup {"copy"} => Making(j, root, Standing(j, rl), c)
  /\ j.pc \in {"copy graph", "map"} => j.oldRules = rl
  /\ j.pc \in {"graph", "check", "undo"} =>
       rl = [j.oldRules EXCEPT ![Faced(j.paths)] = Wired(Faced(j.paths)).rule]
  /\ j.pc \in {"undo", "undo graph"} => m \/ LeadsInto(Standing(j, rl), Faced(j.paths))

InGet(t) == Does(t, "get") /\ job[t].pc # "idle" /\ job[t].alone
GetInv(t) ==
  /\ \A u \in Threads \ {t} : job[u].pc = "idle"
  /\ \A j \in {job[t]}, root \in {Current(t).key}, rl \in {rules}, c \in {cached}, m \in {mixed} :
       GetIs(j, root, rl, c, m)
GetsInv == \A t \in Threads : InGet(t) => GetInv(t)

LEMMA SameNeeds ==
  ASSUME setup' = setup
  PROVE  /\ \A r, k : (NeedsOf(r, k)' = NeedsOf(r, k)) /\ (Obtainable(r, k)' <=> Obtainable(r, k))
         /\ \A b : Start(b)' = Start(b)
         /\ \A b, root, k : MayMakeUp(b, root, k)' <=> MayMakeUp(b, root, k)
         /\ \A k : Wired(k)' = Wired(k)
         /\ \A r, k : Buildable(r, k)' <=> Buildable(r, k)
<1>1. \A r, k : NeedsOf(r, k)' = NeedsOf(r, k)
  BY DEF NeedsOf
<1>2. \A b : Start(b)' = Start(b)
  BY <1>1 DEF Start
<1>3. \A r, k : Obtainable(r, k)' <=> Obtainable(r, k)
  BY <1>1 DEF Obtainable
<1>4. \A b, root, k : MayMakeUp(b, root, k)' <=> MayMakeUp(b, root, k)
  BY <1>2 DEF MayMakeUp
<1>5. \A k : Wired(k)' = Wired(k)
  BY DEF Wired
<1>6. \A r, k : Buildable(r, k)' <=> Buildable(r, k)
  BY <1>3 DEF Buildable
<1>7. QED
  BY <1>1, <1>2, <1>3, <1>4, <1>5, <1>6

LEMMA SameSound ==
  ASSUME setup' = setup
  PROVE  \A b, r, root, P, c : Sound(b, r, root, P, c)' <=> Sound(b, r, root, P, c)
<1>1. \A b, r, root : Grown(b, r, root)' <=> Grown(b, r, root)
  BY SameNeeds DEF Grown
<1>2. \A b, r, k : Fine(b, r, k)' <=> Fine(b, r, k)
  BY SameNeeds DEF Fine
<1>3. \A b, r, root, p : OnPath(b, r, root, p)' <=> OnPath(b, r, root, p)
  BY SameNeeds DEF OnPath
<1>4. \A b, r, P, s : Waits(b, r, P, s)' <=> Waits(b, r, P, s)
  BY <1>2, SameNeeds DEF Waits
<1>5. \A b, r, root, P, c : Branch(b, r, root, P, c)' <=> Branch(b, r, root, P, c)
  BY <1>1, <1>2, <1>3, <1>4 DEF Branch
<1>6. SetupShape(setup)' <=> SetupShape(setup)
  OBVIOUS
<1>7. QED
  BY <1>5, <1>6 DEF Sound

LEMMA SameGet ==
  ASSUME setup' = setup
  PROVE  \A j, root, rl, c, m : GetIs(j, root, rl, c, m)' <=> GetIs(j, root, rl, c, m)
<1>1. \A j, root, r, c : Making(j, root, r, c)' <=> Making(j, root, r, c)
  BY SameNeeds DEF Making
<1>2. \A r, k : LeadsInto(r, k)' <=> LeadsInto(r, k)
  BY SameNeeds DEF LeadsInto
<1>3. ASSUME NEW j, NEW root, NEW rl, NEW c, NEW m
      PROVE  GetIs(j, root, rl, c, m)' <=> GetIs(j, root, rl, c, m)
  <2> DEFINE r == Standing(j, rl)
             k == Faced(j.paths)
             b == j.before
             P == j.paths
  <2>1. r' = r /\ k' = k /\ b' = b /\ P' = P
    BY DEF Standing, Faced
  <2>2. Sound(b, r, root, P, c)' <=> Sound(b, r, root, P, c)
    <3>1. \A x, y, z : Sound(x, y, root, z, c)' <=> Sound(x, y, root, z, c)
      BY SameSound
    <3>2. QED
      BY <2>1, <3>1
  <2>3. Making(j, root, r, c)' <=> Making(j, root, r, c)
    BY <1>1, <2>1
  <2>4. LeadsInto(r, k)' <=> LeadsInto(r, k)
    BY <1>2, <2>1
  <2>5. Wired(k)' = Wired(k) /\ Facing(P)' = Facing(P)
    BY <2>1, SameNeeds DEF Facing
  <2> HIDE DEF r, k, b, P
  <2>6. QED
    BY <2>1, <2>2, <2>3, <2>4, <2>5 DEF GetIs, r, k, b, P
<1>4. QED
  BY <1>3

LEMMA GetsKept ==
  ASSUME Shapes, GetsInv, NEW t \in Threads, NEW j, Goes(t, j), setup' = setup,
         \A u \in Threads \ {t} : next'[u] = next[u],
         NEW rl, NEW c, NEW m, rules' = rl, cached' = c, mixed' = m,
         NEW root, Current(t)'.key = root,
         Does(t, "get")' /\ j.pc # "idle" /\ j.alone =>
           (\A u \in Threads \ {t} : job[u].pc = "idle") /\ GetIs(j, root, rl, c, m)
  PROVE  GetsInv'
<1>1. job'[t] = j
  BY GoesToOthers
<1>2. ASSUME NEW u \in Threads \ {t} PROVE ~InGet(u)' /\ (job[u].pc = "idle" => job'[u].pc = "idle")
  <2>1. CASE job[u].pc = "idle"
    BY <2>1, OthersHold DEF InGet
  <2>2. CASE job[u].pc # "idle"
    <3>1. job[u] = [x \in JobFields |-> job[u][x]]
      BY DEF Shapes, JobMade
    <3> DEFINE touched == job[u].touched \cup {k \in Keys : rules'[k] # rules[k]}
               crossed == job[u].crossed \/ (job[u].pc \in Adding
                                              /\ <<rules', graph'>> # <<rules, graph>>)
    <3>2. job'[u] = [job[u] EXCEPT !.alone = FALSE, !.touched = touched, !.crossed = crossed]
      BY <2>2 DEF Goes
    <3> HIDE DEF touched, crossed
    <3>3. job'[u].alone = FALSE
      BY <3>1, <3>2 DEF JobFields
    <3>4. QED
      BY <2>2, <3>3 DEF InGet
  <2>3. QED
    BY <2>1, <2>2
<1>3. ASSUME InGet(t)' PROVE GetInv(t)'
  <2>1. (\A u \in Threads \ {t} : job[u].pc = "idle") /\ GetIs(j, root, rl, c, m)
    BY <1>1, <1>3 DEF InGet
  <2>2. GetIs(j, root, rl, c, m)'
    BY <2>1, SameGet
  <2>3. QED
    BY <1>1, <1>2, <2>1, <2>2 DEF GetInv
<1>4. QED
  BY <1>2, <1>3 DEF GetsInv

\* The job goes on.
LEMMA GetGoesOn ==
  ASSUME Shapes, GetsInv, NEW t \in Threads, NEW j, Goes(t, j), UNCHANGED <<setup, next>>,
         job[t].pc # "idle", j.alone = job[t].alone,
         \A root : root = Current(t).key /\ InGet(t) /\ GetIs(job[t], root, rules, cached, mixed) =>
           GetIs(j, root, rules', cached', mixed')
  PROVE  GetsInv'
<1>1. PICK root, rl, c, m : root = Current(t).key /\ rl = rules' /\ c = cached' /\ m = mixed'
  OBVIOUS
<1>2. Current(t)'.key = root
  BY <1>1 DEF Current
<1>3. ASSUME Does(t, "get")', j.pc # "idle", j.alone
      PROVE  (\A u \in Threads \ {t} : job[u].pc = "idle") /\ GetIs(j, root, rl, c, m)
  <2>1. InGet(t)
    BY <1>3 DEF InGet, Does, Current
  <2>2. GetInv(t)
    BY <2>1 DEF GetsInv
  <2>3. QED
    BY <1>1, <2>1, <2>2 DEF GetInv
<1>4. QED
  BY <1>1, <1>2, <1>3, GetsKept

\* Jobs that are no gets.
LEMMA NotInGet ==
  ASSUME TypeInv, NEW t \in Threads, job[t].pc \in {"item", "read"}
  PROVE  ~Does(t, "get")
<1>1. Fits(t, job[t], next[t])
  BY DEF TypeInv
<1>2. PICK do \in Jobs : Doing(t, next[t], do) /\ Holds(job[t], do)
  BY <1>1 DEF Fits
<1>3. do # "get"
  BY <1>2 DEF Holds
<1>4. QED
  BY <1>2, <1>3 DEF Doing, Does, Current

-----------------------------------------------------------------------------
(* The steps of a get that runs alone *)

LEMMA MemberOrder ==
  ASSUME NEW S \in SUBSET Keys
  PROVE  SetToSeq(S) \in Seq(Keys) /\ ToSet(SetToSeq(S)) = S
<1> DEFINE s == SetToSeq(S)
           n == Cardinality(S)
<1>1. IsFiniteSet(S) /\ n \in Nat /\ ExistsBijection(1..n, S)
  BY KeysAssumption, FS_Subset, FS_CardinalityType
<1>2. \E f \in [1..n -> S] : IsInjective(f)
  BY <1>1 DEF ExistsBijection, Bijection, Injection
<1>3. s \in [1..n -> S] /\ IsInjective(s)
  BY <1>2 DEF SetToSeq
<1> HIDE DEF s, n
<1>4. s \in Seq(Keys) /\ s \in Seq(S) /\ Len(s) = n /\ DOMAIN s = 1..n
  BY <1>1, <1>3
<1>5. Cardinality(ToSet(s)) = n
  BY <1>3, <1>4, AsManyItems
<1>6. ToSet(s) \subseteq S
  BY <1>3, <1>4 DEF ToSet
<1>7. ToSet(s) = S
  BY <1>1, <1>5, <1>6, FS_Subset DEF n
<1>8. QED
  BY <1>4, <1>7 DEF s

\* What is known of the path a get is at.
LEMMA AtPath ==
  ASSUME NEW b, NEW r, NEW root, NEW P, NEW c, Sound(b, r, root, P, c), P # <<>>
  PROVE  /\ SetupShape(setup) /\ b \in Begin /\ r \in RulesMap /\ root \in Keys
         /\ Head(P).path \in Seq(Keys) \ {<<>>} /\ Last(Head(P).path) \in Keys /\ c \in SUBSET Keys
         /\ OnPath(b, r, root, Head(P).path) /\ Grown(b, r, root)
         /\ Last(Head(P).path) \in ReachFrom(Start(b), root) /\ b.cached \subseteq c
         /\ \A k \in c : Fine(b, r, k)
<1> DEFINE p == Head(P).path
<1>2. /\ SetupShape(setup) /\ b \in Begin /\ r \in RulesMap /\ root \in Keys /\ P \in Seq(Steps)
      /\ c \in SUBSET Keys /\ Branch(b, r, root, P, c)
  BY DEF Sound
<1>3. Head(P) \in Steps /\ Head(P) \in ToSet(P)
  BY <1>2, HeadOff
<1>4. p \in Seq(Keys) \ {<<>>} /\ Last(p) \in Keys
  BY <1>3, StepPath
<1>5. OnPath(b, r, root, p) /\ Grown(b, r, root) /\ b.cached \subseteq c /\ \A k \in c : Fine(b, r, k)
  BY <1>2, <1>3 DEF Branch
<1> HIDE DEF p
<1>6. Last(p) \in ReachFrom(Start(b), root)
  <2>1. Last(p) = p[Len(p)] /\ Len(p) \in 1..Len(p)
    BY <1>4, FrontIs
  <2>2. QED
    BY <1>5, <2>1 DEF OnPath
<1>7. QED
  BY <1>2, <1>4, <1>5, <1>6 DEF p

LEMMA GetStarts ==
  ASSUME IInv, TypeInv, GetsInv, NEW t \in Threads, Get(t)
  PROVE  GetsInv'
<1> DEFINE root == Current(t).key
           before == [rules |-> rules, cached |-> cached]
           paths == <<[path |-> <<root>>, back |-> FALSE, single |-> FALSE, raises |-> FALSE]>>
           alone == \A u \in Threads \ {t} : job[u].pc = "idle"
           j == [[Idle EXCEPT !.pc = "find", !.before = before, !.paths = paths]
                   EXCEPT !.alone = alone]
<1>1. /\ Does(t, "get") /\ Goes(t, j)
      /\ UNCHANGED <<setup, rules, graph, bound, cached, source, owner, next, accepted, mixed, ended>>
  BY DEF Get, Starts, Moves
<1>2. root \in Keys
  <2>1. ASSUME NEW i, JobShape(i), i.do = "get" PROVE i.key \in Keys
    BY <2>1 DEF JobShape
  <2>2. QED
    BY <1>1, <2>1, JobShaped
<1>3. rules \in RulesMap /\ cached \in SUBSET Keys /\ SetupShape(setup)
  BY DEF TypeInv, TypeOK, RulesMap
<1>4. Sound(before, rules, root, paths, cached)
  <2> HIDE DEF root
  <2>1. QED
    BY <1>2, <1>3, BranchStarts
<1>5. Current(t)'.key = root
  BY <1>1 DEF Current
<1> HIDE DEF root, before, paths, alone
<1>6. /\ j.pc = "find" /\ j.before = before /\ j.paths = paths /\ j.tried = FALSE /\ j.alone = alone
  BY DEF Idle
<1> HIDE DEF j
<1>7. \A rl, c, m : rl = rules /\ c = cached => GetIs(j, root, rl, c, m)
  BY <1>4, <1>6 DEF GetIs, Standing, Adding
<1>8. j.alone => \A u \in Threads \ {t} : job[u].pc = "idle"
  BY <1>6 DEF alone
<1>9. QED
  BY <1>1, <1>5, <1>7, <1>8, GetsKept DEF IInv

\* A key is resolved, or found.
LEMMA BackGets ==
  ASSUME IInv, TypeInv, GetsInv, NEW t \in Threads, Hit(t) \/ Build(t)
  PROVE  GetsInv'
<1> DEFINE i == job[t]
           rest == Tail(i.paths)
           j == IF Hit(t) THEN [i EXCEPT !.paths = rest, !.tried = FALSE]
                ELSE [i EXCEPT !.paths = rest]
<1>1. /\ i.pc = "find" /\ i.paths # <<>> /\ Goes(t, j)
      /\ UNCHANGED <<setup, rules, graph, bound, source, owner, next, accepted, mixed>>
      /\ i = [x \in JobFields |-> i[x]]
      /\ cached' \in {cached, cached \cup {Wanted(t)}}
      /\ Wanted(t) = Last(Head(i.paths).path)
      /\ \/ Wanted(t) \in cached /\ Hit(t)
         \/ Head(i.paths).back /\ ~Head(i.paths).raises /\ ~Hit(t)
  BY DEF Hit, Build, StoreResult, Calling, Moves, Looking, At, IInv, Shapes, JobMade, Wanted, Path
<1>2. Wanted(t) \in Keys /\ cached \in SUBSET Keys
  BY <1>1, PathTyped DEF TypeInv, TypeOK
<1> HIDE DEF rest
<1>3. /\ j.pc = "find" /\ j.before = i.before /\ j.paths = rest /\ j.alone = i.alone
      /\ Hit(t) => j.tried = FALSE
      /\ ~Hit(t) => j.tried = i.tried
  BY <1>1 DEF JobFields
<1>4. rest = Tail(i.paths)
  BY DEF rest
<1> HIDE DEF j, i
<1>5. ASSUME NEW root, GetIs(i, root, rules, cached, mixed)
      PROVE  GetIs(j, root, rules', cached', mixed')
  <2>1. Sound(i.before, rules, root, i.paths, cached)
    BY <1>1, <1>5 DEF GetIs, Standing
  <2>2. Fine(i.before, rules, Last(Head(i.paths).path))
    <3>1. CASE Wanted(t) \in cached
      <4>1. \A k \in cached : Fine(i.before, rules, k)
        BY <1>1, <2>1, AtPath
      <4>2. QED
        BY <1>1, <3>1, <4>1
    <3>2. CASE Head(i.paths).back /\ ~Head(i.paths).raises
      BY <1>1, <2>1, <3>2, BuiltIsFine
    <3>3. QED
      BY <1>1, <3>1, <3>2
  <2>3. Sound(i.before, rules, root, rest, cached')
    BY <1>1, <1>2, <1>4, <2>1, <2>2, BranchReturns
  <2>4. j.tried = TRUE => FALSE
    BY <1>1, <1>3, <1>5 DEF GetIs, Facing
  <2>5. QED
    BY <1>1, <1>3, <2>3, <2>4 DEF GetIs, Standing, Adding
<1>6. QED
  BY <1>1, <1>3, <1>5, GetGoesOn DEF i, IInv

\* A key leads to its dependencies.
LEMMA DescendsGets ==
  ASSUME IInv, TypeInv, GetsInv, NEW t \in Threads, job[t].pc = "find", job[t].paths # <<>>,
         NEW deps \in Seq(Keys), NEW single \in BOOLEAN, NEW raises \in BOOLEAN,
         raises = rules[Wanted(t)].raises, Descends(t, deps, single, raises),
         \A root : GetIs(job[t], root, rules, cached, mixed) =>
           /\ Wanted(t) \notin cached /\ Wanted(t) \notin ToSet(Front(Path(t)))
           /\ Obtainable(rules, Wanted(t))
           /\ NeedsOf(job[t].before.rules, Wanted(t)) \subseteq ToSet(deps)
           /\ ToSet(deps) \subseteq NeedsOf(rules, Wanted(t))
  PROVE  GetsInv'
<1> DEFINE i == job[t]
           p == Path(t)
           paths == Downs(p, deps) \o <<Up(p, single, raises)>> \o Tail(i.paths)
           j == [i EXCEPT !.tried = FALSE, !.paths = paths]
<1>1. i = [x \in JobFields |-> i[x]]
  BY DEF IInv, Shapes, JobMade
<1>2. /\ Goes(t, j)
      /\ UNCHANGED <<setup, rules, graph, bound, cached, source, next, accepted, mixed>>
  <2> DEFINE h == [job[t] EXCEPT !.tried = FALSE, !.paths =
          [n \in DOMAIN deps |-> [path |-> Append(Path(t), deps[n]), back |-> FALSE, single |-> FALSE, raises |-> FALSE]]
            \o <<[path |-> Path(t), back |-> TRUE, single |-> single, raises |-> raises]>> \o Tail(@)]
  <2>1. /\ Goes(t, h)
        /\ UNCHANGED <<setup, rules, graph, bound, cached, source, next, accepted, mixed>>
    BY DEF Descends
  <2>2. h = j
    BY <1>1 DEF JobFields, Downs, Up
  <2>3. QED
    BY <2>1, <2>2
<1>3. Wanted(t) = Last(p) /\ p = Head(i.paths).path
  BY DEF Wanted, Path
<1> HIDE DEF paths
<1>4. j.pc = "find" /\ j.before = i.before /\ j.paths = paths /\ j.alone = i.alone /\ j.tried = FALSE
  BY <1>1 DEF JobFields
<1>5. /\ i.pc = "find" /\ i.paths # <<>> /\ raises = rules[Last(p)].raises
      /\ \A root : GetIs(i, root, rules, cached, mixed) =>
           /\ Last(p) \notin cached /\ Last(p) \notin ToSet(Front(p)) /\ Obtainable(rules, Last(p))
           /\ NeedsOf(i.before.rules, Last(p)) \subseteq ToSet(deps)
           /\ ToSet(deps) \subseteq NeedsOf(rules, Last(p))
  BY <1>3
<1>6. paths = Downs(p, deps) \o <<Up(p, single, raises)>> \o Tail(i.paths)
  BY DEF paths
<1> HIDE DEF j, i, p
<1>7. ASSUME NEW root, GetIs(i, root, rules, cached, mixed)
      PROVE  GetIs(j, root, rules', cached', mixed')
  <2>1. Sound(i.before, rules, root, i.paths, cached)
    BY <1>5, <1>7 DEF GetIs, Standing
  <2> DEFINE b == i.before
             P == i.paths
  <2>2. /\ Sound(b, rules, root, P, cached) /\ P # <<>> /\ p = Head(P).path
        /\ Last(p) \notin cached /\ Last(p) \notin ToSet(Front(p)) /\ Obtainable(rules, Last(p))
        /\ NeedsOf(b.rules, Last(p)) \subseteq ToSet(deps)
        /\ ToSet(deps) \subseteq NeedsOf(rules, Last(p)) /\ raises = rules[Last(p)].raises
    BY <1>3, <1>5, <1>7, <2>1
  <2>3. paths = Downs(p, deps) \o <<Up(p, single, raises)>> \o Tail(P)
    BY <1>6
  <2> HIDE DEF b, P
  <2>4. Sound(b, rules, root, paths, cached)
    BY <2>2, <2>3, BranchDescends
  <2>5. QED
    BY <1>2, <1>4, <2>4 DEF GetIs, Standing, Adding, b
<1>8. QED
  BY <1>2, <1>4, <1>5, <1>7, GetGoesOn DEF i, IInv

LEMMA FindGets ==
  ASSUME IInv, TypeInv, GetsInv, NEW t \in Threads, Find(t) \/ Collect(t)
  PROVE  GetsInv'
<1> DEFINE w == Wanted(t)
<1>1. /\ job[t].pc = "find" /\ job[t].paths # <<>> /\ w \notin cached /\ w \notin ToSet(Front(Path(t)))
      /\ w = Last(Head(job[t].paths).path)
  BY DEF Find, Collect, Missing, Looking, At, Wanted, Path
<1>2. w \in Keys
  BY <1>1, PathTyped
<1> HIDE DEF w
<1>3. ASSUME NEW root, GetIs(job[t], root, rules, cached, mixed)
      PROVE  NeedsOf(job[t].before.rules, w) \subseteq NeedsOf(rules, w)
  <2> DEFINE i == job[t]
             b == i.before
             p == Head(i.paths).path
  <2>1. Sound(b, rules, root, i.paths, cached)
    BY <1>1, <1>3 DEF GetIs, Standing
  <2>2. SetupShape(setup) /\ b \in Begin /\ rules \in RulesMap /\ Grown(b, rules, root)
    BY <1>1, <2>1, AtPath
  <2> HIDE DEF b
  <2>3. NeedsOf(b.rules, w) \subseteq NeedsOf(rules, w)
    BY <1>2, <2>2, NeedsGrow
  <2>4. QED
    BY <2>3 DEF b
<1>4. CASE Find(t)
  <2>1. rules[w] # NoRule /\ Descends(t, rules[w].deps, rules[w].single, rules[w].raises)
    BY <1>4 DEF Find, Known, w
  <2>2. rules[w] \in Rule
    BY <1>2, <2>1 DEF TypeInv, TypeOK
  <2>3. rules[w].deps \in Seq(Keys) /\ rules[w].single \in BOOLEAN /\ rules[w].raises \in BOOLEAN
    BY <2>2 DEF Rule
  <2>4. NeedsOf(rules, w) = ToSet(rules[w].deps) /\ Obtainable(rules, w)
    BY <2>1 DEF NeedsOf, Obtainable
  <2>5. QED
    BY <1>1, <1>3, <2>1, <2>3, <2>4, DescendsGets DEF w
<1>5. CASE Collect(t)
  <2>1. /\ rules[w] = NoRule /\ setup.kind[w] = "collection" /\ Members(w) # {}
        /\ Descends(t, SetToSeq(Members(w)), FALSE, FALSE)
    BY <1>5 DEF Collect, Missing, Known, w
  <2>2. rules[w].raises = FALSE
    BY <2>1 DEF NoRule
  <2>3. Members(w) \in SUBSET Keys
    BY <1>2, SetupIs DEF Members, IInv, Shapes, SetupShape
  <2>4. SetToSeq(Members(w)) \in Seq(Keys) /\ ToSet(SetToSeq(Members(w))) = Members(w)
    BY <2>3, MemberOrder
  <2>5. NeedsOf(rules, w) = Members(w) /\ Obtainable(rules, w)
    BY <2>1 DEF NeedsOf, Obtainable, Members, Known
  <2>6. QED
    BY <1>1, <1>3, <2>1, <2>4, <2>5, <2>2, DescendsGets DEF w
<1>6. QED
  BY <1>4, <1>5

\* A rule is made up only for what may have one.
LEMMA MakingGets ==
  ASSUME IInv, TypeInv, GetsInv, NEW t \in Threads, MakeUp(t)
  PROVE  GetsInv'
<1> DEFINE i == job[t]
           w == Wanted(t)
           j == [i EXCEPT !.pc = "copy", !.todo = <<Wired(w)>>, !.touched = {}]
<1>1. /\ i.pc = "find" /\ i.paths # <<>> /\ ~Head(i.paths).back /\ Goes(t, j)
      /\ w \notin cached /\ w \notin ToSet(Front(Head(i.paths).path)) /\ rules[w] = NoRule
      /\ Makeable(w, Len(Path(t))) /\ w = Last(Head(i.paths).path)
      /\ UNCHANGED <<setup, rules, graph, bound, cached, source, next, accepted, mixed>>
      /\ i = [x \in JobFields |-> i[x]]
  BY DEF MakeUp, Missing, Looking, At, Known, Wanted, Path, IInv, Shapes, JobMade
<1> HIDE DEF w
<1>2. /\ j.pc = "copy" /\ j.todo = <<Wired(w)>> /\ j.paths = i.paths /\ j.before = i.before
      /\ j.alone = i.alone
  BY <1>1 DEF JobFields
<1> HIDE DEF j, i
<1>3. ASSUME NEW root, GetIs(i, root, rules, cached, mixed)
      PROVE  GetIs(j, root, rules', cached', mixed')
  <2> DEFINE b == i.before
             P == i.paths
  <2>1. Sound(b, rules, root, P, cached)
    BY <1>1, <1>3 DEF GetIs, Standing
  <2>2. /\ SetupShape(setup) /\ b \in Begin /\ rules \in RulesMap /\ Grown(b, rules, root)
        /\ w \in ReachFrom(Start(b), root) /\ w \in Keys /\ b.cached \subseteq cached
    BY <1>1, <2>1, AtPath
  <2> HIDE DEF b, P
  <2>3. \A k \in Keys : b.rules[k] # NoRule => rules[k] # NoRule
    BY <2>2 DEF Grown, MayMakeUp
  <2>4. setup.members[w] \subseteq Keys
    BY <2>2, SetupHas
  <2>5. /\ setup.kind[w] \in {"injectable", "class"}
        /\ setup.kind[w] = "class" => \A m \in setup.members[w] : rules[m] = NoRule
    BY <1>1, <2>4 DEF Makeable, Eligible, Members, Known
  <2>6. MayMakeUp(b, root, w)
    BY <1>1, <2>2, <2>3, <2>4, <2>5 DEF MayMakeUp
  <2>7. Making(j, root, rules, cached)
    BY <1>1, <1>2, <2>6 DEF Making, Facing, Faced, b
  <2>8. QED
    BY <1>1, <1>2, <2>1, <2>7 DEF GetIs, Standing, Adding, b, P
<1>4. QED
  BY <1>1, <1>2, <1>3, GetGoesOn DEF i, IInv

\* The add of a rule that was made up, up to the write of the graph.
LEMMA WritingGets ==
  ASSUME IInv, TypeInv, GetsInv, NEW t \in Threads,
         CopyMap(t) \/ CopyGraph(t) \/ WriteMap(t) \/ WriteGraph(t)
  PROVE  GetsInv'
<1> DEFINE i == job[t]
           read == i.read \ {Item(t).key}
           j == IF i.pc = "copy" THEN [i EXCEPT !.pc = "copy graph", !.oldRules = rules, !.crossed = FALSE]
                ELSE IF i.pc = "copy graph" THEN [i EXCEPT !.pc = "map", !.oldGraph = graph]
                ELSE IF i.pc = "map" THEN [i EXCEPT !.pc = "graph", !.read = read]
                ELSE [i EXCEPT !.pc = "check"]
<1>1. /\ Goes(t, j) /\ UNCHANGED <<setup, next, cached>> /\ i = [x \in JobFields |-> i[x]]
      /\ i.pc \in {"copy", "copy graph", "map", "graph"}
      /\ i.pc = "map" => rules' = [rules EXCEPT ![Item(t).key] = Item(t).rule]
      /\ i.pc # "map" => rules' = rules
      /\ mixed' = mixed \/ mixed' = (mixed \/ SharesKey(t))
  BY DEF CopyMap, CopyGraph, WriteMap, WriteGraph, Moves, At, IInv, Shapes, JobMade
<1> HIDE DEF read
<1>2. /\ j.todo = i.todo /\ j.paths = i.paths /\ j.before = i.before /\ j.alone = i.alone
      /\ j.pc = CASE i.pc = "copy" -> "copy graph" [] i.pc = "copy graph" -> "map"
                  [] i.pc = "map" -> "graph" [] i.pc = "graph" -> "check"
      /\ j.oldRules = IF i.pc = "copy" THEN rules ELSE i.oldRules
  BY <1>1 DEF JobFields
<1>3. Item(t) = Head(i.todo)
  BY DEF Item
<1> HIDE DEF j, i
<1>4. ASSUME NEW root, GetIs(i, root, rules, cached, mixed)
      PROVE  GetIs(j, root, rules', cached', mixed')
  <2> DEFINE w == Faced(i.paths)
             r == Standing(i, rules)
  <2>1. Making(i, root, r, cached) /\ Sound(i.before, r, root, i.paths, cached)
    BY <1>1, <1>4 DEF GetIs, Adding
  <2>2. Item(t) = Wired(w) /\ Wired(w).key = w
    BY <1>3, <2>1 DEF Making, Wired, Entry
  <2>3. Standing(j, rules') = r
    BY <1>1, <1>2, <1>4 DEF GetIs, Standing
  <2>4. Making(j, root, r, cached)
    BY <1>2, <2>1 DEF Making
  <2>5. j.pc \in {"graph", "check", "undo"} => rules' = [j.oldRules EXCEPT ![w] = Wired(w).rule]
    BY <1>1, <1>2, <1>4, <2>2 DEF GetIs
  <2>6. j.pc \in {"copy graph", "map"} => j.oldRules = rules'
    BY <1>1, <1>2, <1>4 DEF GetIs
  <2>7. j.pc \notin {"find", "undo", "undo graph"}
    BY <1>1, <1>2
  <2> HIDE DEF r
  <2>8. QED
    BY <1>1, <1>2, <2>1, <2>3, <2>4, <2>5, <2>6, <2>7 DEF GetIs
<1>5. QED
  BY <1>1, <1>2, <1>4, GetGoesOn DEF i, IInv

\* It is accepted.
LEMMA AcceptGets ==
  ASSUME IInv, TypeInv, GetsInv, NEW t \in Threads, Accept(t)
  PROVE  GetsInv'
<1> DEFINE i == job[t]
           j == [i EXCEPT !.pc = After(t), !.todo = Tail(i.todo), !.oldRules = <<>>,
                          !.oldGraph = <<>>, !.tried = After(t) = "find"]
<1>1. i = [x \in JobFields |-> i[x]]
  BY DEF IInv, Shapes, JobMade
<1>2. /\ Goes(t, j) /\ UNCHANGED <<setup, next, cached, rules, mixed>> /\ i.pc = "check"
  <2> DEFINE h == [job[t] EXCEPT !.pc = After(t), !.todo = Tail(@), !.oldRules = <<>>,
                                 !.oldGraph = <<>>, !.tried = After(t) = "find"]
  <2>1. Goes(t, h) /\ UNCHANGED <<setup, next, cached, rules, mixed>> /\ i.pc = "check"
    BY DEF Accept, At
  <2>2. h = j
    BY <1>1 DEF JobFields
  <2>3. QED
    BY <2>1, <2>2
<1>3. /\ j.paths = i.paths /\ j.before = i.before /\ j.alone = i.alone /\ j.pc = After(t)
  BY <1>1 DEF JobFields
<1>4. InGet(t) => After(t) = "find"
  BY DEF InGet, Does, After
<1> HIDE DEF j, i
<1>5. ASSUME NEW root, InGet(t), GetIs(i, root, rules, cached, mixed)
      PROVE  GetIs(j, root, rules', cached', mixed')
  <2> DEFINE w == Faced(i.paths)
             r == i.oldRules
             b == i.before
             P == i.paths
  <2>1. /\ Making(i, root, r, cached) /\ Sound(b, r, root, P, cached)
        /\ rules = [r EXCEPT ![w] = Wired(w).rule]
    BY <1>2, <1>5 DEF GetIs, Standing, Adding
  <2>2. Facing(P) /\ r[w] = NoRule /\ MayMakeUp(b, root, w)
    BY <2>1 DEF Making
  <2>3. w \in Keys /\ r \in RulesMap /\ SetupShape(setup)
    BY <2>1, <2>2, AtPath DEF Facing, Faced
  <2>4. rules[w] # NoRule
    BY <2>1, <2>3, WiredIs DEF RulesMap
  <2> HIDE DEF w, r, b, P
  <2>5. Sound(b, rules, root, P, cached)
    BY <2>1, <2>2, <2>3, BranchGrows
  <2>6. QED
    BY <1>2, <1>3, <1>4, <1>5, <2>2, <2>4, <2>5 DEF GetIs, Standing, Adding, b, P, w
<1>6. QED
  BY <1>2, <1>3, <1>5, GetGoesOn DEF i, IInv

\* It is refused for a cycle of the rules, unless adds were mixed before.
LEMMA RefuseGets ==
  ASSUME IInv, TypeInv, GetsInv, NEW t \in Threads, Refuse(t)
  PROVE  GetsInv'
<1> DEFINE i == job[t]
           j == [i EXCEPT !.pc = "undo"]
<1>1. /\ Goes(t, j) /\ UNCHANGED <<setup, next, cached, rules, mixed>> /\ i.pc = "check"
      /\ i = [x \in JobFields |-> i[x]] /\ Closes(KeyOf(t))
  BY DEF Refuse, Moves, At, KeyOf, IInv, Shapes, JobMade
<1>2. /\ j.todo = i.todo /\ j.paths = i.paths /\ j.before = i.before /\ j.alone = i.alone
      /\ j.pc = "undo" /\ j.oldRules = i.oldRules
  BY <1>1 DEF JobFields
<1>3. KeyOf(t) = Head(i.todo).key /\ RuleIn(t) = Head(i.todo).rule
  BY DEF KeyOf, RuleIn, Item
<1>4. InGet(t) => \A u \in Threads \ {t} : job[u].pc = "idle"
  BY DEF GetsInv, GetInv
<1>5. Writing(t) /\ job[t].pc = "check"
  BY <1>1 DEF Writing
<1> HIDE DEF j, i
<1>6. ASSUME NEW root, InGet(t), GetIs(i, root, rules, cached, mixed)
      PROVE  GetIs(j, root, rules', cached', mixed')
  <2> DEFINE w == Faced(i.paths)
             r == i.oldRules
             b == i.before
             P == i.paths
  <2>1. /\ Making(i, root, r, cached) /\ Sound(b, r, root, P, cached)
        /\ rules = [r EXCEPT ![w] = Wired(w).rule]
    BY <1>1, <1>6 DEF GetIs, Standing, Adding
  <2>2. Facing(P) /\ r[w] = NoRule /\ MayMakeUp(b, root, w) /\ i.todo = <<Wired(w)>>
    BY <2>1 DEF Making
  <2>3. w \in Keys /\ r \in RulesMap /\ SetupShape(setup)
    BY <2>1, <2>2, AtPath DEF Facing, Faced
  <2>4. KeyOf(t) = w /\ RuleIn(t) = Wired(w).rule /\ RuleIn(t).deps = setup.annotated[w]
    BY <1>3, <2>2, <2>3, WiredIs
  <2> HIDE DEF w, r
  <2>5. ASSUME ~mixed PROVE LeadsInto(r, w)
    <3>1. PICK C \in SUBSET Keys : w \in C /\ Core(C, rules, graph)
      BY <1>1, <2>4, ClosingLeads DEF Leads
    <3>2. Exact
      BY <2>5 DEF IInv
    <3>3. graph[w] = setup.annotated[w]
      BY <1>5, <2>3, <2>4, <3>2 DEF Exact, InOrder, WrittenBy
    <3>4. NeedsOf(r, w) = ToSet(setup.annotated[w])
      BY <2>2 DEF NeedsOf, MayMakeUp
    <3>5. ASSUME NEW k \in Keys \ {w} PROVE rules[k] = r[k] /\ graph[k] = GraphOf(rules[k])
      <4>1. rules[k] = r[k]
        BY <2>1, <2>3 DEF RulesMap
      <4>2. \A u \in Threads : Writing(u) => KeyOf(u) # k
        BY <1>4, <1>6, <2>4 DEF Writing
      <4>3. rules[k] = accepted[k] /\ graph[k] = GraphOf(accepted[k])
        BY <3>2, <4>2 DEF Exact, Settled
      <4>4. QED
        BY <4>1, <4>3
    <3>6. ASSUME NEW k \in C PROVE NeedsOf(r, k) \cap C # {}
      <4>1. graph[k] # NoEntry /\ \E d \in ToSet(graph[k]) : d \in C
        BY <3>1 DEF Core
      <4>2. CASE k = w
        BY <3>3, <3>4, <4>1, <4>2
      <4>3. CASE k # w
        <5>1. rules[k] = r[k] /\ graph[k] = GraphOf(rules[k])
          BY <3>1, <3>5, <4>3
        <5>2. r[k] # NoRule /\ graph[k] = r[k].deps
          BY <4>1, <5>1 DEF GraphOf
        <5>3. QED
          BY <4>1, <5>2 DEF NeedsOf
      <4>4. QED
        BY <4>2, <4>3
    <3>7. QED
      BY <3>1, <3>6 DEF LeadsInto
  <2>6. Making(j, root, r, cached)
    BY <1>2, <2>1 DEF Making
  <2>7. QED
    BY <1>1, <1>2, <2>1, <2>5, <2>6 DEF GetIs, Standing, Adding, w, r
<1>7. QED
  BY <1>1, <1>2, <1>6, GetGoesOn DEF i, IInv

LEMMA UndoGets ==
  ASSUME IInv, TypeInv, GetsInv, NEW t \in Threads, UndoMap(t)
  PROVE  GetsInv'
<1> DEFINE i == job[t]
           j == [i EXCEPT !.pc = "undo graph"]
<1>1. /\ Goes(t, j) /\ UNCHANGED <<setup, next, cached>> /\ i.pc = "undo"
      /\ i = [x \in JobFields |-> i[x]] /\ rules' = i.oldRules /\ (mixed => mixed')
  BY DEF UndoMap, At, IInv, Shapes, JobMade
<1>2. /\ j.todo = i.todo /\ j.paths = i.paths /\ j.before = i.before /\ j.alone = i.alone
      /\ j.pc = "undo graph" /\ j.oldRules = i.oldRules
  BY <1>1 DEF JobFields
<1> HIDE DEF j, i
<1>3. ASSUME NEW root, GetIs(i, root, rules, cached, mixed)
      PROVE  GetIs(j, root, rules', cached', mixed')
  <2>1. Standing(i, rules) = i.oldRules /\ Standing(j, rules') = i.oldRules
    BY <1>1, <1>2 DEF Standing
  <2>2. /\ Making(i, root, i.oldRules, cached)
        /\ Sound(i.before, i.oldRules, root, i.paths, cached)
        /\ mixed \/ LeadsInto(i.oldRules, Faced(i.paths))
    BY <1>1, <1>3, <2>1 DEF GetIs, Adding
  <2>3. Making(j, root, i.oldRules, cached)
    BY <1>2, <2>2 DEF Making
  <2>4. QED
    BY <1>1, <1>2, <2>1, <2>2, <2>3 DEF GetIs
<1>4. QED
  BY <1>1, <1>2, <1>3, GetGoesOn DEF i, IInv

\* Steps of jobs that are no gets, or end.
LEMMA QuietGets ==
  ASSUME Shapes, GetsInv, NEW t \in Threads, NEW j, Goes(t, j), setup' = setup,
         \A u \in Threads \ {t} : next'[u] = next[u],
         j.pc = "idle" \/ ~Does(t, "get")'
  PROVE  GetsInv'
<1>1. PICK root, rl, c, m : root = Current(t)'.key /\ rl = rules' /\ c = cached' /\ m = mixed'
  OBVIOUS
<1>2. QED
  BY <1>1, GetsKept

LEMMA EndingGets ==
  ASSUME IInv, TypeInv, GetsInv, NEW t \in Threads, Stops(t), setup' = setup
  PROVE  GetsInv'
<1>1. Goes(t, Idle) /\ Idle.pc = "idle"
  BY DEF Stops, Idle
<1>2. \A u \in Threads \ {t} : next'[u] = next[u]
  BY DEF Stops, TypeInv, TypeOK
<1>3. QED
  BY <1>1, <1>2, QuietGets DEF IInv

LEMMA RegisterGets ==
  ASSUME IInv, TypeInv, GetsInv, NEW t \in Threads, Register(t)
  PROVE  GetsInv'
<1>1. CASE Install(t) \/ Assign(t) \/ Validate(t) \/ Scan(t)
  <2>1. PICK j : Goes(t, j) /\ UNCHANGED <<setup, next>>
    BY <1>1 DEF Install, Assign, Validate, Scan, Starts, Moves
  <2>2. ~Does(t, "get")
    BY <1>1 DEF Install, Assign, Validate, Scan, Does
  <2>3. ~Does(t, "get")' /\ \A u \in Threads \ {t} : next'[u] = next[u]
    BY <2>1, <2>2 DEF Does, Current
  <2>4. QED
    BY <2>1, <2>3, QuietGets DEF IInv
<1>2. CASE ReadAgain(t) \/ PassOver(t) \/ TakeItem(t)
  <2>1. PICK j : Goes(t, j) /\ UNCHANGED <<setup, next>>
    BY <1>2 DEF ReadAgain, PassOver, TakeItem, Moves
  <2>2. ~Does(t, "get")
    BY <1>2, NotInGet DEF ReadAgain, PassOver, TakeItem, At
  <2>3. ~Does(t, "get")' /\ \A u \in Threads \ {t} : next'[u] = next[u]
    BY <2>1, <2>2 DEF Does, Current
  <2>4. QED
    BY <2>1, <2>3, QuietGets DEF IInv
<1>3. CASE AssignRefused(t) \/ Duplicate(t) \/ RefuseDuplicate(t) \/ Unreadable(t) \/ EndJob(t)
  <2>1. Stops(t) /\ setup' = setup
    BY <1>3 DEF AssignRefused, Duplicate, RefuseDuplicate, Unreadable, EndJob, Fails, Ends
  <2>2. QED
    BY <2>1, EndingGets
<1>4. QED
  BY <1>1, <1>2, <1>3 DEF Register

LEMMA ResolveGets ==
  ASSUME IInv, TypeInv, GetsInv, NEW t \in Threads, Resolve(t)
  PROVE  GetsInv'
<1>1. CASE MeetItself(t) \/ Ambiguous(t) \/ NotAnnotated(t) \/ NotFound(t) \/ FactoryRaises(t)
         \/ Return(t)
  <2>1. Stops(t) /\ setup' = setup
    BY <1>1 DEF MeetItself, Ambiguous, NotAnnotated, NotFound, FactoryRaises, Calling, Return, Fails, Ends
  <2>2. QED
    BY <2>1, EndingGets
<1>2. QED
  BY <1>1, GetStarts, BackGets, FindGets, MakingGets DEF Resolve

LEMMA AddGets ==
  ASSUME IInv, TypeInv, GetsInv, NEW t \in Threads, Add(t)
  PROVE  GetsInv'
<1>1. CASE UndoGraph(t)
  <2>1. Stops(t) /\ setup' = setup
    BY <1>1 DEF UndoGraph, Ends
  <2>2. QED
    BY <2>1, EndingGets
<1>2. QED
  BY <1>1, WritingGets, AcceptGets, RefuseGets, UndoGets DEF Add

LEMMA StillGets ==
  ASSUME GetsInv, UNCHANGED <<setup, rules, cached, next, job, mixed>>
  PROVE  GetsInv'
<1>1. \A t \in Threads : InGet(t)' <=> InGet(t)
  BY DEF InGet, Does, Current
<1>2. ASSUME NEW t \in Threads, GetInv(t) PROVE GetInv(t)'
  <2>1. PICK j, root, rl, c, m :
          j = job[t] /\ root = Current(t).key /\ rl = rules /\ c = cached /\ m = mixed
    OBVIOUS
  <2>2. GetIs(j, root, rl, c, m)
    BY <1>2, <2>1 DEF GetInv
  <2>3. GetIs(j, root, rl, c, m)'
    BY <2>2, SameGet
  <2>4. j = job'[t] /\ root = Current(t)'.key /\ rl = rules' /\ c = cached' /\ m = mixed'
    BY <2>1 DEF Current
  <2>5. \A u \in Threads \ {t} : job'[u].pc = "idle"
    BY <1>2 DEF GetInv
  <2>6. QED
    BY <2>3, <2>4, <2>5 DEF GetInv
<1>3. QED
  BY <1>1, <1>2 DEF GetsInv

LEMMA GetsAlways == Spec => []GetsInv
<1>1. Init => GetsInv
  <2> SUFFICES ASSUME Init PROVE GetsInv
    OBVIOUS
  <2>1. \A t \in Threads : job[t].pc = "idle"
    BY DEF Init, Idle
  <2>2. QED
    BY <2>1 DEF GetsInv, InGet
<1>2. IInv /\ TypeInv /\ GetsInv /\ [Next]_vars => GetsInv'
  <2> SUFFICES ASSUME IInv, TypeInv, GetsInv, [Next]_vars PROVE GetsInv'
    OBVIOUS
  <2>1. CASE ChangeSource
    BY <2>1, StillGets DEF ChangeSource
  <2>2. CASE UNCHANGED vars
    BY <2>2, StillGets DEF vars
  <2>3. QED
    BY <2>1, <2>2, AddGets, RegisterGets, ResolveGets DEF Next
<1>3. QED
  BY RegistrationInvariance, TypedAlways, <1>1, <1>2, PTL DEF Spec

-----------------------------------------------------------------------------
(* How gets end, for GetExact *)

LEMMA SameJust ==
  ASSUME setup' = setup, mixed => mixed'
  PROVE  \A g : Justified(g) => Justified(g)'
<1> SUFFICES ASSUME NEW g, Justified(g) PROVE Justified(g)'
  OBVIOUS
<1>1. /\ \A r, k : (NeedsOf(r, k)' = NeedsOf(r, k)) /\ (Obtainable(r, k)' <=> Obtainable(r, k))
      /\ \A b : Start(b)' = Start(b)
      /\ \A b, root, k : MayMakeUp(b, root, k)' <=> MayMakeUp(b, root, k)
      /\ \A k : Wired(k)' = Wired(k)
      /\ \A r, k : Buildable(r, k)' <=> Buildable(r, k)
  BY SameNeeds
<1>2. \A r, k, depth : Refusable(r, k, depth)' <=> Refusable(r, k, depth)
  BY <1>1 DEF Refusable
<1> DEFINE b == g.before
           q == g.after
           root == g.key
           E == Start(b)
           F == [k \in Keys |-> NeedsOf(q, k)]
<1>3. b' = b /\ q' = q /\ root' = root /\ g' = g
  OBVIOUS
<1>4. E' = E
  BY <1>1
<1>5. F' = F
  BY <1>1
<1>6. \A k : /\ MayMakeUp(b, root, k)' <=> MayMakeUp(b, root, k)
             /\ Wired(k)' = Wired(k)
             /\ Obtainable(q, k)' <=> Obtainable(q, k)
             /\ Buildable(q, k)' <=> Buildable(q, k)
  BY <1>1
<1>7. \A k, depth : Refusable(q, k, depth)' <=> Refusable(q, k, depth)
  BY <1>2
<1>8. /\ \A k \in Keys : q[k] # b.rules[k] => q[k] = Wired(k).rule /\ MayMakeUp(b, root, k)
      /\ g.result = "ok" =>
           /\ ~CycleFrom(E, root)
           /\ \A k \in ReachFrom(E, root) \ b.cached : Buildable(q, k)
      /\ g.result = "cycle" => mixed \/ CycleFrom(F, root)
      /\ g.result = "raised" => \E k \in ReachFrom(E, root) \ b.cached : q[k].raises
      /\ g.result = "missing" =>
           \E k \in ReachFrom(E, root) : Refusable(q, k, Cardinality(ReachFrom(E, root)))
      /\ g.result = "ambiguous" =>
           \E k \in ReachFrom(E, root) : /\ setup.kind[k] = "class" /\ ~Obtainable(q, k)
                                         /\ \E i \in setup.members[k] : q[i] # NoRule
      /\ g.result = "unannotated" =>
           \E k \in ReachFrom(E, root) : setup.kind[k] = "unannotated" /\ ~Obtainable(q, k)
  BY DEF Justified
<1>9. QED
  BY ONLY <1>3, <1>4, <1>5, <1>6, <1>7, <1>8, setup' = setup, mixed => mixed' DEF Justified, b, q, root, E, F

JustInv == ended = [t \in Threads |-> ended[t]] /\ GetExact

\* A job that ends leaves a get that is justified.
LEMMA EndsJustified ==
  ASSUME TypeInv, GetsInv, JustInv, NEW t \in Threads, NEW result, Ends(t, result), setup' = setup,
         mixed => mixed',
         Current(t).do = "get" =>
           /\ Does(t, "get") /\ job[t].pc # "idle"
           /\ \A root : root = Current(t).key /\ job[t].alone
                          /\ GetIs(job[t], root, rules, cached, mixed) =>
                Justified([key |-> root, result |-> result, alone |-> job[t].alone,
                           before |-> job[t].before, after |-> rules])
  PROVE  JustInv'
<1>1. CASE Current(t).do # "get"
  <2>1. ended' = ended
    BY <1>1 DEF Ends
  <2>2. QED
    BY <2>1, SameJust DEF JustInv, GetExact
<1>2. CASE Current(t).do = "get"
  <2>1. PICK g : g = [key |-> Current(t).key, result |-> result, alone |-> job[t].alone,
                      before |-> job[t].before, after |-> rules]
    OBVIOUS
  <2>2. ended' = [ended EXCEPT ![t] = g]
    BY <1>2, <2>1 DEF Ends
  <2>3. g.alone => Justified(g)
    <3>1. ASSUME g.alone PROVE Justified(g)
      <4>1. InGet(t)
        BY <1>2, <2>1, <3>1 DEF InGet
      <4>2. GetIs(job[t], Current(t).key, rules, cached, mixed)
        BY <4>1 DEF GetsInv, GetInv
      <4>3. QED
        BY <1>2, <2>1, <3>1, <4>2
    <3>2. QED
      BY <3>1
  <2>4. {ended'[u] : u \in Threads} \subseteq {ended[u] : u \in Threads} \cup {g}
    BY <2>2 DEF JustInv
  <2>5. GetExact'
    BY <2>3, <2>4, SameJust DEF JustInv, GetExact
  <2>6. ended' = [u \in Threads |-> ended'[u]]
    BY <2>2 DEF JustInv
  <2>7. QED
    BY <2>5, <2>6 DEF JustInv
<1>3. QED
  BY <1>1, <1>2

\* What a get that runs alone knows when it looks, or has taken a rule back.
LEMMA GetKnows ==
  ASSUME NEW j, NEW root, NEW rl, NEW c, NEW m, GetIs(j, root, rl, c, m),
         j.pc \in {"find", "undo graph"}
  PROVE  Sound(j.before, rl, root, j.paths, c)
BY DEF GetIs, Standing

LEMMA ReturnsJustified ==
  ASSUME TypeInv, GetsInv, JustInv, NEW t \in Threads, Return(t)
  PROVE  JustInv'
<1>1. /\ job[t].pc = "find" /\ job[t].paths = <<>> /\ Ends(t, "ok")
      /\ UNCHANGED <<setup, mixed>>
  BY DEF Return, At, Fails
<1>2. Does(t, "get")
  BY <1>1, PathTyped DEF Doing, Does, Current
<1>3. ASSUME NEW root, GetIs(job[t], root, rules, cached, mixed)
      PROVE  Justified([key |-> root, result |-> "ok", alone |-> job[t].alone,
                        before |-> job[t].before, after |-> rules])
  <2>1. PICK b, P : b = job[t].before /\ P = <<>> /\ Sound(b, rules, root, P, cached)
    BY <1>1, <1>3, GetKnows
  <2>2. Fine(b, rules, root)
    <3>1. ToSet(P) = {}
      BY <2>1 DEF ToSet
    <3>2. QED
      BY <2>1, <3>1 DEF Sound, Branch
  <2>3. \A k \in Keys : rules[k] # b.rules[k] => rules[k] = Wired(k).rule /\ MayMakeUp(b, root, k)
    BY <2>1 DEF Sound, Branch, Grown
  <2>4. PICK g : g = [key |-> root, result |-> "ok", alone |-> job[t].alone,
                      before |-> b, after |-> rules]
    OBVIOUS
  <2>5. g.key = root /\ g.result = "ok" /\ g.before = b /\ g.after = rules
    BY <2>4
  <2>6. Justified(g)
    BY <2>2, <2>3, <2>5 DEF Justified, Fine
  <2>7. QED
    BY <2>1, <2>4, <2>6
<1>4. QED
  BY <1>1, <1>2, <1>3, EndsJustified

\* A factory raises: all that it waits for is there, and its rule says so.
LEMMA RaisesJustified ==
  ASSUME TypeInv, GetsInv, JustInv, NEW t \in Threads, FactoryRaises(t)
  PROVE  JustInv'
<1>1. /\ job[t].pc = "find" /\ job[t].paths # <<>> /\ Ends(t, "raised")
      /\ Head(job[t].paths).back /\ Head(job[t].paths).raises
      /\ UNCHANGED <<setup, mixed>>
  BY DEF FactoryRaises, Calling, At, Fails
<1>2. Does(t, "get")
  BY <1>1, PathTyped DEF Doing, Does, Current
<1>3. ASSUME NEW root, GetIs(job[t], root, rules, cached, mixed)
      PROVE  Justified([key |-> root, result |-> "raised", alone |-> job[t].alone,
                        before |-> job[t].before, after |-> rules])
  <2>1. PICK b, P : b = job[t].before /\ P = job[t].paths /\ Sound(b, rules, root, P, cached)
    BY <1>1, <1>3, GetKnows
  <2>2. P # <<>> /\ Head(P).back /\ Head(P).raises
    BY <1>1, <2>1
  <2>3. Waits(b, rules, P, Head(P))
    <3>1. P \in Seq(Steps) /\ Branch(b, rules, root, P, cached)
      BY <2>1 DEF Sound
    <3>2. Head(P) \in ToSet(P)
      BY <2>2, <3>1, HeadOff
    <3>3. QED
      BY <3>1, <3>2 DEF Branch
  <2>4. PICK k : /\ k \in ReachFrom(Start(b), root) \ b.cached /\ rules[k].raises
    <3>1. Last(Head(P).path) \in ReachFrom(Start(b), root)
      BY <2>1, <2>2, AtPath
    <3>2. Last(Head(P).path) \notin b.cached /\ rules[Last(Head(P).path)].raises
      BY <2>2, <2>3 DEF Waits
    <3>3. QED
      BY <3>1, <3>2
  <2>5. \A i \in Keys : rules[i] # b.rules[i] => rules[i] = Wired(i).rule /\ MayMakeUp(b, root, i)
    BY <2>1 DEF Sound, Branch, Grown
  <2>6. PICK g : g = [key |-> root, result |-> "raised", alone |-> job[t].alone,
                      before |-> b, after |-> rules]
    OBVIOUS
  <2>7. g.key = root /\ g.result = "raised" /\ g.before = b /\ g.after = rules
    BY <2>6
  <2>8. Justified(g)
    BY <2>4, <2>5, <2>7 DEF Justified
  <2>9. QED
    BY <2>1, <2>6, <2>8
<1>4. QED
  BY <1>1, <1>2, <1>3, EndsJustified

\* A get meets a key that it is at, or takes back a rule that closes a cycle.
LEMMA CyclesJustified ==
  ASSUME TypeInv, GetsInv, JustInv, NEW t \in Threads, MeetItself(t) \/ UndoGraph(t)
  PROVE  JustInv'
<1>1. /\ job[t].pc \in {"find", "undo graph"} /\ Ends(t, "cycle") /\ setup' = setup
      /\ mixed => mixed'
      /\ job[t].pc = "find" => /\ job[t].paths # <<>>
                               /\ Last(Head(job[t].paths).path) \in ToSet(Front(Head(job[t].paths).path))
  <2>1. CASE MeetItself(t)
    BY <2>1 DEF MeetItself, Looking, Wanted, Path, At, Fails
  <2>2. CASE UndoGraph(t)
    BY <2>2 DEF UndoGraph, At
  <2>3. QED
    BY <2>1, <2>2
<1>2. Fits(t, job[t], next[t]) /\ job[t].pc # "idle"
  BY <1>1 DEF TypeInv
<1>3. Current(t).do = "get" => Does(t, "get")
  BY <1>2 DEF Fits, Doing, Does, Current
<1>4. ASSUME NEW root, GetIs(job[t], root, rules, cached, mixed)
      PROVE  Justified([key |-> root, result |-> "cycle", alone |-> job[t].alone,
                        before |-> job[t].before, after |-> rules])
  <2>1. PICK b, P, p : /\ b = job[t].before /\ P = job[t].paths /\ p = Head(P).path
                       /\ Sound(b, rules, root, P, cached)
    BY <1>1, <1>4, GetKnows
  <2>2. /\ P # <<>>
        /\ mixed \/ Last(p) \in ToSet(Front(p)) \/ LeadsInto(rules, Last(p))
    <3>1. CASE job[t].pc = "find"
      BY <1>1, <2>1, <3>1
    <3>2. CASE job[t].pc = "undo graph"
      BY <1>4, <2>1, <3>2 DEF GetIs, Adding, Standing, Making, Facing, Faced
    <3>3. QED
      BY <1>1, <3>1, <3>2
  <2>3. /\ SetupShape(setup) /\ b \in Begin /\ root \in Keys /\ p \in Seq(Keys) \ {<<>>}
        /\ OnPath(b, rules, root, p)
    BY <2>1, <2>2, AtPath
  <2>4. mixed \/ CycleFrom([k \in Keys |-> NeedsOf(rules, k)], root)
    BY <2>2, <2>3, PathToCycle DEF LeadsInto
  <2>5. \A k \in Keys : rules[k] # b.rules[k] => rules[k] = Wired(k).rule /\ MayMakeUp(b, root, k)
    BY <2>1 DEF Sound, Branch, Grown
  <2>6. PICK g : g = [key |-> root, result |-> "cycle", alone |-> job[t].alone,
                      before |-> b, after |-> rules]
    OBVIOUS
  <2>7. g.key = root /\ g.result = "cycle" /\ g.before = b /\ g.after = rules
    BY <2>6
  <2>8. Justified(g)
    BY <2>4, <2>5, <2>7 DEF Justified
  <2>9. QED
    BY <2>1, <2>6, <2>8
<1>5. QED
  BY <1>1, <1>2, <1>3, <1>4, EndsJustified

\* A get does without the key that it is at.
LEMMA RefusalsJustified ==
  ASSUME TypeInv, GetsInv, JustInv, NEW t \in Threads, NEW result,
         \/ NotFound(t) /\ result = "missing"
         \/ Ambiguous(t) /\ result = "ambiguous"
         \/ NotAnnotated(t) /\ result = "unannotated"
  PROVE  JustInv'
<1> DEFINE w == Wanted(t)
<1>1. /\ job[t].pc = "find" /\ job[t].paths # <<>> /\ ~Head(job[t].paths).back /\ rules[w] = NoRule
      /\ w \notin ToSet(Front(Path(t)))
      /\ Ends(t, result) /\ UNCHANGED <<setup, mixed>>
  BY DEF NotFound, Ambiguous, NotAnnotated, Missing, Looking, Known, At, Fails
<1>2. Does(t, "get")
  BY <1>1, PathTyped DEF Doing, Does, Current
<1>3. ASSUME NEW root, GetIs(job[t], root, rules, cached, mixed)
      PROVE  Justified([key |-> root, result |-> result, alone |-> job[t].alone,
                        before |-> job[t].before, after |-> rules])
  <2>1. PICK b, P, p : /\ b = job[t].before /\ P = job[t].paths /\ p = Head(P).path
                       /\ Sound(b, rules, root, P, cached)
    BY <1>1, <1>3, GetKnows
  <2> DEFINE built == ReachFrom(Start(b), root)
  <2>2. /\ SetupShape(setup) /\ b \in Begin /\ root \in Keys /\ p \in Seq(Keys) \ {<<>>}
        /\ OnPath(b, rules, root, p) /\ Last(p) \in built /\ Last(p) \in Keys /\ rules \in RulesMap
    BY <1>1, <2>1, AtPath
  <2>3. w = Last(p) /\ Path(t) = p
    BY <2>1 DEF Wanted, Path
  <2>4. Len(p) <= Cardinality(built) /\ Cardinality(built) \in Nat /\ Len(p) \in Nat
    BY <1>1, <2>2, <2>3, PathsAreShort
  <2>5. /\ setup.kind[w] \in Kinds /\ setup.members[w] \subseteq Keys /\ setup.maxDepth \in Nat
    BY <2>2, <2>3, SetupHas DEF SetupShape
  <2> HIDE DEF w, built
  <2>6. setup.kind[w] # "collection" => ~Obtainable(rules, w)
    BY <1>1 DEF Obtainable
  <2>7. Members(w) = {i \in setup.members[w] : rules[i] # NoRule}
    BY DEF Members, Known
  <2>8. ASSUME NotFound(t) PROVE Refusable(rules, w, Cardinality(built))
    <3>1. ~job[t].tried
      BY <1>1, <1>3, <2>1, <2>3 DEF GetIs, Faced
    <3>2. /\ setup.kind[w] \notin {"injectable", "unannotated"} /\ ~Eligible(w, Len(p))
          /\ setup.kind[w] = "collection" => Members(w) = {}
      BY <2>3, <2>8, <3>1 DEF NotFound, w
    <3>3. ~Obtainable(rules, w)
      BY <1>1, <2>6, <2>7, <3>2 DEF Obtainable, NeedsOf
    <3>4. setup.kind[w] = "class" =>
            ~setup.fallback \/ Cardinality(built) > setup.maxDepth
      <4> DEFINE n == Cardinality(built)
                 l == Len(p)
                 d == setup.maxDepth
      <4>1. l <= n /\ n \in Nat /\ l \in Nat /\ d \in Nat
        BY <2>4, <2>5
      <4>2. setup.kind[w] = "class" => ~setup.fallback \/ ~(l <= d)
        BY <3>2 DEF Eligible
      <4> HIDE DEF n, l, d
      <4>3. ~(l <= d) => n > d
        BY <4>1
      <4>4. QED
        BY <4>2, <4>3 DEF n, d
    <3>5. Refusable(rules, w, Cardinality(built))
      BY <2>5, <3>2, <3>3, <3>4 DEF Refusable, Kinds
    <3>6. QED
      BY <3>5
  <2>9. ASSUME Ambiguous(t)
        PROVE  /\ setup.kind[w] = "class" /\ ~Obtainable(rules, w)
               /\ \E i \in setup.members[w] : rules[i] # NoRule
    <3>1. setup.kind[w] = "class" /\ Members(w) # {}
      BY <2>9 DEF Ambiguous, Eligible, Makeable, w
    <3>2. QED
      BY <2>6, <2>7, <3>1
  <2>10. ASSUME NotAnnotated(t) PROVE setup.kind[w] = "unannotated" /\ ~Obtainable(rules, w)
    <3>1. setup.kind[w] = "unannotated"
      BY <2>10 DEF NotAnnotated, w
    <3>2. QED
      BY <2>6, <3>1
  <2>11. \/ result = "missing" /\ Refusable(rules, w, Cardinality(built))
         \/ /\ result = "ambiguous" /\ setup.kind[w] = "class" /\ ~Obtainable(rules, w)
            /\ \E i \in setup.members[w] : rules[i] # NoRule
         \/ result = "unannotated" /\ setup.kind[w] = "unannotated" /\ ~Obtainable(rules, w)
    BY <2>8, <2>9, <2>10
  <2>12. \A k \in Keys : rules[k] # b.rules[k] => rules[k] = Wired(k).rule /\ MayMakeUp(b, root, k)
    BY <2>1 DEF Sound, Branch, Grown
  <2>13. PICK g : g = [key |-> root, result |-> result, alone |-> job[t].alone,
                       before |-> b, after |-> rules]
    OBVIOUS
  <2>14. g.key = root /\ g.result = result /\ g.before = b /\ g.after = rules
    BY <2>13
  <2>15. w \in built
    BY <2>2, <2>3
  <2>16. Justified(g)
    BY <2>11, <2>12, <2>14, <2>15 DEF Justified, built
  <2>17. QED
    BY <2>1, <2>13, <2>16
<1>4. QED
  BY <1>1, <1>2, <1>3, EndsJustified

LEMMA SameEnds ==
  ASSUME JustInv, UNCHANGED <<setup, ended>>, mixed => mixed'
  PROVE  JustInv'
BY SameJust DEF JustInv, GetExact

LEMMA RegisterJustified ==
  ASSUME TypeInv, GetsInv, JustInv, NEW t \in Threads, Register(t)
  PROVE  JustInv'
<1>1. CASE Install(t) \/ Assign(t) \/ Validate(t) \/ Scan(t) \/ ReadAgain(t) \/ PassOver(t) \/ TakeItem(t)
  <2>1. UNCHANGED <<setup, ended, mixed>>
    BY <1>1 DEF Install, Assign, Validate, Scan, ReadAgain, PassOver, TakeItem, Starts, Moves
  <2>2. QED
    BY <2>1, SameEnds
<1>2. CASE AssignRefused(t) \/ Duplicate(t) \/ RefuseDuplicate(t) \/ Unreadable(t) \/ EndJob(t)
  <2>1. PICK result : Ends(t, result) /\ UNCHANGED <<setup, mixed>>
    BY <1>2 DEF AssignRefused, Duplicate, RefuseDuplicate, Unreadable, EndJob, Fails
  <2>2. Current(t).do # "get"
    <3>1. CASE AssignRefused(t) \/ Duplicate(t)
      BY <3>1 DEF AssignRefused, Duplicate, Does
    <3>2. CASE RefuseDuplicate(t) \/ Unreadable(t) \/ EndJob(t)
      <4>1. Fits(t, job[t], next[t]) /\ job[t].pc = "item"
        BY <3>2 DEF RefuseDuplicate, Unreadable, EndJob, At, TypeInv
      <4>2. PICK do \in Jobs : Doing(t, next[t], do) /\ Holds(job[t], do)
        BY <4>1 DEF Fits
      <4>3. QED
        BY <4>1, <4>2 DEF Doing, Holds, Current
    <3>3. QED
      BY <1>2, <3>1, <3>2
  <2>3. QED
    BY <2>1, <2>2, EndsJustified
<1>3. QED
  BY <1>1, <1>2 DEF Register

LEMMA StepsJustified ==
  ASSUME TypeInv, GetsInv, JustInv, NEW t \in Threads, Add(t) \/ Resolve(t)
  PROVE  JustInv'
<1>1. CASE CopyMap(t) \/ CopyGraph(t) \/ WriteMap(t) \/ WriteGraph(t) \/ Accept(t) \/ Refuse(t) \/ UndoMap(t)
  <2>1. UNCHANGED <<setup, ended>> /\ (mixed => mixed')
    <3>1. CASE CopyMap(t) \/ CopyGraph(t) \/ Refuse(t)
      <4>1. PICK j : Moves(t, j)
        BY <3>1 DEF CopyMap, CopyGraph, Refuse
      <4>2. QED
        BY <4>1 DEF Moves
    <3>2. CASE WriteMap(t) \/ WriteGraph(t)
      BY <3>2 DEF WriteMap, WriteGraph
    <3>3. CASE Accept(t) \/ UndoMap(t)
      <4>1. CASE Accept(t)
        BY <4>1 DEF Accept
      <4>2. CASE UndoMap(t)
        BY <4>2 DEF UndoMap
      <4>3. QED
        BY <3>3, <4>1, <4>2
    <3>4. QED
      BY <1>1, <3>1, <3>2, <3>3
  <2>2. QED
    BY <2>1, SameEnds
<1>2. CASE Get(t) \/ Hit(t) \/ Find(t) \/ Collect(t) \/ MakeUp(t) \/ Build(t)
  <2>1. UNCHANGED <<setup, ended, mixed>>
    BY <1>2 DEF Get, Hit, Find, Collect, MakeUp, Build, StoreResult, Calling, Starts, Moves, Descends
  <2>2. QED
    BY <2>1, SameEnds
<1>3. QED
  BY <1>1, <1>2, ReturnsJustified, CyclesJustified, RefusalsJustified, RaisesJustified DEF Add, Resolve

LEMMA GetsJustified == Spec => []JustInv
<1>1. Init => JustInv
  <2> SUFFICES ASSUME Init PROVE JustInv
    OBVIOUS
  <2>1. ended = [t \in Threads |-> NoGet]
    BY DEF Init
  <2>2. QED
    BY <2>1 DEF JustInv, GetExact
<1>2. TypeInv /\ GetsInv /\ JustInv /\ [Next]_vars => JustInv'
  <2> SUFFICES ASSUME TypeInv, GetsInv, JustInv, [Next]_vars PROVE JustInv'
    OBVIOUS
  <2>1. CASE ChangeSource
    BY <2>1, SameEnds DEF ChangeSource
  <2>2. CASE UNCHANGED vars
    BY <2>2, SameEnds DEF vars
  <2>3. QED
    BY <2>1, <2>2, RegisterJustified, StepsJustified DEF Next
<1>3. QED
  BY TypedAlways, GetsAlways, <1>1, <1>2, PTL DEF Spec

\* A get that nothing runs beside makes up rules for classes it needs and nothing
\* else; it succeeds only when what it needs has no cycle and can all be made by
\* factories that do not raise, and it fails only for a cycle, a type no rule may be
\* made for, a class with qualified rules, or a factory that it needs and that raises.
THEOREM GetsAreExact == Spec => []GetExact
<1>1. JustInv => GetExact
  BY DEF JustInv
<1>2. QED
  BY GetsJustified, <1>1, PTL
=============================================================================
