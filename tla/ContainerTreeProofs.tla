------------------------- MODULE ContainerTreeProofs -------------------------
(***************************************************************************)
(* Theorems about a container and its child, for all rules, overrides and  *)
(* orders of calls: what the child's cached views hold, and whose          *)
(* instances the two containers return.                                    *)
(***************************************************************************)
EXTENDS ContainerTree, TLAPS

\* Every rule in force was accepted, and the view of the rules has the child's
\* own before the parent's.
RulesKept ==
  /\ \A c \in Containers, k \in Keys : own[c][k] \in accepted \cup {NoRule}
  /\ ViewsAccepted /\ LocalRulesWin

\* For a key that the child has no rule of its own for, the parent's cache has
\* the instance that both return.
SharedCache(k) ==
  ~IsLocal(k) =>
    /\ single["child"][k] \in {NoObj, single["parent"][k]}
    /\ \A c \in Containers : handed[c][k] \subseteq {single["parent"][k]} \ {NoObj}

IInv ==
  /\ TypeOK /\ version \in [Containers -> Nat]
  /\ RulesKept
  /\ \A k \in Keys : SharedCache(k)

-----------------------------------------------------------------------------
(* The operators of the model *)

LEMMA OverlayType ==
  ASSUME NEW local \in [Keys -> Offers \cup {NoRule}], NEW base \in [Keys -> Offers \cup {NoRule}]
  PROVE  Overlay(local, base) \in [Keys -> Offers \cup {NoRule}]
  BY DEF Overlay

LEMMA GraphType ==
  ASSUME NEW rs \in [Keys -> Offers \cup {NoRule}]
  PROVE  Graph(rs) \in [Keys -> SUBSET Keys]
<1>1. \A k \in Keys : DepsIn(rs, k) \subseteq Keys
  BY TreeAssumption DEF DepsIn
<1> QED BY <1>1 DEF Graph

\* What the child reads is of the right shape, however old.
LEMMA ReadTypes ==
  ASSUME TypeOK
  PROVE  /\ Merged \in [Keys -> Offers \cup {NoRule}]
         /\ MapRead \in [Keys -> Offers \cup {NoRule}]
         /\ GraphRead \in [Keys -> SUBSET Keys]
         /\ GraphReadAfterMap \in [Keys -> SUBSET Keys]
<1>1. own["child"] \in [Keys -> Offers \cup {NoRule}] /\ own["parent"] \in [Keys -> Offers \cup {NoRule}]
  BY DEF TypeOK, Containers
<1>2. Merged \in [Keys -> Offers \cup {NoRule}]
  BY <1>1, OverlayType DEF Merged
<1>3. Graph(Merged) \in [Keys -> SUBSET Keys]
  BY <1>2, GraphType
<1> QED BY <1>2, <1>3 DEF TypeOK, MapRead, GraphRead, GraphReadAfterMap

\* The child's view of the rules after a read has accepted rules only, its own
\* before the parent's.
LEMMA ReadKept ==
  ASSUME RulesKept
  PROVE  \A k \in Keys : /\ MapRead[k] \in accepted \cup {NoRule}
                         /\ IsLocal(k) => MapRead[k] = own["child"][k]
<1>1. \A k \in Keys : /\ Merged[k] \in accepted \cup {NoRule}
                      /\ IsLocal(k) => Merged[k] = own["child"][k]
  BY DEF RulesKept, Merged, Overlay, IsLocal, Containers
<1> QED BY <1>1 DEF RulesKept, ViewsAccepted, LocalRulesWin, MapRead

LEMMA ProvenanceType ==
  ASSUME TypeOK, NEW c \in Containers, NEW k \in Keys
  PROVE  Provenance(c, k) \subseteq Origins
<1> DEFINE E == [j \in Keys |-> IF Stops(c, j) THEN {} ELSE DepsIn(RulesOf(c), j)]
           origin(j) == IF j \in Overridden(c) THEN {"override"}
                        ELSE IF Cached(c, j) # NoObj THEN Cached(c, j).from
                        ELSE {Layer(c, j)}
<1>1. ASSUME NEW j \in Keys PROVE origin(j) \subseteq Origins
  <2>1. Cached(c, j) \in Obj \cup {NoObj}
    BY DEF TypeOK, Cached, Containers
  <2>2. Cached(c, j) # NoObj => Cached(c, j).from \subseteq Origins
    BY <2>1 DEF Obj
  <2>3. Layer(c, j) \in Origins
    BY DEF Layer, Origins, Containers
  <2> QED BY <2>2, <2>3 DEF Origins
<1>2. Reach(E, {k}) \subseteq Keys
  BY DEF Reach
<1>3. Provenance(c, k) = UNION {origin(j) : j \in Reach(E, {k})}
  BY DEF Provenance
<1> QED BY <1>1, <1>2, <1>3

-----------------------------------------------------------------------------
(* The steps *)

LEMMA InitTree == Init => IInv
<1> SUFFICES ASSUME Init PROVE IInv
  OBVIOUS
<1>1. TypeOK
  BY TreeAssumption DEF Init, TypeOK, Containers
<1>2. version \in [Containers -> Nat]
  BY DEF Init
<1>3. RulesKept
  BY DEF Init, RulesKept, ViewsAccepted, LocalRulesWin
<1>4. \A k \in Keys : SharedCache(k)
  BY DEF Init, SharedCache, Containers
<1> QED BY <1>1, <1>2, <1>3, <1>4 DEF IInv

LEMMA RegisterOnParentKeeps ==
  ASSUME IInv, NEW r \in Offers, RegisterOnParent(r)
  PROVE  IInv'
<1> USE DEF IInv
<1> DEFINE new == [own["parent"] EXCEPT ![r.key] = r]
<1>1. r.key \in Keys
  BY TreeAssumption
<1>2. /\ own' = [own EXCEPT !["parent"] = new]
      /\ version' = [version EXCEPT !["parent"] = @ + 1]
      /\ version["parent"] < MaxVersion["parent"]
      /\ accepted' = accepted \cup {r}
      /\ UNCHANGED <<mapView, graphView, seen, single, layers, made, handed>>
  BY DEF RegisterOnParent
<1>3. /\ new \in [Keys -> Offers \cup {NoRule}]
      /\ \A k \in Keys : new[k] = IF k = r.key THEN r ELSE own["parent"][k]
  BY <1>1 DEF TypeOK, Containers
<1> HIDE DEF new
<1>4. own'["child"] = own["child"] /\ own'["parent"] = new
      /\ own' \in [Containers -> [Keys -> Offers \cup {NoRule}]]
  BY <1>2, <1>3 DEF TypeOK, Containers
<1>5. /\ version' \in [Containers -> Nat]
      /\ \A c \in Containers : version'[c] \in 0..MaxVersion[c]
  <2>1. MaxVersion["parent"] \in Nat /\ MaxVersion["child"] \in Nat
        /\ version["parent"] \in Nat /\ version["child"] \in Nat
    BY TreeAssumption DEF Containers
  <2>2. version'["parent"] = version["parent"] + 1 /\ version'["child"] = version["child"]
    BY <1>2 DEF Containers
  <2>3. version["child"] \in 0..MaxVersion["child"]
    BY DEF TypeOK, Containers
  <2> QED BY <1>2, <2>1, <2>2, <2>3 DEF Containers
<1>6. TypeOK'
  BY <1>2, <1>4, <1>5 DEF TypeOK
<1>7. RulesKept'
  BY <1>2, <1>3, <1>4 DEF RulesKept, ViewsAccepted, LocalRulesWin, IsLocal, Containers
<1>8. \A k \in Keys : SharedCache(k)'
  BY <1>2, <1>4 DEF SharedCache, IsLocal
<1> QED BY <1>5, <1>6, <1>7, <1>8

LEMMA RegisterOnChildKeeps ==
  ASSUME IInv, NEW r \in Offers, RegisterOnChild(r)
  PROVE  IInv'
<1> USE DEF IInv
<1> DEFINE new == [own["child"] EXCEPT ![r.key] = r]
           merged == Overlay(new, own["parent"])
<1>1. r.key \in Keys /\ r # NoRule
  BY TreeAssumption
<1>2. /\ new \in [Keys -> Offers \cup {NoRule}]
      /\ \A k \in Keys : new[k] = IF k = r.key THEN r ELSE own["child"][k]
      /\ own["parent"] \in [Keys -> Offers \cup {NoRule}]
  BY <1>1 DEF TypeOK, Containers
<1>3. /\ version["child"] < MaxVersion["child"]
      /\ IF FindsCycle(merged, Graph(merged), r.key)
         THEN /\ mapView' = NoView /\ graphView' = NoView
              /\ UNCHANGED <<own, version, accepted>>
         ELSE /\ mapView' = merged /\ graphView' = Graph(merged)
              /\ own' = [own EXCEPT !["child"] = new]
              /\ version' = [version EXCEPT !["child"] = @ + 1]
              /\ accepted' = accepted \cup {r}
      /\ seen' = version["parent"]
      /\ UNCHANGED <<single, layers, made, handed>>
  BY DEF RegisterOnChild
<1> HIDE DEF new
<1>4. merged \in [Keys -> Offers \cup {NoRule}] /\ Graph(merged) \in [Keys -> SUBSET Keys]
  BY <1>2, OverlayType, GraphType
<1>5. \A k \in Keys : merged[k] = IF new[k] # NoRule THEN new[k] ELSE own["parent"][k]
  BY DEF Overlay
<1> HIDE DEF merged
<1>6. version["parent"] \in -1..MaxVersion["parent"]
  BY TreeAssumption DEF TypeOK, Containers
<1>7. CASE FindsCycle(merged, Graph(merged), r.key)
  <2>1. /\ mapView' = NoView /\ graphView' = NoView
        /\ UNCHANGED <<own, version, accepted, single, layers, made, handed>>
        /\ seen' = version["parent"]
    BY <1>3, <1>7
  <2>2. TypeOK'
    BY <1>6, <2>1 DEF TypeOK
  <2>3. RulesKept'
    BY <2>1 DEF RulesKept, ViewsAccepted, LocalRulesWin
  <2>4. \A k \in Keys : SharedCache(k)'
    BY <2>1 DEF SharedCache, IsLocal
  <2> QED BY <2>1, <2>2, <2>3, <2>4
<1>8. CASE ~FindsCycle(merged, Graph(merged), r.key)
  <2>1. /\ mapView' = merged /\ graphView' = Graph(merged)
        /\ own' = [own EXCEPT !["child"] = new]
        /\ version' = [version EXCEPT !["child"] = @ + 1]
        /\ accepted' = accepted \cup {r}
        /\ UNCHANGED <<single, layers, made, handed>>
        /\ seen' = version["parent"]
    BY <1>3, <1>8
  <2>2. own'["child"] = new /\ own'["parent"] = own["parent"]
        /\ own' \in [Containers -> [Keys -> Offers \cup {NoRule}]]
    BY <1>2, <2>1 DEF TypeOK, Containers
  <2>3. /\ version' \in [Containers -> Nat]
        /\ \A c \in Containers : version'[c] \in 0..MaxVersion[c]
    <3>1. MaxVersion["parent"] \in Nat /\ MaxVersion["child"] \in Nat
          /\ version["parent"] \in Nat /\ version["child"] \in Nat
      BY TreeAssumption DEF Containers
    <3>2. version'["child"] = version["child"] + 1 /\ version'["parent"] = version["parent"]
      BY <2>1 DEF Containers
    <3>3. version["parent"] \in 0..MaxVersion["parent"]
      BY DEF TypeOK, Containers
    <3> QED BY <1>3, <2>1, <3>1, <3>2, <3>3 DEF Containers
  <2>4. TypeOK'
    BY <1>4, <1>6, <2>1, <2>2, <2>3 DEF TypeOK
  <2>5. RulesKept'
    <3>1. \A k \in Keys : /\ new[k] \in accepted' \cup {NoRule}
                          /\ own["parent"][k] \in accepted' \cup {NoRule}
      BY <1>2, <2>1 DEF RulesKept, Containers
    <3> QED BY <1>5, <2>1, <2>2, <3>1 DEF RulesKept, ViewsAccepted, LocalRulesWin, IsLocal, Containers
  <2>6. \A k \in Keys : SharedCache(k)'
    <3>1. \A k \in Keys : IsLocal(k) => IsLocal(k)'
      BY <1>1, <1>2, <2>2 DEF IsLocal
    <3> QED BY <2>1, <3>1 DEF SharedCache
  <2> QED BY <2>3, <2>4, <2>5, <2>6
<1> QED BY <1>7, <1>8

\* Reading the views changes none of what the properties are about.
LEMMA ReadingKeeps ==
  ASSUME IInv,
         mapView' \in {mapView, MapRead},
         graphView' \in {graphView, GraphRead, GraphReadAfterMap},
         seen' \in {seen, version["parent"]},
         layers' \in [Containers -> Seq(OverrideSets)],
         UNCHANGED <<own, version, single, made, handed, accepted>>
  PROVE  IInv'
<1> USE DEF IInv
<1>1. version["parent"] \in -1..MaxVersion["parent"]
  BY TreeAssumption DEF TypeOK, Containers
<1>2. TypeOK'
  BY <1>1, ReadTypes DEF TypeOK
<1>3. RulesKept'
  BY ReadKept DEF RulesKept, ViewsAccepted, LocalRulesWin, IsLocal
<1>4. \A k \in Keys : SharedCache(k)'
  BY DEF SharedCache, IsLocal
<1> QED BY <1>2, <1>3, <1>4

LEMMA OverrideKeeps ==
  ASSUME IInv, NEW c \in Containers,
         (\E S \in OverrideSets : EnterOverride(c, S)) \/ ExitOverride(c)
  PROVE  IInv'
<1>1. layers[c] \in Seq(OverrideSets) /\ layers \in [Containers -> Seq(OverrideSets)]
  BY DEF IInv, TypeOK
<1>2. ASSUME NEW S \in OverrideSets, EnterOverride(c, S) PROVE IInv'
  <2>1. layers' \in [Containers -> Seq(OverrideSets)]
    BY <1>1, <1>2 DEF EnterOverride
  <2>2. mapView' \in {mapView, MapRead} /\ seen' \in {seen, version["parent"]}
    BY <1>2 DEF EnterOverride
  <2> QED BY <1>2, <2>1, <2>2, ReadingKeeps DEF EnterOverride
<1>3. ASSUME ExitOverride(c) PROVE IInv'
  <2>1. Front(layers[c]) \in Seq(OverrideSets)
    BY <1>1, <1>3 DEF ExitOverride, Front
  <2>2. layers' \in [Containers -> Seq(OverrideSets)]
    BY <1>1, <1>3, <2>1 DEF ExitOverride
  <2> QED BY <1>3, <2>2, ReadingKeeps DEF ExitOverride
<1> QED BY <1>2, <1>3

\* What a lookup finds for a key without a rule on the child is what the
\* parent's cache has.
LEMMA CachedShared ==
  ASSUME TypeOK, NEW k \in Keys, SharedCache(k), ~IsLocal(k), NEW c \in Containers
  PROVE  Cached(c, k) = single["parent"][k]
  BY DEF SharedCache, Cached, Containers

LEMMA HitKeeps ==
  ASSUME IInv, NEW c \in Containers, NEW k \in Keys, Hit(c, k)
  PROVE  IInv'
<1> USE DEF IInv
<1>1. /\ Cached(c, k) # NoObj
      /\ handed' = [handed EXCEPT ![c][k] = @ \cup {Cached(c, k)}]
      /\ UNCHANGED <<own, version, mapView, graphView, seen, single, layers, made, accepted>>
  BY DEF Hit
<1>2. Cached(c, k) \in Obj
  BY <1>1 DEF TypeOK, Cached, Containers
<1>3. handed' \in [Containers -> [Keys -> SUBSET Obj]]
  BY <1>1, <1>2 DEF TypeOK
<1>4. \A d \in Containers, j \in Keys :
        handed'[d][j] = IF d = c /\ j = k THEN handed[d][j] \cup {Cached(c, k)} ELSE handed[d][j]
  BY <1>1 DEF TypeOK
<1>5. TypeOK'
  BY <1>1, <1>3 DEF TypeOK
<1>6. RulesKept'
  BY <1>1 DEF RulesKept, ViewsAccepted, LocalRulesWin, IsLocal
<1>7. ~IsLocal(k) => Cached(c, k) = single["parent"][k]
  BY CachedShared
<1>8. \A j \in Keys : SharedCache(j)'
  BY <1>1, <1>4, <1>7 DEF SharedCache, IsLocal
<1> QED BY <1>1, <1>5, <1>6, <1>8

\* A miss fills both caches for keys without a rule on the child, and only
\* where neither had an instance.
LEMMA ResolveKeeps ==
  ASSUME IInv, NEW c \in Containers, NEW k \in Keys, NEW mode \in {"get", "aget"},
         Resolve(c, k, mode)
  PROVE  IInv'
<1> USE DEF IInv
<1> DEFINE E == Needs(c, mode)
           open(j) == {i \in E[j] : ~Stops(c, i)}
           built(done) == {j \in done : RulesOf(c)[j].single}
           objs(done) ==
             [j \in built(done) |-> [key |-> j, n |-> made[j] + 1, from |-> Provenance(c, j)]]
<1>1. PICK done \in SUBSET {j \in Reach(E, {k}) : ~Stops(c, j) /\ Resolvable(c, mode, j)} :
        /\ Cache(c, objs(done))
        /\ made' = [j \in Keys |-> IF j \in built(done) THEN made[j] + 1 ELSE made[j]]
        /\ handed' = IF k \in built(done)
                     THEN [handed EXCEPT ![c][k] = @ \cup {objs(done)[k]}] ELSE handed
  BY DEF Resolve
<1>2. /\ built(done) \subseteq Keys
      /\ \A j \in built(done) : Cached(c, j) = NoObj
  BY <1>1 DEF Reach, Stops
<1>3. \A j \in built(done) : objs(done)[j] \in Obj
  <2> SUFFICES ASSUME NEW j \in built(done)
               PROVE  [key |-> j, n |-> made[j] + 1, from |-> Provenance(c, j)] \in Obj
    OBVIOUS
  <2>1. made[j] \in Nat /\ j \in Keys /\ Provenance(c, j) \in SUBSET Origins
    BY <1>2, ProvenanceType DEF TypeOK
  <2> QED BY <2>1 DEF Obj
<1> DEFINE B == built(done)
           new == objs(done)
<1>4. DOMAIN new = B
  OBVIOUS
<1> HIDE DEF B, new, built, objs
<1>5. /\ B \subseteq Keys /\ \A j \in B : new[j] \in Obj /\ Cached(c, j) = NoObj
      /\ made' = [j \in Keys |-> IF j \in B THEN made[j] + 1 ELSE made[j]]
      /\ handed' = IF k \in B THEN [handed EXCEPT ![c][k] = @ \cup {new[k]}] ELSE handed
      /\ Cache(c, new)
  BY <1>1, <1>2, <1>3 DEF B, new
<1>6. /\ UNCHANGED <<own, version, layers, accepted>>
      /\ mapView' \in {mapView, MapRead}
      /\ graphView' \in {graphView, GraphReadAfterMap}
      /\ seen' \in {seen, version["parent"]}
  BY DEF Resolve, ReadViews
<1>7. \A d \in Containers, j \in Keys :
        single'[d][j] = IF j \in B /\ (d = c \/ (c = "child" /\ ~IsLocal(j)))
                        THEN new[j] ELSE single[d][j]
  BY <1>4, <1>5 DEF Cache
<1>8. \A d \in Containers, j \in Keys :
        handed'[d][j] = IF k \in B /\ d = c /\ j = k THEN handed[d][j] \cup {new[k]} ELSE handed[d][j]
  BY <1>5 DEF TypeOK
<1>9. TypeOK'
  <2>1. single' \in [Containers -> [Keys -> Obj \cup {NoObj}]]
    <3>1. \A d \in Containers, j \in Keys : single[d][j] \in Obj \cup {NoObj}
      BY DEF TypeOK
    <3> QED BY <1>4, <1>5, <3>1 DEF Cache
  <2>2. made' \in [Keys -> Nat]
    BY <1>5 DEF TypeOK
  <2>3. handed' \in [Containers -> [Keys -> SUBSET Obj]]
    BY <1>5 DEF TypeOK
  <2>4. version["parent"] \in -1..MaxVersion["parent"]
    BY TreeAssumption DEF TypeOK, Containers
  <2>5. /\ mapView' \in [Keys -> Offers \cup {NoRule}] \cup {NoView}
        /\ graphView' \in [Keys -> SUBSET Keys] \cup {NoView}
        /\ seen' \in -1..MaxVersion["parent"]
    BY <1>6, <2>4, ReadTypes DEF TypeOK
  <2> QED BY <1>6, <2>1, <2>2, <2>3, <2>5 DEF TypeOK
<1>10. RulesKept'
  BY <1>6, ReadKept DEF RulesKept, ViewsAccepted, LocalRulesWin, IsLocal
<1>11. \A j \in Keys : SharedCache(j)'
  <2> SUFFICES ASSUME NEW j \in Keys, ~IsLocal(j) PROVE SharedCache(j)'
    BY <1>6 DEF SharedCache, IsLocal
  <2>1. /\ single["child"][j] \in {NoObj, single["parent"][j]}
        /\ \A d \in Containers : handed[d][j] \subseteq {single["parent"][j]} \ {NoObj}
    BY DEF SharedCache
  <2>2. CASE j \in B
    <3>1. single["parent"][j] = NoObj /\ single["child"][j] = NoObj
      BY <1>5, <2>1, <2>2, CachedShared
    <3>2. \A d \in Containers : handed[d][j] = {}
      BY <2>1, <3>1
    <3>3. single'["parent"][j] = new[j] /\ single'["child"][j] \in {NoObj, new[j]}
      BY <1>7, <2>2, <3>1 DEF Containers
    <3>4. \A d \in Containers : handed'[d][j] \subseteq {new[j]}
      BY <1>8, <3>2
    <3>5. new[j] # NoObj
      BY <1>5, <2>2, NoObjAssumption
    <3> QED BY <3>3, <3>4, <3>5 DEF SharedCache
  <2>3. CASE j \notin B
    <3>1. \A d \in Containers : single'[d][j] = single[d][j] /\ handed'[d][j] = handed[d][j]
      BY <1>7, <1>8, <2>3
    <3> QED BY <2>1, <3>1 DEF SharedCache, Containers
  <2> QED BY <2>2, <2>3
<1> QED BY <1>6, <1>9, <1>10, <1>11

LEMMA StepTree == IInv /\ [Next]_vars => IInv'
<1> SUFFICES ASSUME IInv, [Next]_vars PROVE IInv'
  OBVIOUS
<1>1. layers \in [Containers -> Seq(OverrideSets)]
  BY DEF IInv, TypeOK
<1>2. CASE GetManyLevels
  BY <1>1, <1>2, ReadingKeeps DEF GetManyLevels
<1>3. CASE Validate
  BY <1>1, <1>3, ReadingKeeps DEF Validate
<1>4. CASE UNCHANGED vars
  BY <1>1, <1>4, ReadingKeeps DEF vars
<1>5. CASE Next
  BY <1>2, <1>3, <1>5, RegisterOnParentKeeps, RegisterOnChildKeeps, OverrideKeeps, HitKeeps,
     ResolveKeeps DEF Next
<1> QED BY <1>4, <1>5

LEMMA Invariance == Spec => []IInv
  BY InitTree, StepTree, PTL DEF Spec

-----------------------------------------------------------------------------
(* The theorems *)

\* Rules, views, caches, layers and counters keep their shapes: in particular
\* a cache never has an entry without an instance.
THEOREM TreeTypes == Spec => []TypeOK
  BY Invariance, PTL DEF IInv

\* However often the views are dropped, read and marked as seen, a rule whose
\* registration was rejected is never in the child's view.
THEOREM ViewsStayAccepted == Spec => []ViewsAccepted
<1>1. IInv => ViewsAccepted
  BY DEF IInv, RulesKept
<1> QED BY <1>1, Invariance, PTL

\* The child's own rules come first in its view, however old the view is.
THEOREM LocalRulesComeFirst == Spec => []LocalRulesWin
<1>1. IInv => LocalRulesWin
  BY DEF IInv, RulesKept
<1> QED BY <1>1, Invariance, PTL

\* Both containers return one instance of a key that the child has no rule
\* for, whatever was registered, overridden and resolved before on either.
THEOREM OneSharedInstance == Spec => []SharedIdentity
<1>1. IInv => SharedIdentity
  BY DEF IInv, SharedCache, SharedIdentity, Containers
<1> QED BY <1>1, Invariance, PTL
=============================================================================
