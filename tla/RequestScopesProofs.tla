------------------------- MODULE RequestScopesProofs -------------------------
(***************************************************************************)
(* Theorems about the scopes of RequestScopes, for every number of         *)
(* requests, scope objects, resources and nested entries:                  *)
(*   - the depth of a scope is the number of times requests are inside;    *)
(*   - requests that reuse a scope share nothing, hold nothing that has    *)
(*     been finalized, and leave nothing open.                             *)
(***************************************************************************)
EXTENDS RequestScopes, FiniteSetTheorems, TLAPS

-----------------------------------------------------------------------------
(* What is inside a scope *)

Inside(q) == pc[q] \in {"body", "leaving"}

\* The entries that their request, and not the slot of the integration, will
\* take back.
Held(s) ==
  {e \in Requests \X (1..MaxLevel) :
     scopeOf[e[1]] = s /\ e[2] <= level[e[1]] /\ (hooked => e[2] > 1)}

\* Every entry of a scope is held by a request, by the slot, or is forgotten.
Accounted ==
  \A s \in Scopes :
    /\ IsFiniteSet(Held(s))
    /\ depth[s] = Cardinality(Held(s)) + lost[s] + (IF s = slot THEN 1 ELSE 0)

\* Without hooks the slot plays no part; with them, what it holds is the scope
\* of a message that is still inside.
SlotUsed ==
  /\ ~hooked => slot = None /\ \A s \in Scopes : lost[s] = 0
  /\ slot # None => \E q \in Requests : scopeOf[q] = slot /\ Inside(q)

LevelOf(q) ==
  /\ pc[q] = "idle" => level[q] = 0
  /\ Inside(q) => level[q] >= 1
  /\ pc[q] \in {"closing", "ended"} => level[q] <= (IF hooked THEN 1 ELSE 0)
  /\ pc[q] = "closing" => closing[q] \in Scopes

\* As long as the slot has forgotten nothing, hooked messages come one after
\* the other.
OneHooked ==
  hooked /\ ~Forgot =>
    \A q \in Requests : level[q] >= 1 =>
      slot = scopeOf[q] /\ \A p \in Requests : level[p] >= 1 => p = q

CountInv ==
  TypeOK /\ Accounted /\ SlotUsed /\ (\A q \in Requests : LevelOf(q)) /\ OneHooked


-----------------------------------------------------------------------------
LEMMA NonEmpty ==
  ASSUME NEW S, IsFiniteSet(S), NEW x \in S
  PROVE  Cardinality(S) \in Nat /\ Cardinality(S) >= 1
<1>1. Cardinality(S) \in Nat
  BY FS_CardinalityType
<1>2. Cardinality(S) # 0
  BY FS_EmptySet
<1> QED BY <1>1, <1>2

LEMMA InitCounts == Init => CountInv
<1> SUFFICES ASSUME Init PROVE CountInv
  OBVIOUS
<1>1. TypeOK
  <2>1. scopeOf \in [Requests -> Scopes]
    BY ScopeAssumption DEF Init
  <2>2. stacks \in [Scopes -> Seq(Obj)]
    BY DEF Init
  <2>3. level \in [Requests -> 0..MaxLevel]
    BY ScopeAssumption DEF Init
  <2> QED BY <2>1, <2>2, <2>3 DEF Init, TypeOK
<1>2. Accounted
  <2> SUFFICES ASSUME NEW s \in Scopes
               PROVE  /\ IsFiniteSet(Held(s))
                      /\ depth[s] = Cardinality(Held(s)) + lost[s] + (IF s = slot THEN 1 ELSE 0)
    BY DEF Accounted
  <2>1. Held(s) = {}
    BY ScopeAssumption DEF Init, Held
  <2>2. s # slot
    BY ScopeAssumption DEF Init
  <2> QED BY <2>1, <2>2, FS_EmptySet DEF Init
<1>3. SlotUsed
  BY DEF Init, SlotUsed
<1>4. \A q \in Requests : LevelOf(q)
  BY DEF Init, LevelOf, Inside
<1>5. OneHooked
  BY DEF Init, OneHooked
<1> QED BY <1>1, <1>2, <1>3, <1>4, <1>5 DEF CountInv

\* Entering adds one held entry, except the one that the slot stands for.
LEMMA HeldOpen ==
  ASSUME TypeOK, NEW q \in Requests, level[q] < MaxLevel, Open(q),
         UNCHANGED <<scopeOf, hooked>>, NEW s \in Scopes
  PROVE  /\ s = scopeOf[q] /\ (hooked => level[q] > 0)
              => /\ Held(s)' = Held(s) \cup {<<q, level[q] + 1>>}
                 /\ <<q, level[q] + 1>> \notin Held(s)
         /\ s # scopeOf[q] \/ (hooked /\ level[q] = 0) => Held(s)' = Held(s)
<1> DEFINE e == <<q, level[q] + 1>>
<1>1. level[q] \in 0..MaxLevel /\ MaxLevel \in Nat
  BY ScopeAssumption DEF TypeOK
<1>2. e \in Requests \X (1..MaxLevel)
  BY <1>1
<1>3. level' = [level EXCEPT ![q] = level[q] + 1] /\ scopeOf' = scopeOf /\ hooked' = hooked
  BY DEF Open
<1>4. ASSUME NEW f \in Requests \X (1..MaxLevel)
      PROVE  f \in Held(s)' <=>
               f \in Held(s) \/ (f = e /\ s = scopeOf[q] /\ (hooked => level[q] > 0))
  <2>1. PICK p \in Requests, n \in 1..MaxLevel : f = <<p, n>>
    BY <1>4
  <2>2. level[p] \in 0..MaxLevel
    BY DEF TypeOK
  <2>3. CASE p = q
    <3>1. level'[p] = level[q] + 1
      BY <1>3, <2>3 DEF TypeOK
    <3>2. f \in Held(s)' <=> scopeOf[q] = s /\ n <= level[q] + 1 /\ (hooked => n > 1)
      BY <1>3, <2>1, <2>3, <3>1 DEF Held
    <3>3. f \in Held(s) <=> scopeOf[q] = s /\ n <= level[q] /\ (hooked => n > 1)
      BY <2>1, <2>3 DEF Held
    <3>4. f = e <=> n = level[q] + 1
      BY <2>1, <2>3
    <3>5. n <= level[q] + 1 <=> n <= level[q] \/ n = level[q] + 1
      BY <1>1
    <3>6. n = level[q] + 1 => (n > 1 <=> level[q] > 0)
      BY <1>1
    <3> QED BY <3>2, <3>3, <3>4, <3>5, <3>6
  <2>4. CASE p # q
    <3>1. level'[p] = level[p]
      BY <1>3, <2>4 DEF TypeOK
    <3>2. f # e
      BY <2>1, <2>4
    <3> QED BY <1>3, <2>1, <3>1, <3>2 DEF Held
  <2> QED BY <2>3, <2>4
<1>5. Held(s) \subseteq Requests \X (1..MaxLevel) /\ Held(s)' \subseteq Requests \X (1..MaxLevel)
  BY DEF Held
<1>6. e \notin Held(s)
  BY <1>1 DEF Held
<1> HIDE DEF e
<1>7. s = scopeOf[q] /\ (hooked => level[q] > 0) => Held(s)' = Held(s) \cup {e}
  BY <1>2, <1>4, <1>5
<1>8. s # scopeOf[q] \/ (hooked /\ level[q] = 0) => Held(s)' = Held(s)
  BY <1>1, <1>4, <1>5
<1> QED BY <1>6, <1>7, <1>8 DEF e

\* Leaving takes the last one away.
LEMMA HeldLeft ==
  ASSUME TypeOK, NEW q \in Requests, level[q] >= 1,
         level' = [level EXCEPT ![q] = @ - 1],
         UNCHANGED <<scopeOf, hooked>>, NEW s \in Scopes
  PROVE  /\ s = scopeOf[q] /\ (hooked => level[q] > 1)
              => /\ Held(s)' = Held(s) \ {<<q, level[q]>>}
                 /\ <<q, level[q]>> \in Held(s)
         /\ s # scopeOf[q] \/ (hooked /\ level[q] = 1) => Held(s)' = Held(s)
<1> DEFINE e == <<q, level[q]>>
<1>1. level[q] \in 0..MaxLevel /\ MaxLevel \in Nat /\ level[q] # 0
  BY ScopeAssumption DEF TypeOK
<1>2. e \in Requests \X (1..MaxLevel)
  BY <1>1
<1>3. level' = [level EXCEPT ![q] = level[q] - 1] /\ scopeOf' = scopeOf /\ hooked' = hooked
  OBVIOUS
<1>4. ASSUME NEW f \in Requests \X (1..MaxLevel)
      PROVE  f \in Held(s) <=>
               f \in Held(s)' \/ (f = e /\ s = scopeOf[q] /\ (hooked => level[q] > 1))
  <2>1. PICK p \in Requests, n \in 1..MaxLevel : f = <<p, n>>
    BY <1>4
  <2>2. level[p] \in 0..MaxLevel
    BY DEF TypeOK
  <2>3. CASE p = q
    <3>1. level'[p] = level[q] - 1
      BY <1>3, <2>3 DEF TypeOK
    <3>2. f \in Held(s)' <=> scopeOf[q] = s /\ n <= level[q] - 1 /\ (hooked => n > 1)
      BY <1>3, <2>1, <2>3, <3>1 DEF Held
    <3>3. f \in Held(s) <=> scopeOf[q] = s /\ n <= level[q] /\ (hooked => n > 1)
      BY <2>1, <2>3 DEF Held
    <3>4. f = e <=> n = level[q]
      BY <2>1, <2>3
    <3>5. n <= level[q] <=> n <= level[q] - 1 \/ n = level[q]
      BY <1>1
    <3> QED BY <3>2, <3>3, <3>4, <3>5
  <2>4. CASE p # q
    <3>1. level'[p] = level[p]
      BY <1>3, <2>4 DEF TypeOK
    <3>2. f # e
      BY <2>1, <2>4
    <3> QED BY <1>3, <2>1, <3>1, <3>2 DEF Held
  <2> QED BY <2>3, <2>4
<1>5. Held(s) \subseteq Requests \X (1..MaxLevel) /\ Held(s)' \subseteq Requests \X (1..MaxLevel)
  BY DEF Held
<1>6. ~(e \in Held(s)')
  <2>1. level'[q] = level[q] - 1
    BY <1>3 DEF TypeOK
  <2> QED BY <1>1, <2>1 DEF Held
<1> HIDE DEF e
<1>7. s = scopeOf[q] /\ (hooked => level[q] > 1) => Held(s)' = Held(s) \ {e} /\ e \in Held(s)
  BY <1>2, <1>4, <1>5, <1>6
<1>8. s # scopeOf[q] \/ (hooked /\ level[q] = 1) => Held(s)' = Held(s)
  <2> SUFFICES ASSUME s # scopeOf[q] \/ (hooked /\ level[q] = 1)
               PROVE  Held(s)' = Held(s)
    OBVIOUS
  <2>1. ~(s = scopeOf[q] /\ (hooked => level[q] > 1))
    BY <1>1
  <2> QED BY <1>4, <1>5, <2>1
<1> QED BY <1>7, <1>8 DEF e

\* Steps that enter and leave nothing.
LEMMA CountKept ==
  ASSUME CountInv, TypeOK',
         UNCHANGED <<scopeOf, depth, hooked, slot, lost, level>>,
         \A p \in Requests :
           /\ Inside(p)' <=> Inside(p)
           /\ pc'[p] = "idle" => pc[p] = "idle"
           /\ pc'[p] \in {"closing", "ended"} => pc[p] \in {"closing", "ended"}
           /\ pc'[p] = "closing" => closing'[p] \in Scopes
  PROVE  CountInv'
<1>1. \A s \in Scopes : Held(s)' = Held(s)
  BY DEF Held
<1>2. Accounted'
  BY <1>1 DEF CountInv, Accounted
<1>3. SlotUsed'
  BY DEF CountInv, SlotUsed
<1>4. \A q \in Requests : LevelOf(q)'
  BY DEF CountInv, LevelOf
<1>5. OneHooked'
  BY DEF CountInv, OneHooked, Forgot
<1> QED BY <1>2, <1>3, <1>4, <1>5 DEF CountInv

LEMMA EnterCounts ==
  ASSUME CountInv, NEW q \in Requests, Enter(q)
  PROVE  CountInv'
<1> USE DEF CountInv
<1> DEFINE s0 == scopeOf[q]
<1>1. s0 \in Scopes /\ level[q] = 0 /\ 0 < MaxLevel /\ MaxLevel \in Nat /\ None \notin Scopes
  BY ScopeAssumption DEF TypeOK, LevelOf, Enter
<1>2. level' = [level EXCEPT ![q] = 1] /\ depth' = [depth EXCEPT ![s0] = depth[s0] + 1]
  BY <1>1 DEF Enter, Open
<1>3. slot' = (IF hooked THEN s0 ELSE None)
      /\ lost' = (IF slot = None THEN lost ELSE [lost EXCEPT ![slot] = lost[slot] + 1])
      /\ UNCHANGED <<scopeOf, hooked>> /\ pc' = [pc EXCEPT ![q] = "body"] /\ UNCHANGED closing
  BY DEF Enter
<1>4. \A p \in Requests \ {q} : pc'[p] = pc[p] /\ level'[p] = level[p]
  BY <1>2, <1>3 DEF TypeOK
<1>5. pc'[q] = "body" /\ level'[q] = 1
  BY <1>2, <1>3 DEF TypeOK
<1>6. TypeOK'
  <2>1. level' \in [Requests -> 0..MaxLevel]
    BY <1>1, <1>2 DEF TypeOK
  <2>2. depth' \in [Scopes -> Nat] /\ lost' \in [Scopes -> Nat]
    BY <1>1, <1>2, <1>3 DEF TypeOK
  <2>3. stray' \in SUBSET Scopes /\ met' \in SUBSET Requests
    BY <1>1 DEF TypeOK, Enter, Present
  <2>4. slot' \in Scopes \cup {None} /\ context' \in [Scopes -> Requests \cup {None}]
        /\ previous' \in [Scopes -> Scopes \cup {None}] /\ active' \in [Requests -> Scopes \cup {None}]
    BY <1>1, <1>3 DEF TypeOK, Enter, Open
  <2>5. pc' \in [Requests -> {"idle", "body", "leaving", "closing", "ended"}]
    BY <1>3 DEF TypeOK
  <2> QED BY <2>1, <2>2, <2>3, <2>4, <2>5 DEF TypeOK, Enter
<1>7. SlotUsed'
  <2>1. ~hooked => \A s \in Scopes : lost'[s] = 0
    BY <1>3 DEF SlotUsed
  <2>2. slot' # None => scopeOf'[q] = slot' /\ Inside(q)'
    BY <1>3, <1>5 DEF Inside
  <2> QED BY <1>3, <2>1, <2>2 DEF SlotUsed
<1>8. \A p \in Requests : LevelOf(p)'
  BY <1>3, <1>4, <1>5 DEF LevelOf, Inside
<1>9. OneHooked'
  <2> SUFFICES ASSUME hooked, ~Forgot', NEW p \in Requests, level'[p] >= 1,
                      NEW r \in Requests, level'[r] >= 1
               PROVE  slot' = scopeOf'[p] /\ r = p
    BY <1>3 DEF OneHooked
  <2>1. slot = None
    <3> SUFFICES ASSUME slot # None PROVE FALSE
      OBVIOUS
    <3>1. slot \in Scopes /\ lost'[slot] = lost[slot] + 1 /\ lost[slot] \in Nat
      BY <1>3 DEF TypeOK
    <3> QED BY <3>1 DEF Forgot
  <2>2. lost' = lost /\ ~Forgot
    BY <1>3, <2>1 DEF Forgot
  <2>3. \A u \in Requests : level[u] < 1
    <3> SUFFICES ASSUME NEW u \in Requests, ~(level[u] < 1) PROVE FALSE
      OBVIOUS
    <3>1. level[u] \in 0..MaxLevel /\ level[u] >= 1
      BY <1>1 DEF TypeOK
    <3>2. slot = scopeOf[u]
      BY <2>2, <3>1 DEF OneHooked
    <3> QED BY <1>1, <2>1, <3>2 DEF TypeOK
  <2>4. p = q /\ r = q
    <3>1. \A u \in Requests : level[u] \in 0..MaxLevel
      BY DEF TypeOK
    <3> QED BY <1>1, <1>4, <2>3, <3>1
  <2> QED BY <1>3, <2>4
<1>10. Accounted'
  <2> SUFFICES ASSUME NEW s \in Scopes
               PROVE  /\ IsFiniteSet(Held(s)')
                      /\ depth'[s] = Cardinality(Held(s)') + lost'[s] + (IF s = slot' THEN 1 ELSE 0)
    BY DEF Accounted
  <2>1. /\ IsFiniteSet(Held(s)) /\ Cardinality(Held(s)) \in Nat
        /\ depth[s] = Cardinality(Held(s)) + lost[s] + (IF s = slot THEN 1 ELSE 0)
        /\ depth[s] \in Nat /\ lost[s] \in Nat
    BY FS_CardinalityType DEF Accounted, TypeOK
  <2>2. /\ s = s0 /\ ~hooked
              => /\ Held(s)' = Held(s) \cup {<<q, 1>>}
                 /\ <<q, 1>> \notin Held(s)
        /\ s # s0 \/ hooked => Held(s)' = Held(s)
    BY <1>1, <1>3, HeldOpen DEF Enter
  <2>3. s = s0 /\ ~hooked => IsFiniteSet(Held(s)') /\ Cardinality(Held(s)') = Cardinality(Held(s)) + 1
    BY <2>1, <2>2, FS_AddElement
  <2>4. depth'[s] = IF s = s0 THEN depth[s] + 1 ELSE depth[s]
    BY <1>1, <1>2 DEF TypeOK
  <2>5. lost'[s] = IF s = slot THEN lost[s] + 1 ELSE lost[s]
    BY <1>1, <1>3 DEF TypeOK
  <2>6. CASE ~hooked
    <3>1. slot = None /\ slot' = None
      BY <1>3, <2>6 DEF SlotUsed
    <3> QED BY <1>1, <2>1, <2>2, <2>3, <2>4, <2>5, <2>6, <3>1
  <2>7. CASE hooked
    BY <1>1, <1>3, <2>1, <2>2, <2>4, <2>5, <2>7
  <2> QED BY <2>6, <2>7
<1> QED BY <1>6, <1>7, <1>8, <1>9, <1>10

LEMMA ReenterCounts ==
  ASSUME CountInv, NEW q \in Requests, Reenter(q)
  PROVE  CountInv'
<1> USE DEF CountInv
<1> DEFINE s0 == scopeOf[q]
<1>1. s0 \in Scopes /\ level[q] \in Nat /\ 1 <= level[q] /\ level[q] < MaxLevel /\ MaxLevel \in Nat
  BY ScopeAssumption DEF TypeOK, LevelOf, Inside, Reenter
<1>2. level' = [level EXCEPT ![q] = level[q] + 1] /\ depth' = [depth EXCEPT ![s0] = depth[s0] + 1]
  BY DEF Reenter, Open
<1>3. UNCHANGED <<scopeOf, hooked, slot, lost, pc, closing>>
  BY DEF Reenter, hooks
<1>4. \A p \in Requests : level'[p] = IF p = q THEN level[q] + 1 ELSE level[p]
  BY <1>2 DEF TypeOK
<1>5. TypeOK'
  <2>1. level' \in [Requests -> 0..MaxLevel] /\ depth' \in [Scopes -> Nat]
    BY <1>1, <1>2 DEF TypeOK
  <2>2. previous' \in [Scopes -> Scopes \cup {None}] /\ active' \in [Requests -> Scopes \cup {None}]
    BY <1>1 DEF TypeOK, Reenter, Open
  <2> QED BY <2>1, <2>2 DEF TypeOK, Reenter, hooks
<1>6. SlotUsed'
  BY <1>3 DEF SlotUsed, Inside
<1>7. \A p \in Requests : LevelOf(p)'
  <2> SUFFICES ASSUME NEW p \in Requests PROVE LevelOf(p)'
    OBVIOUS
  <2>1. CASE p = q
    BY <1>1, <1>3, <1>4, <2>1 DEF LevelOf, Inside, Reenter
  <2>2. CASE p # q
    BY <1>3, <1>4, <2>2 DEF LevelOf, Inside
  <2> QED BY <2>1, <2>2
<1>8. OneHooked'
  BY <1>1, <1>3, <1>4 DEF OneHooked, Forgot
<1>9. Accounted'
  <2> SUFFICES ASSUME NEW s \in Scopes
               PROVE  /\ IsFiniteSet(Held(s)')
                      /\ depth'[s] = Cardinality(Held(s)') + lost'[s] + (IF s = slot' THEN 1 ELSE 0)
    BY DEF Accounted
  <2>1. /\ IsFiniteSet(Held(s)) /\ Cardinality(Held(s)) \in Nat
        /\ depth[s] = Cardinality(Held(s)) + lost[s] + (IF s = slot THEN 1 ELSE 0)
        /\ depth[s] \in Nat /\ lost[s] \in Nat
    BY FS_CardinalityType DEF Accounted, TypeOK
  <2>2. /\ s = s0
              => /\ Held(s)' = Held(s) \cup {<<q, level[q] + 1>>}
                 /\ <<q, level[q] + 1>> \notin Held(s)
        /\ s # s0 => Held(s)' = Held(s)
    BY <1>1, <1>3, HeldOpen DEF Reenter
  <2>3. s = s0 => IsFiniteSet(Held(s)') /\ Cardinality(Held(s)') = Cardinality(Held(s)) + 1
    BY <2>1, <2>2, FS_AddElement
  <2>4. depth'[s] = IF s = s0 THEN depth[s] + 1 ELSE depth[s]
    BY <1>1, <1>2 DEF TypeOK
  <2> QED BY <1>3, <2>1, <2>2, <2>3, <2>4
<1> QED BY <1>5, <1>6, <1>7, <1>8, <1>9

\* The one who leaves is inside, and what it leaves is open.
LEMMA LeavesOpen ==
  ASSUME CountInv, NEW q \in Requests, Exit(q)
  PROVE  /\ Left(q) \in Scopes /\ Inside(q)
         /\ level[q] \in Nat /\ level[q] >= 1 /\ level[q] <= MaxLevel
         /\ depth[Left(q)] \in Nat /\ depth[Left(q)] >= 1
         /\ level[q] > 1 \/ ~hooked => Left(q) = scopeOf[q]
         /\ level[q] = 1 /\ hooked => Left(q) = slot
<1> USE DEF CountInv
<1>1. Inside(q)
  BY DEF Exit, Inside
<1>2. level[q] \in Nat /\ level[q] >= 1 /\ level[q] <= MaxLevel
  BY <1>1, ScopeAssumption DEF TypeOK, LevelOf
<1>3. /\ level[q] > 1 \/ ~hooked => Left(q) = scopeOf[q]
      /\ level[q] = 1 /\ hooked => Left(q) = slot
  BY <1>2 DEF Left
<1>4. Left(q) \in Scopes
  BY ScopeAssumption DEF Exit, Left, TypeOK
<1>5. /\ IsFiniteSet(Held(Left(q))) /\ Cardinality(Held(Left(q))) \in Nat
      /\ depth[Left(q)] = Cardinality(Held(Left(q))) + lost[Left(q)] + (IF Left(q) = slot THEN 1 ELSE 0)
      /\ depth[Left(q)] \in Nat /\ lost[Left(q)] \in Nat
  BY <1>4, FS_CardinalityType DEF Accounted, TypeOK
<1>6. CASE level[q] = 1 /\ hooked
  BY <1>2, <1>3, <1>4, <1>5, <1>1, <1>6
<1>7. CASE level[q] > 1 \/ ~hooked
  <2>1. <<q, level[q]>> \in Held(Left(q))
    <3>1. level[q] \in 1..MaxLevel
      BY <1>2, ScopeAssumption
    <3>2. hooked => level[q] > 1
      BY <1>7
    <3> QED BY <1>3, <1>7, <3>1, <3>2 DEF Held
  <2>2. Cardinality(Held(Left(q))) >= 1
    BY <2>1, <1>5, NonEmpty
  <2> QED BY <1>1, <1>2, <1>3, <1>4, <1>5, <2>2
<1> QED BY <1>2, <1>6, <1>7

LEMMA ExitCounts ==
  ASSUME CountInv, NEW q \in Requests, Exit(q)
  PROVE  CountInv'
<1> USE DEF CountInv
<1> DEFINE s0 == Left(q)
<1>1. /\ s0 \in Scopes /\ Inside(q)
      /\ level[q] \in Nat /\ level[q] >= 1 /\ level[q] <= MaxLevel
      /\ depth[s0] \in Nat /\ depth[s0] >= 1
      /\ level[q] > 1 \/ ~hooked => s0 = scopeOf[q]
      /\ level[q] = 1 /\ hooked => s0 = slot
      /\ MaxLevel \in Nat /\ None \notin Scopes
  BY LeavesOpen, ScopeAssumption
<1>2. /\ level' = [level EXCEPT ![q] = level[q] - 1] /\ depth' = [depth EXCEPT ![s0] = depth[s0] - 1]
      /\ slot' = (IF level[q] = 1 THEN None ELSE slot)
      /\ UNCHANGED <<scopeOf, hooked, lost>>
  BY DEF Exit
<1>3. /\ depth[s0] = 1 => pc' = [pc EXCEPT ![q] = "closing"] /\ closing' = [closing EXCEPT ![q] = s0]
      /\ depth[s0] # 1 => /\ closing' = closing
                          /\ pc' = IF level[q] = 1 THEN [pc EXCEPT ![q] = "ended"] ELSE pc
  BY DEF Exit
<1>4. \A p \in Requests : level'[p] = IF p = q THEN level[q] - 1 ELSE level[p]
  BY <1>2 DEF TypeOK
<1>5. \A p \in Requests \ {q} : pc'[p] = pc[p] /\ closing'[p] = closing[p]
  BY <1>3 DEF TypeOK
<1>6. /\ depth[s0] = 1 => pc'[q] = "closing" /\ closing'[q] = s0
      /\ depth[s0] # 1 => pc'[q] = IF level[q] = 1 THEN "ended" ELSE pc[q]
  BY <1>3 DEF TypeOK
<1>7. TypeOK'
  <2>1. level' \in [Requests -> 0..MaxLevel]
    BY <1>1, <1>2 DEF TypeOK
  <2>2. depth' \in [Scopes -> Nat]
    BY <1>1, <1>2 DEF TypeOK
  <2>3. slot' \in Scopes \cup {None} /\ active' \in [Requests -> Scopes \cup {None}]
    BY <1>1, <1>2 DEF TypeOK, Exit
  <2>4. /\ pc' \in [Requests -> {"idle", "body", "leaving", "closing", "ended"}]
        /\ closing' \in [Requests -> Scopes \cup {None}]
    <3>1. CASE depth[s0] = 1
      <4>1. pc' = [pc EXCEPT ![q] = "closing"] /\ closing' = [closing EXCEPT ![q] = s0]
        BY <1>3, <3>1
      <4> HIDE DEF s0
      <4> QED BY <1>1, <4>1 DEF TypeOK
    <3>2. CASE depth[s0] # 1
      BY <1>3, <3>2 DEF TypeOK
    <3> QED BY <3>1, <3>2
  <2>5. /\ cache' \in [Scopes -> [Keys -> Value \cup {None}]]
        /\ context' \in [Scopes -> Requests \cup {None}]
        /\ at' \in [Requests -> Nat]
    <3>1. CASE depth[s0] = 1
      <4>1. /\ cache' = [cache EXCEPT ![s0] = [k \in Keys |-> None]]
            /\ context' = [context EXCEPT ![s0] = None]
            /\ at' = [at EXCEPT ![q] = 0]
        BY <3>1 DEF Exit
      <4> QED BY <1>1, <4>1 DEF TypeOK
    <3>2. CASE depth[s0] # 1
      BY <3>2 DEF TypeOK, Exit
    <3> QED BY <3>1, <3>2
  <2> QED BY <2>1, <2>2, <2>3, <2>4, <2>5 DEF TypeOK, Exit
<1>8. \A s \in Scopes :
        /\ s = scopeOf[q] /\ (hooked => level[q] > 1)
              => /\ Held(s)' = Held(s) \ {<<q, level[q]>>}
                 /\ <<q, level[q]>> \in Held(s)
        /\ s # scopeOf[q] \/ (hooked /\ level[q] = 1) => Held(s)' = Held(s)
  BY <1>1, <1>2, HeldLeft
<1>9. Accounted'
  <2> SUFFICES ASSUME NEW s \in Scopes
               PROVE  /\ IsFiniteSet(Held(s)')
                      /\ depth'[s] = Cardinality(Held(s)') + lost'[s] + (IF s = slot' THEN 1 ELSE 0)
    BY DEF Accounted
  <2>1. /\ IsFiniteSet(Held(s)) /\ Cardinality(Held(s)) \in Nat
        /\ depth[s] = Cardinality(Held(s)) + lost[s] + (IF s = slot THEN 1 ELSE 0)
        /\ depth[s] \in Nat /\ lost[s] \in Nat
    BY FS_CardinalityType DEF Accounted, TypeOK
  <2>2. depth'[s] = IF s = s0 THEN depth[s] - 1 ELSE depth[s]
    BY <1>1, <1>2 DEF TypeOK
  <2>3. lost'[s] = lost[s]
    BY <1>2
  <2>4. CASE hooked /\ level[q] = 1
    <3>1. Held(s)' = Held(s) /\ s0 = slot /\ slot' = None
      BY <1>1, <1>2, <1>8, <2>4
    <3> QED BY <1>1, <2>1, <2>2, <2>3, <3>1
  <2>5. CASE ~(hooked /\ level[q] = 1)
    <3>1. s0 = scopeOf[q] /\ slot' = slot
      BY <1>1, <1>2, <2>5 DEF SlotUsed
    <3>2. hooked => level[q] > 1
      BY <1>1, <2>5
    <3>3. /\ s = s0 => Held(s)' = Held(s) \ {<<q, level[q]>>} /\ <<q, level[q]>> \in Held(s)
          /\ s # s0 => Held(s)' = Held(s)
      BY <1>8, <3>1, <3>2
    <3>4. s = s0 => IsFiniteSet(Held(s)') /\ Cardinality(Held(s)') = Cardinality(Held(s)) - 1
      BY <2>1, <3>3, FS_RemoveElement
    <3> QED BY <1>1, <2>1, <2>2, <2>3, <3>1, <3>3, <3>4
  <2> QED BY <2>4, <2>5
\* The last one to leave leaves nothing held.
<1>10. depth[s0] = 1 => level[q] - 1 <= (IF hooked THEN 1 ELSE 0)
  <2> SUFFICES ASSUME depth[s0] = 1, level[q] - 1 > (IF hooked THEN 1 ELSE 0) PROVE FALSE
    BY <1>1
  <2>1. level[q] > 1 /\ s0 = scopeOf[q] /\ (hooked => level[q] > 2)
    BY <1>1
  <2>2. level[q] - 1 \in 1..MaxLevel
    BY <1>1, <2>1
  <2>3. <<q, level[q] - 1>> \in Held(s0) /\ <<q, level[q]>> \in Held(s0)
    <3>1. level[q] \in 1..MaxLevel /\ level[q] - 1 <= level[q] /\ (hooked => level[q] - 1 > 1 /\ level[q] > 1)
      BY <1>1, <2>1
    <3> QED BY <2>1, <2>2, <3>1 DEF Held
  <2>4. /\ IsFiniteSet(Held(s0)) /\ Cardinality(Held(s0)) \in Nat
        /\ depth[s0] = Cardinality(Held(s0)) + lost[s0] + (IF s0 = slot THEN 1 ELSE 0)
        /\ lost[s0] \in Nat
    BY <1>1, FS_CardinalityType DEF Accounted, TypeOK
  <2>5. /\ IsFiniteSet(Held(s0) \ {<<q, level[q]>>})
        /\ Cardinality(Held(s0) \ {<<q, level[q]>>}) = Cardinality(Held(s0)) - 1
    BY <2>3, <2>4, FS_RemoveElement
  <2>6. <<q, level[q] - 1>> \in Held(s0) \ {<<q, level[q]>>}
    BY <1>1, <2>3
  <2>7. /\ Cardinality(Held(s0) \ {<<q, level[q]>>}) \in Nat
        /\ Cardinality(Held(s0) \ {<<q, level[q]>>}) >= 1
    BY <2>5, <2>6, NonEmpty
  <2> QED BY <2>4, <2>5, <2>7
<1>11. \A p \in Requests : LevelOf(p)'
  <2> SUFFICES ASSUME NEW p \in Requests PROVE LevelOf(p)'
    OBVIOUS
  <2>1. CASE p = q
    <3>1. CASE depth[s0] = 1
      BY <1>1, <1>2, <1>4, <1>6, <1>10, <2>1, <3>1 DEF LevelOf, Inside
    <3>2. CASE depth[s0] # 1 /\ level[q] = 1
      BY <1>1, <1>2, <1>4, <1>6, <2>1, <3>2 DEF LevelOf, Inside
    <3>3. CASE depth[s0] # 1 /\ level[q] # 1
      BY <1>1, <1>2, <1>4, <1>6, <2>1, <3>3 DEF LevelOf, Inside
    <3> QED BY <3>1, <3>2, <3>3
  <2>2. CASE p # q
    BY <1>2, <1>4, <1>5, <2>2 DEF LevelOf, Inside
  <2> QED BY <2>1, <2>2
<1>12. OneHooked'
  <2> SUFFICES ASSUME hooked, ~Forgot, NEW p \in Requests, level'[p] >= 1,
                      NEW r \in Requests, level'[r] >= 1
               PROVE  slot' = scopeOf[p] /\ r = p
    BY <1>2 DEF OneHooked, Forgot
  <2>1. level[p] >= 1 /\ level[r] >= 1
    BY <1>1, <1>4
  <2>2. slot = scopeOf[p] /\ r = p /\ q = p
    BY <1>1, <2>1 DEF OneHooked
  <2>3. level[q] # 1
    BY <1>4, <1>1, <2>2
  <2> QED BY <1>2, <2>2, <2>3
<1>13. SlotUsed'
  <2>1. ~hooked => slot' = None /\ \A s \in Scopes : lost'[s] = 0
    BY <1>2 DEF SlotUsed
  <2>2. ASSUME slot' # None
        PROVE  \E p \in Requests : scopeOf'[p] = slot' /\ Inside(p)'
    <3>1. slot' = slot /\ level[q] > 1 /\ slot \in Scopes /\ hooked
      BY <1>1, <1>2, <2>2 DEF TypeOK, SlotUsed
    <3>2. PICK p \in Requests : scopeOf[p] = slot /\ Inside(p)
      BY <3>1, <1>1 DEF SlotUsed
    <3>3. CASE p # q
      BY <1>2, <1>5, <3>1, <3>2, <3>3 DEF Inside
    <3>4. CASE p = q
      <4>1. s0 = slot /\ <<q, level[q]>> \in Held(s0)
        BY <1>1, <1>8, <3>1, <3>2, <3>4
      <4>2. Cardinality(Held(s0)) \in Nat /\ Cardinality(Held(s0)) >= 1
        BY <1>1, <4>1, NonEmpty DEF Accounted
      <4>3. depth[s0] # 1
        BY <1>1, <4>1, <4>2, SMTT(30) DEF Accounted, TypeOK
      <4>4. pc'[q] = pc[q]
        BY <1>6, <3>1, <4>3
      <4> QED BY <1>1, <1>2, <3>1, <3>2, <3>4, <4>4 DEF Inside
    <3> QED BY <3>3, <3>4
  <2> QED BY <1>2, <2>1, <2>2 DEF SlotUsed
<1> QED BY <1>7, <1>9, <1>11, <1>12, <1>13

LEMMA HookFindsNothingCounts ==
  ASSUME CountInv, NEW q \in Requests, HookFindsNothing(q)
  PROVE  CountInv'
<1> USE DEF CountInv
<1>1. /\ Inside(q) /\ hooked /\ level[q] = 1 /\ slot = None
      /\ level' = [level EXCEPT ![q] = 0] /\ pc' = [pc EXCEPT ![q] = "ended"]
      /\ UNCHANGED <<scopeOf, depth, hooked, slot, lost, closing>>
  BY ScopeAssumption DEF HookFindsNothing, Inside, Left, TypeOK, hooks
<1>2. \A p \in Requests : /\ level'[p] = IF p = q THEN 0 ELSE level[p]
                          /\ pc'[p] = IF p = q THEN "ended" ELSE pc[p]
  BY <1>1 DEF TypeOK
<1>3. TypeOK'
  <2>1. level' \in [Requests -> 0..MaxLevel]
    BY <1>1, ScopeAssumption DEF TypeOK
  <2>2. pc' \in [Requests -> {"idle", "body", "leaving", "closing", "ended"}]
    BY <1>1 DEF TypeOK
  <2> QED BY <2>1, <2>2 DEF TypeOK, HookFindsNothing, hooks
<1>4. \A s \in Scopes : Held(s)' = Held(s)
  <2>1. level' = [level EXCEPT ![q] = @ - 1] /\ level[q] >= 1 /\ UNCHANGED <<scopeOf, hooked>>
    BY <1>1
  <2> QED BY <1>1, <2>1, HeldLeft
<1>5. Accounted'
  BY <1>1, <1>4 DEF Accounted
<1>6. SlotUsed'
  BY <1>1 DEF SlotUsed
<1>7. \A p \in Requests : LevelOf(p)'
  BY <1>1, <1>2 DEF LevelOf, Inside
<1>8. OneHooked'
  BY <1>1, <1>2 DEF OneHooked, Forgot
<1> QED BY <1>3, <1>5, <1>6, <1>7, <1>8

\* Calls of get, cancellation and the closing of the stacks.
LEMMA OtherCounts ==
  ASSUME CountInv, NEW q \in Requests,
         \/ \E k \in Keys : GetHit(q, k) \/ GetContext(q, k)
         \/ \E i \in Slots, k \in Keys : GetStarts(q, i, k)
         \/ \E i \in Slots : GetEnds(q, i) \/ GetFails(q, i)
         \/ Cancel(q) \/ CloseNext(q) \/ Finish(q)
  PROVE  CountInv'
<1>0. TypeOK /\ \A p \in Requests : LevelOf(p)
  BY DEF CountInv
<1>1. ASSUME NEW k \in Keys, GetHit(q, k)
      PROVE  CountInv'
  <2>1. cache[scopeOf[q]][k] \in Value
    BY <1>0, <1>1 DEF GetHit, TypeOK
  <2>2. got' \in [Requests -> SUBSET Value]
    BY <1>0, <1>1, <2>1 DEF GetHit, TypeOK
  <2>3. TypeOK'
    BY <1>0, <1>1, <2>2 DEF GetHit, TypeOK, hooks
  <2> QED BY <1>0, <1>1, <2>3, CountKept DEF GetHit, hooks, Inside, LevelOf
<1>2. ASSUME NEW k \in Keys, GetContext(q, k)
      PROVE  CountInv'
  <2> DEFINE value == IF active[q] = None THEN None ELSE context[active[q]]
  <2>1. value \in Requests \cup {None} /\ scopeOf[q] \in Scopes /\ pc[q] = "body"
    BY <1>0, <1>2 DEF GetContext, TypeOK
  <2>2. CASE value = None
    <3>1. /\ pc' = [pc EXCEPT ![q] = "leaving"]
          /\ UNCHANGED <<cache, got>>
      BY <1>2, <2>2 DEF GetContext
    <3>2. TypeOK'
      BY <1>0, <1>2, <3>1 DEF GetContext, TypeOK, hooks
    <3>3. \A p \in Requests : pc'[p] = IF p = q THEN "leaving" ELSE pc[p]
      BY <1>0, <3>1 DEF TypeOK
    <3> QED BY <1>0, <1>2, <2>1, <3>2, <3>3, CountKept DEF GetContext, hooks, Inside, LevelOf
  <2>3. CASE value # None
    <3>1. /\ cache' = [cache EXCEPT ![scopeOf[q]][k] = value]
          /\ got' = [got EXCEPT ![q] = @ \cup {value}]
          /\ pc' = pc
      BY <1>2, <2>3 DEF GetContext
    <3>2. value \in Value
      BY <2>1, <2>3 DEF Value
    <3> HIDE DEF value
    <3>3. cache' \in [Scopes -> [Keys -> Value \cup {None}]] /\ got' \in [Requests -> SUBSET Value]
      BY <1>0, <2>1, <3>1, <3>2 DEF TypeOK
    <3>4. TypeOK'
      BY <1>0, <1>2, <3>1, <3>3 DEF GetContext, TypeOK, hooks
    <3> QED BY <1>0, <1>2, <3>1, <3>4, CountKept DEF GetContext, hooks, Inside, LevelOf
  <2> QED BY <2>2, <2>3
<1>3. ASSUME NEW i \in Slots, NEW k \in Keys, GetStarts(q, i, k)
      PROVE  CountInv'
  <2>1. TypeOK'
    BY <1>0, <1>3 DEF GetStarts, TypeOK, hooks
  <2> QED BY <1>0, <1>3, <2>1, CountKept DEF GetStarts, hooks, Inside, LevelOf
<1>4. ASSUME NEW i \in Slots, GetEnds(q, i)
      PROVE  CountInv'
  <2> DEFINE k == pending[q][i]
             o == <<k, made[k] + 1>>
  <2>1. k \in Resources /\ k \in Keys /\ o \in Obj /\ o \in Value /\ scopeOf[q] \in Scopes
    BY <1>0, <1>4, SMTT(30) DEF GetEnds, TypeOK, Obj, Value, Keys
  <2>2. /\ made' = [made EXCEPT ![k] = @ + 1]
        /\ stacks' = [stacks EXCEPT ![scopeOf[q]] = Append(@, o)]
        /\ cache' = [cache EXCEPT ![scopeOf[q]][k] = o]
        /\ got' = IF pc[q] = "body" THEN [got EXCEPT ![q] = @ \cup {o}] ELSE got
        /\ pending' = [pending EXCEPT ![q][i] = None]
        /\ stray' = IF pc[q] = "body" THEN stray ELSE stray \cup {scopeOf[q]}
    BY <1>4 DEF GetEnds
  <2>3. made' \in [Resources -> Nat] /\ pending' \in [Requests -> [Slots -> Resources \cup {None}]]
        /\ stray' \in SUBSET Scopes
    BY <1>0, <2>1, <2>2, SMTT(30) DEF TypeOK
  <2> HIDE DEF o
  <2>4. /\ stacks' \in [Scopes -> Seq(Obj)]
        /\ cache' \in [Scopes -> [Keys -> Value \cup {None}]]
        /\ got' \in [Requests -> SUBSET Value]
    BY <1>0, <2>1, <2>2 DEF TypeOK
  <2>5. TypeOK'
    BY <1>0, <1>4, <2>3, <2>4 DEF GetEnds, TypeOK, hooks
  <2> QED BY <1>0, <1>4, <2>5, CountKept DEF GetEnds, hooks, Inside, LevelOf
<1>5. ASSUME NEW i \in Slots, GetFails(q, i)
      PROVE  CountInv'
  <2>1. TypeOK'
    BY <1>0, <1>5 DEF GetFails, TypeOK, hooks
  <2>2. \A p \in Requests : pc'[p] = IF p = q /\ pc[p] = "body" THEN "leaving" ELSE pc[p]
    BY <1>0, <1>5 DEF GetFails, TypeOK
  <2> QED BY <1>0, <1>5, <2>1, <2>2, CountKept DEF GetFails, hooks, Inside, LevelOf
<1>6. ASSUME Cancel(q)
      PROVE  CountInv'
  <2>1. CASE pc[q] = "body"
    <3>1. /\ pending' = [pending EXCEPT ![q] = [i \in Slots |-> None]]
          /\ pc' = [pc EXCEPT ![q] = "leaving"]
          /\ stray' = stray
      BY <1>6, <2>1 DEF Cancel
    <3>2. TypeOK'
      BY <1>0, <1>6, <3>1 DEF Cancel, TypeOK, hooks
    <3>3. \A p \in Requests : pc'[p] = IF p = q THEN "leaving" ELSE pc[p]
      BY <1>0, <3>1 DEF TypeOK
    <3> QED BY <1>0, <1>6, <2>1, <3>2, <3>3, CountKept DEF Cancel, hooks, Inside, LevelOf
  <2>2. CASE pc[q] # "body"
    <3>1. /\ pc[q] = "closing" /\ pc' = [pc EXCEPT ![q] = "ended"]
          /\ stray' = stray \cup {closing[q]}
          /\ pending' = pending /\ closing[q] \in Scopes
      BY <1>0, <1>6, <2>2 DEF Cancel, LevelOf
    <3>2. TypeOK'
      BY <1>0, <1>6, <3>1 DEF Cancel, TypeOK, hooks
    <3>3. \A p \in Requests : pc'[p] = IF p = q THEN "ended" ELSE pc[p]
      BY <1>0, <3>1 DEF TypeOK
    <3> QED BY <1>0, <1>6, <3>1, <3>2, <3>3, CountKept DEF Cancel, hooks, Inside, LevelOf
  <2> QED BY <2>1, <2>2
<1>7. ASSUME CloseNext(q)
      PROVE  CountInv'
  <2>1. stacks[closing[q]] \in Seq(Obj) /\ at[q] \in Nat /\ at[q] < Len(stacks[closing[q]])
        /\ pc[q] = "closing"
    BY <1>0, <1>7 DEF CloseNext, TypeOK, LevelOf
  <2>2. stacks[closing[q]][at[q] + 1] \in Obj
    BY <2>1
  <2>3. closed' \in SUBSET Obj /\ at' \in [Requests -> Nat]
    BY <1>0, <1>7, <2>1, <2>2 DEF CloseNext, TypeOK
  <2>4. TypeOK'
    BY <1>0, <1>7, <2>3 DEF CloseNext, TypeOK, hooks
  <2> QED BY <1>0, <1>7, <2>4, CountKept DEF CloseNext, hooks, Inside, LevelOf
<1>8. ASSUME Finish(q)
      PROVE  CountInv'
  <2>1. /\ pc[q] = "closing" /\ pc' = [pc EXCEPT ![q] = "ended"]
        /\ stacks' = [stacks EXCEPT ![closing[q]] = <<>>]
    BY <1>8 DEF Finish
  <2>2. TypeOK'
    <3>1. pc' \in [Requests -> {"idle", "body", "leaving", "closing", "ended"}]
      BY <1>0, <2>1 DEF TypeOK
    <3>2. stacks' \in [Scopes -> Seq(Obj)]
      <4>1. <<>> \in Seq(Obj) /\ stacks \in [Scopes -> Seq(Obj)]
        BY <1>0 DEF TypeOK
      <4> QED BY <2>1, <4>1
    <3> QED BY <1>0, <1>8, <3>1, <3>2 DEF Finish, TypeOK, hooks
  <2>3. \A p \in Requests : pc'[p] = IF p = q THEN "ended" ELSE pc[p]
    BY <1>0, <2>1 DEF TypeOK
  <2> QED BY <1>0, <1>8, <2>1, <2>2, <2>3, CountKept DEF Finish, hooks, Inside, LevelOf
<1> QED BY <1>1, <1>2, <1>3, <1>4, <1>5, <1>6, <1>7, <1>8

LEMMA StepCounts == CountInv /\ [Next]_vars => CountInv'
<1> SUFFICES ASSUME CountInv, [Next]_vars PROVE CountInv'
  OBVIOUS
<1>1. CASE UNCHANGED vars
  <2>1. TypeOK'
    BY <1>1 DEF CountInv, TypeOK, vars
  <2> QED BY <1>1, <2>1, CountKept DEF vars, CountInv, LevelOf, Inside
<1>2. CASE Next
  BY <1>2, EnterCounts, ReenterCounts, ExitCounts, HookFindsNothingCounts, OtherCounts DEF Next
<1> QED BY <1>1, <1>2

\* Whatever requests do, every variable keeps its shape: no depth falls below
\* zero, and a cache holds resources, requests or nothing.
THEOREM ScopeTypes == Spec => []TypeOK
<1>1. CountInv => TypeOK
  BY DEF CountInv
<1> QED BY <1>1, InitCounts, StepCounts, PTL DEF Spec

\* The depth of a scope is the number of entries that requests have not taken
\* back, for any number of requests and levels; only what the slot of a hooked
\* integration has forgotten stays counted.
THEOREM DepthIsCounted == Spec => []DepthCounts
<1>1. CountInv => DepthCounts
  <2> SUFFICES ASSUME CountInv, NEW s \in Scopes
               PROVE  /\ ~Forgot => depth[s] = Cardinality(Entries(s))
                      /\ (\A q \in Requests : pc[q] \in {"idle", "ended"}) => depth[s] = lost[s]
    BY DEF DepthCounts
  <2> USE DEF CountInv
  <2>1. /\ IsFiniteSet(Held(s)) /\ Cardinality(Held(s)) \in Nat
        /\ depth[s] = Cardinality(Held(s)) + lost[s] + (IF s = slot THEN 1 ELSE 0)
        /\ depth[s] \in Nat /\ lost[s] \in Nat
        /\ \A q \in Requests : level[q] \in 0..MaxLevel
        /\ MaxLevel \in Nat /\ MaxLevel >= 1 /\ None \notin Scopes
    BY FS_CardinalityType, ScopeAssumption DEF Accounted, TypeOK
  <2>2. ~Forgot => lost[s] = 0
    BY <2>1 DEF Forgot
  <2>3. ASSUME ~Forgot PROVE depth[s] = Cardinality(Entries(s))
    <3>1. CASE ~hooked
      <4>1. Held(s) = Entries(s)
        BY <3>1 DEF Held, Entries
      <4>2. s # slot
        BY <2>1, <3>1 DEF SlotUsed
      <4> QED BY <2>1, <2>2, <2>3, <4>1, <4>2
    <3>2. CASE hooked /\ s # slot
      <4>1. \A q \in Requests : scopeOf[q] = s => level[q] = 0
        BY <2>1, <2>3, <3>2 DEF OneHooked
      <4>2. Held(s) = Entries(s)
        BY <2>1, <4>1 DEF Held, Entries
      <4> QED BY <2>1, <2>2, <2>3, <3>2, <4>2
    <3>3. CASE hooked /\ s = slot
      <4>1. PICK q \in Requests : scopeOf[q] = s /\ Inside(q)
        BY <2>1, <3>3 DEF SlotUsed
      <4>2. level[q] >= 1 /\ \A p \in Requests : level[p] >= 1 => p = q
        BY <2>3, <3>3, <4>1 DEF LevelOf, OneHooked
      <4>3. Entries(s) = Held(s) \cup {<<q, 1>>}
        <5>1. <<q, 1>> \in Entries(s)
          BY <2>1, <4>1, <4>2 DEF Entries
        <5>2. Held(s) \subseteq Entries(s)
          BY DEF Held, Entries
        <5>3. ASSUME NEW e \in Entries(s), e \notin Held(s) PROVE e = <<q, 1>>
          <6>1. PICK p \in Requests, n \in 1..MaxLevel : e = <<p, n>> /\ n <= level[p] /\ ~(n > 1)
            BY <3>3, <5>3 DEF Held, Entries
          <6>2. n = 1 /\ p = q
            BY <2>1, <4>2, <6>1
          <6> QED BY <6>1, <6>2
        <5> QED BY <5>1, <5>2, <5>3
      <4>4. <<q, 1>> \notin Held(s)
        BY <3>3 DEF Held
      <4>5. Cardinality(Entries(s)) = Cardinality(Held(s)) + 1
        BY <2>1, <4>3, <4>4, FS_AddElement
      <4> QED BY <2>1, <2>2, <2>3, <3>3, <4>5
    <3> QED BY <3>1, <3>2, <3>3
  <2>4. ASSUME \A q \in Requests : pc[q] \in {"idle", "ended"} PROVE depth[s] = lost[s]
    <3>1. \A q \in Requests : level[q] <= (IF hooked THEN 1 ELSE 0)
      BY <2>1, <2>4 DEF LevelOf
    <3>2. Held(s) = {}
      <4> SUFFICES ASSUME NEW e \in Held(s) PROVE FALSE
        OBVIOUS
      <4>1. PICK p \in Requests, n \in 1..MaxLevel : e = <<p, n>> /\ n <= level[p] /\ (hooked => n > 1)
        BY DEF Held
      <4> QED BY <2>1, <3>1, <4>1
    <3>3. s # slot
      BY <2>1, <2>4 DEF SlotUsed, Inside
    <3> QED BY <2>1, <3>2, <3>3, FS_EmptySet
  <2> QED BY <2>3, <2>4
<1> QED BY <1>1, InitCounts, StepCounts, PTL DEF Spec

-----------------------------------------------------------------------------
(* What a scope keeps *)

\* Scopes about which something can be said.
Sound(s) == s \notin stray /\ ~Forgot

\* Every resource has been counted by its provider.
Known(v) == v \in Obj => v[2] <= made[v[1]]
Opened(s) == {stacks[s][i] : i \in DOMAIN stacks[s]}
AllKnown ==
  /\ \A s \in Scopes : \A k \in Keys : Known(cache[s][k])
  /\ \A s \in Scopes : \A v \in Opened(s) : Known(v)
  /\ \A q \in Requests : \A v \in got[q] : Known(v)
  /\ \A v \in closed : Known(v)

\* Requests that are in a scope at the same time have met.
MetInside ==
  \A p, q \in Requests :
    p # q /\ p \in Present(scopeOf[q]) /\ q \in Present(scopeOf[q]) => p \in met /\ q \in met

History ==
  /\ AllKnown /\ MetInside
  /\ \A q \in Requests : pc[q] = "idle" => got[q] = {}

\* Resources are on the exit stacks until they are finalized; a scope that
\* nobody is in has nothing cached, bound or to be closed; and the one who
\* closes it is alone.
ScopeKept(s) ==
  Sound(s) =>
    /\ \A k \in Keys : cache[s][k] \in Obj => cache[s][k] \in closed \cup Opened(s)
    /\ \A q \in Requests : scopeOf[q] = s => got[q] \cap Obj \subseteq closed \cup Opened(s)
    /\ depth[s] = 0 => \A k \in Keys : cache[s][k] = None
    /\ Present(s) = {} => stacks[s] = <<>>
    /\ \A p \in Requests : scopeOf[p] = s /\ pc[p] = "closing" =>
         /\ Present(s) = {p}
         /\ \A i \in DOMAIN stacks[s] : i <= at[p] => stacks[s][i] \in closed

\* What belongs to a clean request: its scope holds what it has got and its
\* own request object, and its resources are in its own scope alone.
OwnScope(q) ==
  Clean(q) =>
    /\ got[q] \cap Requests \subseteq {q}
    /\ \A s \in Scopes : got[q] \cap Opened(s) # {} => s = scopeOf[q]
    /\ Inside(q) =>
         /\ active[q] = scopeOf[q] /\ context[scopeOf[q]] = q
         /\ level[q] > 1 => previous[scopeOf[q]] = scopeOf[q]
         /\ \A k \in Keys : cache[scopeOf[q]][k] \in got[q] \cup {None}

Apart == \A p, q \in Requests : p # q /\ Clean(p) /\ Clean(q) => got[q] \cap got[p] = {}

ClosesOwn == ~Forgot => \A q \in Requests : pc[q] = "closing" => closing[q] = scopeOf[q]

CleanInv ==
  /\ ClosesOwn /\ Apart /\ HeldIsOpen
  /\ \A s \in Scopes : ScopeKept(s)
  /\ \A q \in Requests : OwnScope(q)

IInv == CountInv /\ History /\ CleanInv

LEMMA InitClean == Init => IInv
<1> SUFFICES ASSUME Init PROVE IInv
  OBVIOUS
<1>1. CountInv
  BY InitCounts
<1>2. History
  <2>1. \A s \in Scopes : Opened(s) = {}
    BY DEF Init, Opened
  <2>2. None \notin Obj
    BY ScopeAssumption DEF Obj
  <2> QED BY <2>1, <2>2 DEF Init, History, AllKnown, Known, MetInside, Present
<1>3. CleanInv
  <2>1. \A s \in Scopes : ScopeKept(s)
    <3>1. None \notin Obj
      BY ScopeAssumption DEF Obj
    <3> QED BY <3>1 DEF Init, ScopeKept
  <2>2. \A q \in Requests : OwnScope(q)
    BY DEF Init, OwnScope, Inside
  <2> QED BY <2>1, <2>2 DEF Init, CleanInv, ClosesOwn, Apart, HeldIsOpen
<1> QED BY <1>1, <1>2, <1>3 DEF IInv

\* A scope that somebody is inside is open, and one that nobody is inside is
\* not.
LEMMA InsideOpen ==
  ASSUME CountInv, ~Forgot, NEW q \in Requests, Inside(q)
  PROVE  depth[scopeOf[q]] # 0
<1> USE DEF CountInv
<1> DEFINE s == scopeOf[q]
<1>1. s \in Scopes /\ level[q] \in 0..MaxLevel /\ level[q] >= 1 /\ MaxLevel \in Nat
  BY ScopeAssumption DEF TypeOK, LevelOf
<1>2. /\ IsFiniteSet(Held(s)) /\ Cardinality(Held(s)) \in Nat
      /\ depth[s] = Cardinality(Held(s)) + lost[s] + (IF s = slot THEN 1 ELSE 0)
      /\ lost[s] \in Nat
  BY <1>1, FS_CardinalityType DEF Accounted, TypeOK
<1>3. CASE hooked
  BY <1>1, <1>2, <1>3 DEF OneHooked
<1>4. CASE ~hooked
  <2>1. <<q, 1>> \in Held(s)
    BY <1>1, <1>4 DEF Held
  <2>2. Cardinality(Held(s)) >= 1
    BY <1>2, <2>1, NonEmpty
  <2> QED BY <1>2, <2>2
<1> QED BY <1>3, <1>4

LEMMA OpenInside ==
  ASSUME CountInv, ~Forgot, NEW s \in Scopes, \A q \in Requests : scopeOf[q] = s => ~Inside(q)
  PROVE  depth[s] = 0
<1> USE DEF CountInv
<1>1. /\ depth[s] = Cardinality(Held(s)) + lost[s] + (IF s = slot THEN 1 ELSE 0)
      /\ lost[s] = 0
      /\ \A q \in Requests : level[q] \in 0..MaxLevel
      /\ MaxLevel \in Nat /\ None \notin Scopes
  BY ScopeAssumption DEF Accounted, TypeOK, Forgot
<1>2. Held(s) = {}
  <2> SUFFICES ASSUME NEW e \in Held(s) PROVE FALSE
    OBVIOUS
  <2>1. PICK p \in Requests, n \in 1..MaxLevel :
          e = <<p, n>> /\ scopeOf[p] = s /\ n <= level[p] /\ (hooked => n > 1)
    BY DEF Held
  <2>2. pc[p] \in {"idle", "closing", "ended"}
    BY <2>1 DEF TypeOK, Inside
  <2> QED BY <1>1, <2>1, <2>2 DEF LevelOf
<1>3. s # slot
  BY <1>1 DEF SlotUsed
<1> QED BY <1>1, <1>2, <1>3, FS_EmptySet

\* The same as one formula, and for the state after a step.
LEMMA OpenIffInside ==
  CountInv /\ ~Forgot =>
    \A s \in Scopes : depth[s] = 0 <=> \A q \in Requests : scopeOf[q] = s => ~Inside(q)
  BY InsideOpen, OpenInside

LEMMA OpenIffInsideNext ==
  (CountInv /\ ~Forgot =>
    \A s \in Scopes : depth[s] = 0 <=> \A q \in Requests : scopeOf[q] = s => ~Inside(q))'
  BY OpenIffInside, PTL

\* A clean request is alone in its scope.
LEMMA CleanAlone ==
  ASSUME TypeOK, MetInside, NEW p \in Requests, NEW q \in Requests, p # q, Clean(p),
         pc[p] \notin {"idle", "ended"}, pc[q] \notin {"idle", "ended"}
  PROVE  scopeOf[p] # scopeOf[q]
  BY DEF MetInside, Present, Clean

\* Once the slot has forgotten an entry nothing more is claimed.
LEMMA ForgotClean == Forgot => CleanInv
  BY DEF CleanInv, ClosesOwn, Apart, HeldIsOpen, ScopeKept, Sound, OwnScope, Clean

\* Meetings are only made by those who enter.
LEMMA MetKept ==
  ASSUME TypeOK, MetInside, met \subseteq met', scopeOf' = scopeOf,
         \A p \in Requests : pc'[p] \notin {"idle", "ended"} => pc[p] \notin {"idle", "ended"}
  PROVE  MetInside'
  BY DEF TypeOK, MetInside, Present

\* Steps that change neither what is kept nor who is inside.
LEMMA CleanKept ==
  ASSUME IInv, CountInv',
         UNCHANGED <<scopeOf, cache, context, stacks, depth, previous, active, level, at, closed,
                     made, got, met, stray, closing, lost>>,
         \A p \in Requests :
           /\ Inside(p)' <=> Inside(p)
           /\ pc'[p] = "body" => pc[p] = "body"
           /\ pc'[p] = "closing" <=> pc[p] = "closing"
           /\ pc'[p] = "idle" <=> pc[p] = "idle"
           /\ pc'[p] = "ended" <=> pc[p] = "ended"
  PROVE  IInv'
<1>1. \A s \in Scopes : Present(s)' = Present(s) /\ Opened(s)' = Opened(s) /\ (Sound(s)' <=> Sound(s))
  BY DEF Present, Opened, Sound, Forgot
<1>2. \A q \in Requests : Clean(q)' <=> Clean(q)
  BY DEF Clean, Forgot
<1>3. AllKnown'
  BY <1>1 DEF IInv, History, AllKnown, Known
<1>4. MetInside'
  BY MetKept DEF IInv, CountInv, History
<1>5. History'
  BY <1>3, <1>4 DEF IInv, History
<1>6. \A s \in Scopes : ScopeKept(s)'
  BY <1>1 DEF IInv, CleanInv, ScopeKept
<1>7. \A q \in Requests : OwnScope(q)'
  BY <1>1, <1>2 DEF IInv, CleanInv, OwnScope
<1>8. (ClosesOwn /\ Apart /\ HeldIsOpen)'
  BY <1>2 DEF IInv, CleanInv, ClosesOwn, Apart, HeldIsOpen, Forgot
<1> QED BY <1>5, <1>6, <1>7, <1>8 DEF IInv, CleanInv

LEMMA PauseClean ==
  ASSUME IInv, CountInv', NEW q \in Requests,
         \/ \E i \in Slots, k \in Keys : GetStarts(q, i, k)
         \/ \E i \in Slots : GetFails(q, i)
         \/ Cancel(q) /\ pc[q] = "body"
         \/ (\E k \in Keys : GetContext(q, k)) /\ pc'[q] = "leaving"
  PROVE  IInv'
<1>1. TypeOK
  BY DEF IInv, CountInv
<1> DEFINE Paused ==
  /\ UNCHANGED <<scopeOf, cache, context, stacks, depth, previous, active, level, at, closed,
                 made, got, met, stray, closing, lost>>
  /\ \A p \in Requests : p # q => pc'[p] = pc[p]
  /\ (pc[q] \in {"body", "leaving"} /\ pc'[q] = "leaving") \/ pc'[q] = pc[q]
<1>2. Paused
  <2>1. ASSUME NEW i \in Slots, NEW k \in Keys, GetStarts(q, i, k) PROVE Paused
    BY <2>1 DEF GetStarts, hooks
  <2>2. ASSUME NEW i \in Slots, GetFails(q, i) PROVE Paused
    BY <1>1, <2>2 DEF GetFails, hooks, TypeOK
  <2>3. ASSUME Cancel(q), pc[q] = "body" PROVE Paused
    BY <1>1, <2>3 DEF Cancel, hooks, TypeOK
  <2>4. ASSUME NEW k \in Keys, GetContext(q, k), pc'[q] = "leaving" PROVE Paused
    <3> DEFINE value == IF active[q] = None THEN None ELSE context[active[q]]
    <3>1. pc[q] = "body"
      BY <2>4 DEF GetContext
    <3>2. value = None
      BY <2>4, <3>1 DEF GetContext
    <3>3. pc' = [pc EXCEPT ![q] = "leaving"] /\ UNCHANGED <<cache, got>>
      BY <2>4, <3>2 DEF GetContext
    <3> QED BY <1>1, <2>4, <3>1, <3>3 DEF GetContext, hooks, TypeOK
  <2> QED BY <2>1, <2>2, <2>3, <2>4
<1> QED BY <1>2, CleanKept DEF Inside

\* A hit gives a clean request what it has got already.
LEMMA GetHitClean ==
  ASSUME IInv, CountInv', NEW q \in Requests, NEW k \in Keys, GetHit(q, k)
  PROVE  IInv'
<1> DEFINE s0 == scopeOf[q]
           v == cache[s0][k]
<1>1. TypeOK /\ History /\ CleanInv
  BY DEF IInv, CountInv
<1>2. /\ UNCHANGED <<scopeOf, cache, context, stacks, depth, previous, active, pc, level, at,
                     pending, closed, made, met, stray, hooked, slot, closing, lost>>
      /\ pc[q] = "body" /\ v # None /\ s0 \in Scopes
      /\ \A p \in Requests : got'[p] = IF p = q THEN got[q] \cup {v} ELSE got[p]
  BY <1>1 DEF GetHit, hooks, TypeOK
<1>3. \A s \in Scopes : Present(s)' = Present(s) /\ Opened(s)' = Opened(s) /\ (Sound(s)' <=> Sound(s))
  BY <1>2 DEF Present, Opened, Sound, Forgot
<1>4. \A p \in Requests : (Clean(p)' <=> Clean(p)) /\ (Inside(p)' <=> Inside(p))
  BY <1>2 DEF Clean, Forgot, Inside
<1>5. \A p \in Requests : Clean(p) => got'[p] = got[p]
  <2>1. Inside(q) /\ OwnScope(q)
    BY <1>1, <1>2 DEF CleanInv, Inside
  <2>2. Clean(q) => v \in got[q]
    BY <1>2, <2>1 DEF OwnScope
  <2> QED BY <1>2, <2>2
<1>6. History'
  <2>1. Known(v)
    BY <1>1, <1>2 DEF History, AllKnown
  <2>2. AllKnown'
    BY <1>1, <1>2, <1>3, <2>1 DEF History, AllKnown, Known
  <2>3. MetInside'
    BY <1>1, <1>2, MetKept DEF History
  <2> QED BY <1>1, <1>2, <2>2, <2>3 DEF History
<1>7. \A s \in Scopes : ScopeKept(s)'
  <2> SUFFICES ASSUME NEW s \in Scopes PROVE ScopeKept(s)'
    OBVIOUS
  <2>1. ScopeKept(s)
    BY <1>1 DEF CleanInv
  <2>2. Sound(s) /\ s = s0 => {v} \cap Obj \subseteq closed \cup Opened(s)
    BY <2>1, <1>2 DEF ScopeKept
  <2>3. Sound(s) => \A p \in Requests : scopeOf[p] = s => got'[p] \cap Obj \subseteq closed \cup Opened(s)
    BY <1>2, <2>1, <2>2 DEF ScopeKept
  <2> QED BY <1>2, <1>3, <2>1, <2>3 DEF ScopeKept
<1>8. \A p \in Requests : OwnScope(p)'
  BY <1>1, <1>2, <1>3, <1>4, <1>5 DEF CleanInv, OwnScope
<1>9. (ClosesOwn /\ Apart /\ HeldIsOpen)'
  BY <1>1, <1>2, <1>4, <1>5 DEF CleanInv, ClosesOwn, Apart, HeldIsOpen, Forgot
<1> QED BY <1>6, <1>7, <1>8, <1>9 DEF IInv, CleanInv

\* A context value is the request that is bound, for a clean one itself.
LEMMA GetContextClean ==
  ASSUME IInv, CountInv', NEW q \in Requests, NEW k \in Keys, GetContext(q, k),
         pc'[q] # "leaving"
  PROVE  IInv'
<1> DEFINE s0 == scopeOf[q]
           value == IF active[q] = None THEN None ELSE context[active[q]]
<1>1. TypeOK /\ History /\ CleanInv /\ CountInv
  BY DEF IInv, CountInv
<1>2. value # None /\ value \in Requests
  <2>1. value \in Requests \cup {None}
    BY <1>1 DEF TypeOK
  <2>2. value = None => pc'[q] = "leaving"
    BY <1>1 DEF GetContext, TypeOK
  <2> QED BY <2>1, <2>2
<1>3. /\ UNCHANGED <<scopeOf, context, stacks, depth, previous, active, pc, level, at,
                     pending, closed, made, met, stray, hooked, slot, closing, lost>>
      /\ pc[q] = "body" /\ s0 \in Scopes
      /\ cache' = [cache EXCEPT ![s0][k] = value]
      /\ got' = [got EXCEPT ![q] = @ \cup {value}]
  BY <1>1, <1>2 DEF GetContext, hooks, TypeOK
<1>4. Clean(q) => value = q
  BY <1>1, <1>3, ScopeAssumption DEF CleanInv, OwnScope, Inside, TypeOK
<1>5. value \notin Obj /\ closed \subseteq Obj /\ \A s \in Scopes : Opened(s) \subseteq Obj
  <2>1. Obj \subseteq Resources \X Nat
    BY DEF Obj
  <2>2. value \notin Obj
    BY <1>2, <2>1, ScopeAssumption
  <2>3. closed \subseteq Obj /\ \A s \in Scopes : stacks[s] \in Seq(Obj)
    BY <1>1 DEF TypeOK
  <2> QED BY <2>2, <2>3 DEF Opened
<1> HIDE DEF value
<1>6. \A p \in Requests : got'[p] = IF p = q THEN got[q] \cup {value} ELSE got[p]
  BY <1>1, <1>3 DEF TypeOK
<1>7. \A s \in Scopes : \A j \in Keys :
        cache'[s][j] = IF s = s0 /\ j = k THEN value ELSE cache[s][j]
  BY <1>1, <1>3 DEF TypeOK
<1>8. \A s \in Scopes : Present(s)' = Present(s) /\ Opened(s)' = Opened(s) /\ (Sound(s)' <=> Sound(s))
  BY <1>3 DEF Present, Opened, Sound, Forgot
<1>9. \A p \in Requests : (Clean(p)' <=> Clean(p)) /\ (Inside(p)' <=> Inside(p))
  BY <1>3 DEF Clean, Forgot, Inside
<1>10. History'
  <2>1. AllKnown'
    <3>1. Known(value)
      BY <1>5 DEF Known
    <3> QED BY <1>1, <1>3, <1>6, <1>7, <1>8, <3>1 DEF History, AllKnown, Known
  <2>2. MetInside'
    BY <1>1, <1>3, MetKept DEF History
  <2> QED BY <1>1, <1>3, <1>6, <2>1, <2>2 DEF History
<1>11. \A s \in Scopes : ScopeKept(s)'
  <2> SUFFICES ASSUME NEW s \in Scopes, Sound(s) PROVE ScopeKept(s)'
    BY <1>8 DEF ScopeKept
  <2>1. ScopeKept(s)
    BY <1>1 DEF CleanInv
  <2>2. s = s0 => depth[s] # 0
    BY <1>1, <1>3, InsideOpen DEF Sound, Inside
  <2>3. \A j \in Keys : cache'[s][j] \in Obj => cache'[s][j] \in closed \cup Opened(s)
    BY <1>5, <1>7, <2>1 DEF ScopeKept
  <2>4. \A p \in Requests : scopeOf[p] = s => got'[p] \cap Obj \subseteq closed \cup Opened(s)
    BY <1>5, <1>6, <2>1 DEF ScopeKept
  <2>5. depth[s] = 0 => \A j \in Keys : cache'[s][j] = None
    BY <1>7, <2>1, <2>2 DEF ScopeKept
  <2> QED BY <1>3, <1>8, <2>1, <2>3, <2>4, <2>5 DEF ScopeKept
<1>12. \A p \in Requests : OwnScope(p)'
  <2> SUFFICES ASSUME NEW p \in Requests, Clean(p) PROVE OwnScope(p)'
    BY <1>9 DEF OwnScope
  <2>1. OwnScope(p)
    BY <1>1 DEF CleanInv
  <2>2. CASE p = q
    <3>1. got'[q] \cap Requests \subseteq {q}
      BY <1>4, <1>6, <2>1, <2>2 DEF OwnScope
    <3>2. \A s \in Scopes : got'[q] \cap Opened(s) # {} => s = scopeOf[q]
      BY <1>5, <1>6, <2>1, <2>2 DEF OwnScope
    <3>3. Inside(q) => \A j \in Keys : cache'[s0][j] \in got'[q] \cup {None}
      BY <1>3, <1>6, <1>7, <2>1, <2>2 DEF OwnScope
    <3> QED BY <1>3, <1>8, <1>9, <2>1, <2>2, <3>1, <3>2, <3>3 DEF OwnScope
  <2>3. CASE p # q
    <3>1. Inside(p) => scopeOf[p] # s0
      BY <1>1, <1>3, <2>3, CleanAlone DEF History, Inside
    <3>2. scopeOf[p] \in Scopes
      BY <1>1 DEF TypeOK
    <3>3. Inside(p) => \A j \in Keys : cache'[scopeOf[p]][j] = cache[scopeOf[p]][j]
      BY <1>7, <3>1, <3>2
    <3> QED BY <1>3, <1>6, <1>8, <1>9, <2>1, <2>3, <3>3 DEF OwnScope
  <2> QED BY <2>2, <2>3
<1>13. Apart'
  <2> SUFFICES ASSUME NEW p \in Requests, NEW r \in Requests, p # r, Clean(p), Clean(r)
               PROVE  got'[r] \cap got'[p] = {}
    BY <1>9 DEF Apart
  <2>1. got[r] \cap got[p] = {} /\ got[r] \cap Requests \subseteq {r} /\ got[p] \cap Requests \subseteq {p}
    BY <1>1 DEF CleanInv, Apart, OwnScope
  <2> QED BY <1>2, <1>4, <1>6, <2>1
<1>14. HeldIsOpen'
  BY <1>1, <1>3, <1>5, <1>6, <1>9 DEF CleanInv, HeldIsOpen
<1>15. ClosesOwn'
  BY <1>1, <1>3 DEF CleanInv, ClosesOwn, Forgot
<1> QED BY <1>10, <1>11, <1>12, <1>13, <1>14, <1>15 DEF IInv, CleanInv

\* What a provider delivers is new: nobody has it, and it is not finalized.
LEMMA GetEndsClean ==
  ASSUME IInv, CountInv', NEW q \in Requests, NEW i \in Slots, GetEnds(q, i)
  PROVE  IInv'
<1> DEFINE s0 == scopeOf[q]
           k0 == pending[q][i]
           o == <<k0, made[k0] + 1>>
<1>1. TypeOK /\ History /\ CleanInv /\ CountInv
  BY DEF IInv, CountInv
<1>2. /\ s0 \in Scopes /\ k0 \in Resources /\ k0 \in Keys /\ made[k0] \in Nat
      /\ o \in Obj /\ o \notin Requests /\ o # None
  <2>1. s0 \in Scopes /\ k0 \in Resources /\ k0 \in Keys /\ made[k0] \in Nat
    BY <1>1 DEF GetEnds, TypeOK, Keys
  <2>2. o \in Obj /\ o \in Resources \X Nat
    BY <2>1 DEF Obj
  <2> QED BY <2>1, <2>2, ScopeAssumption
<1>3. /\ UNCHANGED <<scopeOf, context, depth, previous, active, pc, level, at, closed, met,
                     hooked, slot, closing, lost>>
      /\ made' = [made EXCEPT ![k0] = made[k0] + 1]
      /\ stacks' = [stacks EXCEPT ![s0] = Append(@, o)]
      /\ cache' = [cache EXCEPT ![s0][k0] = o]
      /\ got' = IF pc[q] = "body" THEN [got EXCEPT ![q] = @ \cup {o}] ELSE got
      /\ stray' = IF pc[q] = "body" THEN stray ELSE stray \cup {s0}
  BY DEF GetEnds, hooks
<1>4. /\ \A k \in Resources : made[k] \in Nat /\ made'[k] = IF k = k0 THEN made[k] + 1 ELSE made[k]
      /\ \A v : Known(v) /\ v \in Obj => Known(v)' /\ v # o
      /\ o[2] = made'[o[1]]
  <2>1. \A k \in Resources : made[k] \in Nat /\ made'[k] = IF k = k0 THEN made[k] + 1 ELSE made[k]
    BY <1>1, <1>3 DEF TypeOK
  <2>2. ASSUME NEW v, Known(v), v \in Obj PROVE Known(v)' /\ v # o
    BY <1>2, <2>1, <2>2 DEF Known, Obj
  <2> QED BY <1>2, <2>1, <2>2
<1>5. o[2] <= made'[o[1]]
  BY <1>2, <1>4
<1> HIDE DEF o
<1>6. \A p \in Requests : got'[p] = IF p = q /\ pc[q] = "body" THEN got[p] \cup {o} ELSE got[p]
  BY <1>1, <1>3 DEF TypeOK
<1>7. \A s \in Scopes : \A j \in Keys :
        cache'[s][j] = IF s = s0 /\ j = k0 THEN o ELSE cache[s][j]
  BY <1>1, <1>2, <1>3 DEF TypeOK
<1>8. \A s \in Scopes : Opened(s)' = IF s = s0 THEN Opened(s) \cup {o} ELSE Opened(s)
  <2> SUFFICES ASSUME NEW s \in Scopes
               PROVE  Opened(s)' = IF s = s0 THEN Opened(s) \cup {o} ELSE Opened(s)
    OBVIOUS
  <2>1. CASE s # s0
    BY <1>1, <1>2, <1>3, <2>1 DEF TypeOK, Opened
  <2>2. CASE s = s0
    <3>1. stacks[s] \in Seq(Obj) /\ stacks'[s] = Append(stacks[s], o)
      BY <1>1, <1>3, <2>2 DEF TypeOK
    <3>2. /\ DOMAIN stacks'[s] = 1..(Len(stacks[s]) + 1) /\ DOMAIN stacks[s] = 1..Len(stacks[s])
          /\ stacks'[s][Len(stacks[s]) + 1] = o
          /\ \A n \in 1..Len(stacks[s]) : stacks'[s][n] = stacks[s][n]
          /\ Len(stacks[s]) \in Nat
      BY <1>2, <3>1
    <3> DEFINE before == stacks[s]
               after == stacks'[s]
    <3>3. {after[n] : n \in DOMAIN after} = {before[n] : n \in DOMAIN before} \cup {o}
      <4>1. \A n \in DOMAIN after : n \in DOMAIN before \/ n = Len(before) + 1
        BY <3>2
      <4>2. \A n \in DOMAIN before : n \in DOMAIN after /\ after[n] = before[n]
        BY <3>2
      <4>3. Len(before) + 1 \in DOMAIN after /\ after[Len(before) + 1] = o
        BY <3>2
      <4> HIDE DEF before, after
      <4> QED BY <4>1, <4>2, <4>3
    <3> QED BY <2>2, <3>3 DEF Opened
  <2> QED BY <2>1, <2>2
<1>9. /\ \A s \in Scopes : Present(s)' = Present(s)
      /\ \A s \in Scopes : Sound(s)' => Sound(s) /\ (s = s0 => pc[q] = "body")
      /\ \A p \in Requests : Clean(p)' => Clean(p) /\ (scopeOf[p] = s0 => pc[q] = "body")
      /\ \A p \in Requests : Inside(p)' <=> Inside(p)
  BY <1>3 DEF Present, Sound, Forgot, Clean, Inside
<1>10. \A s \in Scopes : Opened(s) \subseteq Obj
  BY <1>1 DEF TypeOK, Opened
\* Nobody has it.
<1>11. /\ \A p \in Requests : o \notin got[p]
       /\ o \notin closed
  BY <1>1, <1>2, <1>4 DEF History, AllKnown
<1>12. History'
  <2>1. AllKnown'
    <3> DEFINE KnownNow(v) == v \in Obj => v[2] <= made'[v[1]]
    <3>1. /\ \A v : Known(v) => KnownNow(v)
          /\ KnownNow(o)
      BY <1>4, <1>5 DEF Known
    <3> HIDE DEF KnownNow
    <3>2. \A s \in Scopes : \A k \in Keys : KnownNow(cache'[s][k])
      BY <1>1, <1>7, <3>1 DEF History, AllKnown
    <3>3. \A s \in Scopes : \A v \in Opened(s)' : KnownNow(v)
      BY <1>1, <1>8, <3>1 DEF History, AllKnown
    <3>4. \A p \in Requests : \A v \in got'[p] : KnownNow(v)
      BY <1>1, <1>6, <3>1 DEF History, AllKnown
    <3>5. \A v \in closed' : KnownNow(v)
      BY <1>1, <1>3, <3>1 DEF History, AllKnown
    <3> QED BY <3>2, <3>3, <3>4, <3>5 DEF AllKnown, Known, KnownNow
  <2>2. MetInside'
    BY <1>1, <1>3, MetKept DEF History
  <2> QED BY <1>1, <1>3, <1>6, <2>1, <2>2 DEF History
<1>13. \A s \in Scopes : ScopeKept(s)'
  <2> SUFFICES ASSUME NEW s \in Scopes, Sound(s), s = s0 => pc[q] = "body"
               PROVE  ScopeKept(s)'
    BY <1>9 DEF ScopeKept
  <2>1. ScopeKept(s)
    BY <1>1 DEF CleanInv
  <2>2. \A j \in Keys : cache'[s][j] \in Obj => cache'[s][j] \in closed \cup Opened(s)'
    BY <1>7, <1>8, <2>1 DEF ScopeKept
  <2>3. \A p \in Requests : scopeOf[p] = s => got'[p] \cap Obj \subseteq closed \cup Opened(s)'
    BY <1>6, <1>8, <2>1 DEF ScopeKept
  <2>4. CASE s # s0
    <3>1. stacks'[s] = stacks[s] /\ \A j \in Keys : cache'[s][j] = cache[s][j]
      BY <1>1, <1>3, <1>7, <2>4 DEF TypeOK
    <3>2. /\ depth[s] = 0 => \A k \in Keys : cache[s][k] = None
          /\ Present(s) = {} => stacks[s] = <<>>
          /\ \A p \in Requests : scopeOf[p] = s /\ pc[p] = "closing" =>
               /\ Present(s) = {p}
               /\ \A n \in DOMAIN stacks[s] : n <= at[p] => stacks[s][n] \in closed
      BY <2>1 DEF ScopeKept
    <3>3. Present(s)' = Present(s)
      BY <1>9
    <3>4. depth' = depth /\ pc' = pc /\ at' = at /\ closed' = closed /\ scopeOf' = scopeOf
      BY <1>3
    <3> QED BY <2>2, <2>3, <3>1, <3>2, <3>3, <3>4 DEF ScopeKept
  <2>5. CASE s = s0
    <3>1. q \in Present(s) /\ pc[q] = "body"
      BY <2>5 DEF Present
    <3>2. depth[s] # 0
      BY <1>1, <2>5, <3>1, InsideOpen DEF Sound, Inside
    <3>3. \A p \in Requests : scopeOf[p] = s => pc[p] # "closing"
      <4> SUFFICES ASSUME NEW p \in Requests, scopeOf[p] = s, pc[p] = "closing" PROVE FALSE
        OBVIOUS
      <4>1. Present(s) = {p}
        BY <2>1 DEF ScopeKept
      <4> QED BY <3>1, <4>1
    <3>4. Present(s) # {} /\ Present(s)' = Present(s)
      BY <1>9, <3>1
    <3> QED BY <1>3, <2>2, <2>3, <3>2, <3>3, <3>4 DEF ScopeKept
  <2> QED BY <2>4, <2>5
<1>14. \A p \in Requests : OwnScope(p)'
  <2> SUFFICES ASSUME NEW p \in Requests, Clean(p), scopeOf[p] = s0 => pc[q] = "body"
               PROVE  OwnScope(p)'
    BY <1>9 DEF OwnScope
  <2>1. OwnScope(p) /\ scopeOf[p] \in Scopes
    BY <1>1 DEF CleanInv, TypeOK
  <2>2. CASE p = q
    <3>1. got'[q] = got[q] \cup {o}
      BY <1>6, <2>2
    <3>2. got'[q] \cap Requests \subseteq {q}
      BY <1>2, <2>1, <2>2, <3>1 DEF OwnScope
    <3>3. \A s \in Scopes : o \in Opened(s) => FALSE
      BY <1>1, <1>2, <1>4 DEF History, AllKnown
    <3>4. \A s \in Scopes : got'[q] \cap Opened(s)' # {} => s = scopeOf[q]
      BY <1>8, <1>11, <2>1, <2>2, <3>1, <3>3 DEF OwnScope
    <3>5. Inside(q) => \A j \in Keys : cache'[s0][j] \in got'[q] \cup {None}
      BY <1>7, <2>1, <2>2, <3>1 DEF OwnScope
    <3> QED BY <1>3, <1>9, <2>1, <2>2, <3>2, <3>4, <3>5 DEF OwnScope
  <2>3. CASE p # q
    <3>1. got'[p] = got[p]
      BY <1>6, <2>3
    <3>2. \A s \in Scopes : got'[p] \cap Opened(s)' # {} => s = scopeOf[p]
      BY <1>8, <1>11, <2>1, <3>1 DEF OwnScope
    <3>3. Inside(p) => scopeOf[p] # s0
      BY <1>1, <2>3, CleanAlone DEF History, Inside
    <3>4. Inside(p) => \A j \in Keys : cache'[scopeOf[p]][j] = cache[scopeOf[p]][j]
      BY <1>7, <2>1, <3>3
    <3> QED BY <1>3, <1>9, <2>1, <3>1, <3>2, <3>4 DEF OwnScope
  <2> QED BY <2>2, <2>3
<1>15. Apart'
  BY <1>1, <1>6, <1>9, <1>11 DEF CleanInv, Apart
<1>16. HeldIsOpen'
  BY <1>1, <1>3, <1>6, <1>9, <1>11 DEF CleanInv, HeldIsOpen
<1>17. ClosesOwn'
  BY <1>1, <1>3 DEF CleanInv, ClosesOwn, Forgot
<1> QED BY <1>12, <1>13, <1>14, <1>15, <1>16, <1>17 DEF IInv, CleanInv

LEMMA HookFindsNothingClean ==
  ASSUME IInv, CountInv', NEW q \in Requests, HookFindsNothing(q)
  PROVE  IInv'
<1>1. TypeOK /\ History /\ CleanInv /\ CountInv
  BY DEF IInv, CountInv
<1>2. /\ Inside(q) /\ hooked /\ level[q] = 1 /\ slot = None
      /\ UNCHANGED <<scopeOf, cache, stacks, met, made, got, closed, lost>>
      /\ pc' = [pc EXCEPT ![q] = "ended"]
  BY <1>1, ScopeAssumption DEF HookFindsNothing, Inside, Left, TypeOK, hooks
<1>3. Forgot
  <2>1. scopeOf[q] # None
    BY <1>1, ScopeAssumption DEF TypeOK
  <2> QED BY <1>1, <1>2, <2>1 DEF CountInv, OneHooked
<1>4. CleanInv'
  <2>1. Forgot'
    BY <1>2, <1>3 DEF Forgot
  <2> QED BY <2>1 DEF CleanInv, ClosesOwn, Apart, HeldIsOpen, ScopeKept, Sound, OwnScope, Clean
<1>5. History'
  <2>1. MetInside'
    BY <1>1, <1>2, MetKept DEF History, Inside, TypeOK
  <2>2. AllKnown'
    BY <1>1, <1>2 DEF History, AllKnown, Known, Opened
  <2> QED BY <1>1, <1>2, <2>1, <2>2 DEF History, TypeOK
<1> QED BY <1>4, <1>5 DEF IInv

\* The last one to leave empties the scope before it closes the stacks.
LEMMA ExitClean ==
  ASSUME IInv, CountInv', NEW q \in Requests, Exit(q)
  PROVE  IInv'
<1> DEFINE s0 == Left(q)
<1>1. TypeOK /\ History /\ CleanInv /\ CountInv /\ TypeOK'
  BY DEF IInv, CountInv
<1>2. /\ s0 \in Scopes /\ Inside(q)
      /\ level[q] \in Nat /\ level[q] >= 1
      /\ depth[s0] \in Nat /\ depth[s0] >= 1
      /\ level[q] > 1 \/ ~hooked => s0 = scopeOf[q]
      /\ level[q] = 1 /\ hooked => s0 = slot
  BY <1>1, LeavesOpen
<1>3. /\ UNCHANGED <<scopeOf, stacks, previous, closed, made, got, met, lost, stray>>
      /\ level' = [level EXCEPT ![q] = level[q] - 1] /\ depth' = [depth EXCEPT ![s0] = depth[s0] - 1]
      /\ active' = [active EXCEPT ![q] = previous[s0]]
  BY DEF Exit
<1>4. CASE depth[s0] = 1
  <2>1. /\ cache' = [cache EXCEPT ![s0] = [k \in Keys |-> None]]
        /\ context' = [context EXCEPT ![s0] = None]
        /\ at' = [at EXCEPT ![q] = 0]
        /\ closing' = [closing EXCEPT ![q] = s0]
        /\ pc' = [pc EXCEPT ![q] = "closing"]
    BY <1>4 DEF Exit
  <2> HIDE DEF s0
  <2>2. \A p \in Requests : /\ p # q => /\ pc'[p] = pc[p] /\ at'[p] = at[p] /\ closing'[p] = closing[p]
                                        /\ level'[p] = level[p] /\ active'[p] = active[p]
                            /\ p = q => pc'[p] = "closing" /\ at'[p] = 0 /\ closing'[p] = s0
    BY <1>1, <1>3, <2>1 DEF TypeOK
  <2>3. \A s \in Scopes : /\ s # s0 => cache'[s] = cache[s] /\ context'[s] = context[s] /\ depth'[s] = depth[s]
                          /\ s = s0 => (\A k \in Keys : cache'[s][k] = None) /\ depth'[s] = 0
    BY <1>1, <1>2, <1>3, <1>4, <2>1 DEF TypeOK
  <2>4. History'
    <3>1. None \notin Obj
      BY ScopeAssumption DEF Obj
    <3>2. \A s \in Scopes : \A k \in Keys : cache'[s][k] = None \/ cache'[s][k] = cache[s][k]
      BY <2>3
    <3>3. AllKnown'
      BY <1>1, <1>3, <3>1, <3>2 DEF History, AllKnown, Known, Opened
    <3>4. MetInside'
      BY <1>1, <1>2, <1>3, <2>2, MetKept DEF History, Inside
    <3> QED BY <1>1, <1>3, <2>2, <3>3, <3>4 DEF History
  <2>5. CASE Forgot'
    <3>1. CleanInv'
      BY <2>5 DEF CleanInv, ClosesOwn, Apart, HeldIsOpen, ScopeKept, Sound, OwnScope, Clean
    <3> QED BY <2>4, <3>1 DEF IInv
  <2>6. CASE ~Forgot'
    <3>1. ~Forgot
      BY <1>3, <2>6 DEF Forgot
    <3>2. s0 = scopeOf[q]
      BY <1>1, <1>2, <3>1 DEF CountInv, OneHooked
    <3>3. /\ \A s \in Scopes : (Sound(s)' <=> Sound(s)) /\ Opened(s)' = Opened(s)
          /\ \A p \in Requests : Clean(p)' <=> Clean(p)
          /\ \A p \in Requests : Inside(p)' <=> Inside(p) /\ p # q
      BY <1>3, <2>2 DEF Sound, Forgot, Opened, Clean, Inside
    \* Nobody else is in the scope.
    <3>4. ASSUME NEW p \in Requests, p # q, scopeOf[p] = s0, pc[p] \notin {"idle", "ended"}, Sound(s0)
          PROVE  FALSE
      <4>1. q \in Present(s0) /\ p \in Present(s0)
        BY <1>2, <3>2, <3>4 DEF Present, Inside
      <4>2. CASE pc[p] = "closing"
        <5>1. Present(s0) = {p}
          BY <1>1, <1>2, <3>4, <4>2 DEF CleanInv, ScopeKept
        <5> QED BY <3>4, <4>1, <5>1
      <4>3. CASE pc[p] # "closing"
        <5>1. Inside(p)'
          BY <1>1, <2>2, <3>4, <4>3 DEF Inside, TypeOK
        <5>2. depth'[s0] # 0
          BY <1>2, <1>3, <2>6, <3>4, <5>1, OpenIffInsideNext
        <5> QED BY <1>2, <2>3, <5>2
      <4> QED BY <4>2, <4>3
    <3>5. \A s \in Scopes : ScopeKept(s)'
      <4> SUFFICES ASSUME NEW s \in Scopes, Sound(s) PROVE ScopeKept(s)'
        BY <3>3 DEF ScopeKept
      <4>1. /\ \A k \in Keys : cache[s][k] \in Obj => cache[s][k] \in closed \cup Opened(s)
            /\ \A p \in Requests : scopeOf[p] = s => got[p] \cap Obj \subseteq closed \cup Opened(s)
            /\ depth[s] = 0 => \A k \in Keys : cache[s][k] = None
            /\ Present(s) = {} => stacks[s] = <<>>
            /\ \A p \in Requests : scopeOf[p] = s /\ pc[p] = "closing" =>
                 /\ Present(s) = {p}
                 /\ \A i \in DOMAIN stacks[s] : i <= at[p] => stacks[s][i] \in closed
        BY <1>1 DEF CleanInv, ScopeKept
      <4>2. scopeOf' = scopeOf /\ stacks' = stacks /\ closed' = closed /\ got' = got
        BY <1>3
      <4>3. CASE s # s0
        <5>1. Present(s)' = Present(s)
          BY <2>2, <3>2, <4>2, <4>3 DEF Present
        <5>2. \A p \in Requests : scopeOf[p] = s => p # q
          BY <3>2, <4>3
        <5> QED BY <2>2, <2>3, <3>3, <4>1, <4>2, <4>3, <5>1, <5>2 DEF ScopeKept
      <4>4. CASE s = s0
        <5>1. Present(s)' = {q}
          BY <2>2, <3>2, <3>4, <4>2, <4>4 DEF Present
        <5>2. \A p \in Requests : scopeOf[p] = s /\ pc'[p] = "closing" => p = q
          BY <2>2, <3>4, <4>4
        <5>3. None \notin Obj
          BY ScopeAssumption DEF Obj
        <5>4. \A i \in DOMAIN stacks[s] : ~(i <= 0)
          <6>1. stacks[s] \in Seq(Obj)
            BY <1>1 DEF TypeOK
          <6> QED BY <6>1
        <5>5. at'[q] = 0
          BY <2>2
        <5>6. \A k \in Keys : cache'[s][k] = None
          BY <2>3, <4>4
        <5>7. \A p \in Requests : scopeOf'[p] = s /\ pc'[p] = "closing" =>
                /\ Present(s)' = {p}
                /\ \A i \in DOMAIN stacks'[s] : i <= at'[p] => stacks'[s][i] \in closed'
          BY <4>2, <5>1, <5>2, <5>4, <5>5
        <5>8. Present(s)' # {}
          BY <5>1
        <5> QED BY <3>3, <4>1, <4>2, <5>3, <5>6, <5>7, <5>8 DEF ScopeKept
      <4> QED BY <4>3, <4>4
    <3>6. \A p \in Requests : OwnScope(p)'
      <4> SUFFICES ASSUME NEW p \in Requests, Clean(p) PROVE OwnScope(p)'
        BY <3>3 DEF OwnScope
      <4>1. OwnScope(p) /\ scopeOf[p] \in Scopes /\ scopeOf' = scopeOf /\ got' = got /\ previous' = previous
        BY <1>1, <1>3 DEF CleanInv, TypeOK
      <4>2. Inside(p)' => scopeOf[p] # s0 /\ p # q /\ Inside(p)
        BY <1>1, <1>2, <3>2, <3>3, CleanAlone DEF History, Inside
      <4> QED BY <2>2, <2>3, <3>3, <4>1, <4>2 DEF OwnScope
    <3>7. (Apart /\ HeldIsOpen)'
      BY <1>1, <1>3, <2>2, <3>3 DEF CleanInv, Apart, HeldIsOpen
    <3>8. ClosesOwn'
      BY <1>1, <1>3, <2>2, <3>1, <3>2 DEF CleanInv, ClosesOwn
    <3> QED BY <2>4, <3>5, <3>6, <3>7, <3>8 DEF IInv, CleanInv
  <2> QED BY <2>5, <2>6
<1>5. CASE depth[s0] # 1
  <2>1. /\ UNCHANGED <<cache, context, at, closing>>
        /\ pc' = IF level[q] = 1 THEN [pc EXCEPT ![q] = "ended"] ELSE pc
    BY <1>5 DEF Exit
  <2> HIDE DEF s0
  <2>2. \A p \in Requests : /\ p # q => pc'[p] = pc[p] /\ level'[p] = level[p] /\ active'[p] = active[p]
                            /\ p = q => /\ pc'[p] = IF level[q] = 1 THEN "ended" ELSE pc[q]
                                        /\ level'[p] = level[q] - 1
                                        /\ active'[p] = previous[s0]
    BY <1>1, <1>3, <2>1 DEF TypeOK
  <2>3. \A s \in Scopes : depth'[s] = IF s = s0 THEN depth[s] - 1 ELSE depth[s]
    BY <1>1, <1>3 DEF TypeOK
  <2>4. History'
    <3>1. AllKnown'
      BY <1>1, <1>3, <2>1 DEF History, AllKnown, Known, Opened
    <3>2. MetInside'
      BY <1>1, <1>2, <1>3, <2>2, MetKept DEF History, Inside
    <3> QED BY <1>1, <1>2, <1>3, <2>2, <3>1, <3>2 DEF History, Inside
  <2>5. CASE Forgot'
    <3>1. CleanInv'
      BY <2>5 DEF CleanInv, ClosesOwn, Apart, HeldIsOpen, ScopeKept, Sound, OwnScope, Clean
    <3> QED BY <2>4, <3>1 DEF IInv
  <2>6. CASE ~Forgot'
    <3>1. ~Forgot
      BY <1>3, <2>6 DEF Forgot
    <3>2. s0 = scopeOf[q]
      BY <1>1, <1>2, <3>1 DEF CountInv, OneHooked
    <3>3. /\ \A s \in Scopes : (Sound(s)' <=> Sound(s)) /\ Opened(s)' = Opened(s)
          /\ \A p \in Requests : Clean(p)' <=> Clean(p)
          /\ \A p \in Requests : Inside(p)' => Inside(p)
          /\ \A p \in Requests : pc'[p] = "closing" <=> pc[p] = "closing"
      BY <1>2, <1>3, <2>2 DEF Sound, Forgot, Opened, Clean, Inside
    <3>4. depth'[s0] # 0
      BY <1>2, <1>5, <2>3
    \* Others are still inside.
    <3>5. \A s \in Scopes : s = s0 => Present(s)' # {}
      <4> SUFFICES ASSUME NEW s \in Scopes, s = s0 PROVE Present(s)' # {}
        OBVIOUS
      <4>1. PICK p \in Requests : scopeOf'[p] = s /\ Inside(p)'
        BY <2>6, <3>4, OpenIffInsideNext
      <4>2. p \in Present(s)'
        BY <4>1 DEF Present, Inside
      <4> QED BY <4>2
    <3>6. \A s \in Scopes : ScopeKept(s)'
      <4> SUFFICES ASSUME NEW s \in Scopes, Sound(s) PROVE ScopeKept(s)'
        BY <3>3 DEF ScopeKept
      <4>1. /\ \A k \in Keys : cache[s][k] \in Obj => cache[s][k] \in closed \cup Opened(s)
            /\ \A p \in Requests : scopeOf[p] = s => got[p] \cap Obj \subseteq closed \cup Opened(s)
            /\ depth[s] = 0 => \A k \in Keys : cache[s][k] = None
            /\ Present(s) = {} => stacks[s] = <<>>
            /\ \A p \in Requests : scopeOf[p] = s /\ pc[p] = "closing" =>
                 /\ Present(s) = {p}
                 /\ \A i \in DOMAIN stacks[s] : i <= at[p] => stacks[s][i] \in closed
        BY <1>1 DEF CleanInv, ScopeKept
      <4>2. scopeOf' = scopeOf /\ stacks' = stacks /\ closed' = closed /\ got' = got /\ cache' = cache
            /\ at' = at
        BY <1>3, <2>1
      <4>3. CASE s # s0
        <5>1. Present(s)' = Present(s)
          BY <2>2, <3>2, <4>2, <4>3 DEF Present
        <5> QED BY <2>3, <3>3, <4>1, <4>2, <4>3, <5>1 DEF ScopeKept
      <4>4. CASE s = s0
        <5>1. \A p \in Requests : scopeOf[p] = s => pc[p] # "closing"
          <6> SUFFICES ASSUME NEW p \in Requests, scopeOf[p] = s, pc[p] = "closing" PROVE FALSE
            OBVIOUS
          <6>1. q \in Present(s)
            BY <1>2, <3>2, <4>4 DEF Present, Inside
          <6>2. Present(s) = {p}
            BY <4>1
          <6> QED BY <1>2, <6>1, <6>2 DEF Inside
        <5>2. \A p \in Requests : scopeOf'[p] = s => pc'[p] # "closing"
          BY <3>3, <4>2, <5>1
        <5>3. depth'[s] # 0 /\ Present(s)' # {}
          BY <3>4, <3>5, <4>4
        <5> QED BY <3>3, <4>1, <4>2, <5>2, <5>3 DEF ScopeKept
      <4> QED BY <4>3, <4>4
    <3>7. \A p \in Requests : OwnScope(p)'
      <4> SUFFICES ASSUME NEW p \in Requests, Clean(p) PROVE OwnScope(p)'
        BY <3>3 DEF OwnScope
      <4>1. OwnScope(p) /\ scopeOf[p] \in Scopes /\ scopeOf' = scopeOf /\ got' = got
            /\ previous' = previous /\ cache' = cache /\ context' = context
        BY <1>1, <1>3, <2>1 DEF CleanInv, TypeOK
      <4>2. CASE p # q
        BY <2>2, <3>3, <4>1, <4>2 DEF OwnScope
      <4>3. CASE p = q
        <5>1. Inside(p)' => level[q] > 1
          BY <1>2, <2>2, <4>3 DEF Inside
        <5>2. Inside(p)' => active'[q] = s0
          BY <1>2, <2>2, <3>2, <4>1, <4>3, <5>1 DEF OwnScope
        <5> QED BY <1>2, <2>2, <3>2, <3>3, <4>1, <4>3, <5>1, <5>2 DEF OwnScope
      <4> QED BY <4>2, <4>3
    <3>8. (Apart /\ HeldIsOpen)'
      BY <1>1, <1>3, <2>2, <3>3 DEF CleanInv, Apart, HeldIsOpen
    <3>9. ClosesOwn'
      BY <1>1, <1>3, <2>1, <3>1, <3>3 DEF CleanInv, ClosesOwn
    <3> QED BY <2>4, <3>6, <3>7, <3>8, <3>9 DEF IInv, CleanInv
  <2> QED BY <2>5, <2>6
<1> QED BY <1>4, <1>5

\* A closing that is cancelled leaves a stray scope.
LEMMA CancelClosingClean ==
  ASSUME IInv, CountInv', NEW q \in Requests, Cancel(q), pc[q] # "body"
  PROVE  IInv'
<1>1. TypeOK /\ History /\ CleanInv /\ CountInv
  BY DEF IInv, CountInv
<1>2. /\ pc[q] = "closing" /\ pc' = [pc EXCEPT ![q] = "ended"] /\ stray' = stray \cup {closing[q]}
      /\ UNCHANGED <<scopeOf, cache, context, stacks, depth, previous, active, level, at, closed,
                     made, got, met, closing, lost>>
  BY DEF Cancel, hooks
<1>3. \A p \in Requests : pc'[p] = IF p = q THEN "ended" ELSE pc[p]
  BY <1>1, <1>2 DEF TypeOK
<1>4. History'
  <2>1. AllKnown'
    BY <1>1, <1>2 DEF History, AllKnown, Known, Opened
  <2>2. MetInside'
    BY <1>1, <1>2, <1>3, MetKept DEF History
  <2> QED BY <1>1, <1>2, <1>3, <2>1, <2>2 DEF History
<1>5. /\ \A s \in Scopes : Opened(s)' = Opened(s)
      /\ \A s \in Scopes : Sound(s)' => Sound(s) /\ s # closing[q]
      /\ \A p \in Requests : Clean(p)' => Clean(p)
      /\ \A p \in Requests : Inside(p)' <=> Inside(p)
  BY <1>2, <1>3 DEF Sound, Forgot, Opened, Clean, Inside
<1>6. \A s \in Scopes : ScopeKept(s)'
  <2> SUFFICES ASSUME NEW s \in Scopes, Sound(s), s # closing[q] PROVE ScopeKept(s)'
    BY <1>5 DEF ScopeKept
  <2>1. ScopeKept(s)
    BY <1>1 DEF CleanInv
  <2>2. scopeOf[q] # s
    BY <1>1, <1>2 DEF CleanInv, ClosesOwn, Sound
  <2>3. Present(s)' = Present(s)
    BY <1>2, <1>3, <2>2 DEF Present
  <2> QED BY <1>2, <1>3, <1>5, <2>1, <2>2, <2>3 DEF ScopeKept
<1>7. \A p \in Requests : OwnScope(p)'
  BY <1>1, <1>2, <1>5 DEF CleanInv, OwnScope
<1>8. (Apart /\ HeldIsOpen /\ ClosesOwn)'
  BY <1>1, <1>2, <1>3, <1>5 DEF CleanInv, Apart, HeldIsOpen, ClosesOwn, Forgot
<1> QED BY <1>4, <1>6, <1>7, <1>8 DEF IInv, CleanInv

\* Only what is on the stacks of the request's own scope is finalized.
LEMMA CloseNextClean ==
  ASSUME IInv, CountInv', NEW q \in Requests, CloseNext(q)
  PROVE  IInv'
<1> DEFINE s0 == closing[q]
           o == stacks[s0][at[q] + 1]
<1>1. TypeOK /\ History /\ CleanInv /\ CountInv
  BY DEF IInv, CountInv
<1>2. /\ pc[q] = "closing" /\ s0 \in Scopes
      /\ at' = [at EXCEPT ![q] = at[q] + 1]
      /\ closed' = closed \cup {o}
      /\ UNCHANGED <<scopeOf, cache, context, stacks, depth, previous, active, pc, level,
                     made, got, met, stray, closing, lost>>
  BY <1>1 DEF CloseNext, hooks, CountInv, LevelOf
<1>3. o \in Opened(s0) /\ at[q] \in Nat
  <2>1. stacks[s0] \in Seq(Obj) /\ at[q] \in Nat /\ at[q] < Len(stacks[s0])
    BY <1>1, <1>2 DEF TypeOK, CloseNext
  <2> QED BY <2>1 DEF Opened
<1>4. \A p \in Requests : at'[p] = IF p = q THEN at[q] + 1 ELSE at[p]
  BY <1>1, <1>2 DEF TypeOK
<1>5. /\ \A s \in Scopes : Opened(s)' = Opened(s) /\ (Sound(s)' <=> Sound(s)) /\ Present(s)' = Present(s)
      /\ \A p \in Requests : (Clean(p)' <=> Clean(p)) /\ (Inside(p)' <=> Inside(p))
  BY <1>2 DEF Sound, Forgot, Opened, Clean, Inside, Present
<1>6. History'
  <2>1. Known(o)
    BY <1>1, <1>2, <1>3 DEF History, AllKnown
  <2> HIDE DEF o
  <2>2. AllKnown'
    BY <1>1, <1>2, <1>5, <2>1 DEF History, AllKnown, Known
  <2>3. MetInside'
    BY <1>1, <1>2, MetKept DEF History
  <2> QED BY <1>1, <1>2, <2>2, <2>3 DEF History
<1>7. \A s \in Scopes : ScopeKept(s)'
  <2> SUFFICES ASSUME NEW s \in Scopes, Sound(s) PROVE ScopeKept(s)'
    BY <1>5 DEF ScopeKept
  <2>1. /\ \A k \in Keys : cache[s][k] \in Obj => cache[s][k] \in closed \cup Opened(s)
        /\ \A p \in Requests : scopeOf[p] = s => got[p] \cap Obj \subseteq closed \cup Opened(s)
        /\ depth[s] = 0 => \A k \in Keys : cache[s][k] = None
        /\ Present(s) = {} => stacks[s] = <<>>
        /\ \A p \in Requests : scopeOf[p] = s /\ pc[p] = "closing" =>
             /\ Present(s) = {p}
             /\ \A i \in DOMAIN stacks[s] : i <= at[p] => stacks[s][i] \in closed
    BY <1>1 DEF CleanInv, ScopeKept
  <2>2. scopeOf[q] = s0 \/ Forgot
    BY <1>1, <1>2 DEF CleanInv, ClosesOwn
  <2>3. ASSUME NEW p \in Requests, scopeOf[p] = s, pc[p] = "closing",
               NEW i \in DOMAIN stacks[s], i <= at'[p]
        PROVE  stacks[s][i] \in closed'
    <3>1. i \in Nat
      BY <1>1, SMTT(30) DEF TypeOK
    <3>2. CASE i <= at[p]
      BY <1>2, <2>1, <2>3, <3>2
    <3>3. CASE ~(i <= at[p])
      <4>1. p = q /\ i = at[q] + 1
        BY <1>3, <1>4, <2>3, <3>1, <3>3
      <4>2. s = s0
        BY <2>2, <2>3, <4>1 DEF Sound
      <4> QED BY <1>2, <4>1, <4>2
    <3> QED BY <3>2, <3>3
  <2>4. /\ \A k \in Keys : cache[s][k] \in Obj => cache[s][k] \in closed' \cup Opened(s)
        /\ \A p \in Requests : scopeOf[p] = s => got[p] \cap Obj \subseteq closed' \cup Opened(s)
    BY <1>2, <2>1
  <2> QED BY <1>2, <1>5, <2>1, <2>3, <2>4 DEF ScopeKept
<1>8. \A p \in Requests : OwnScope(p)'
  BY <1>1, <1>2, <1>5 DEF CleanInv, OwnScope
<1>9. HeldIsOpen'
  <2> SUFFICES ASSUME NEW p \in Requests, Clean(p), pc[p] = "body", o \in got[p] PROVE FALSE
    BY <1>1, <1>2, <1>5 DEF CleanInv, HeldIsOpen
  <2>1. s0 = scopeOf[p]
    BY <1>1, <1>2, <1>3 DEF CleanInv, OwnScope
  <2>2. scopeOf[q] = s0
    BY <1>1, <1>2 DEF CleanInv, ClosesOwn, Clean
  <2> QED BY <1>1, <1>2, <2>1, <2>2, CleanAlone DEF History
<1>10. (Apart /\ ClosesOwn)'
  BY <1>1, <1>2, <1>5 DEF CleanInv, Apart, ClosesOwn, Forgot
<1> QED BY <1>6, <1>7, <1>8, <1>9, <1>10 DEF IInv, CleanInv

\* The loop has gone through all of the list when the list is dropped.
LEMMA FinishClean ==
  ASSUME IInv, CountInv', NEW q \in Requests, Finish(q)
  PROVE  IInv'
<1> DEFINE s0 == closing[q]
<1>1. TypeOK /\ History /\ CleanInv /\ CountInv
  BY DEF IInv, CountInv
<1>2. /\ pc[q] = "closing" /\ s0 \in Scopes /\ at[q] >= Len(stacks[s0])
      /\ stacks' = [stacks EXCEPT ![s0] = <<>>] /\ pc' = [pc EXCEPT ![q] = "ended"]
      /\ UNCHANGED <<scopeOf, cache, context, depth, previous, active, level, at, closed,
                     made, got, met, stray, closing, lost>>
  BY <1>1 DEF Finish, hooks, CountInv, LevelOf
<1>3. \A p \in Requests : pc'[p] = IF p = q THEN "ended" ELSE pc[p]
  BY <1>1, <1>2 DEF TypeOK
<1>4. /\ \A s \in Scopes : stacks'[s] = IF s = s0 THEN <<>> ELSE stacks[s]
      /\ \A s \in Scopes : Opened(s)' = IF s = s0 THEN {} ELSE Opened(s)
  BY <1>1, <1>2 DEF TypeOK, Opened
<1>5. /\ \A s \in Scopes : Sound(s)' <=> Sound(s)
      /\ \A p \in Requests : (Clean(p)' <=> Clean(p)) /\ (Inside(p)' <=> Inside(p))
  BY <1>2, <1>3 DEF Sound, Forgot, Clean, Inside
<1>6. History'
  <2>1. AllKnown'
    BY <1>1, <1>2, <1>4 DEF History, AllKnown, Known
  <2>2. MetInside'
    BY <1>1, <1>2, <1>3, MetKept DEF History
  <2> QED BY <1>1, <1>2, <1>3, <2>1, <2>2 DEF History
<1>7. ~Forgot => scopeOf[q] = s0
  BY <1>1, <1>2 DEF CleanInv, ClosesOwn
<1>8. \A s \in Scopes : ScopeKept(s)'
  <2> SUFFICES ASSUME NEW s \in Scopes, Sound(s) PROVE ScopeKept(s)'
    BY <1>5 DEF ScopeKept
  <2>1. /\ \A k \in Keys : cache[s][k] \in Obj => cache[s][k] \in closed \cup Opened(s)
        /\ \A p \in Requests : scopeOf[p] = s => got[p] \cap Obj \subseteq closed \cup Opened(s)
        /\ depth[s] = 0 => \A k \in Keys : cache[s][k] = None
        /\ Present(s) = {} => stacks[s] = <<>>
        /\ \A p \in Requests : scopeOf[p] = s /\ pc[p] = "closing" =>
             /\ Present(s) = {p}
             /\ \A i \in DOMAIN stacks[s] : i <= at[p] => stacks[s][i] \in closed
    BY <1>1 DEF CleanInv, ScopeKept
  <2>2. scopeOf[q] = s0
    BY <1>7 DEF Sound
  <2>3. CASE s # s0
    <3>1. Present(s)' = Present(s)
      BY <1>2, <1>3, <2>2, <2>3 DEF Present
    <3>2. \A p \in Requests : scopeOf[p] = s /\ pc'[p] = "closing" => pc[p] = "closing"
      BY <1>3
    <3> QED BY <1>2, <1>4, <2>1, <2>3, <3>1, <3>2 DEF ScopeKept
  <2>4. CASE s = s0
    <3>1. stacks[s] \in Seq(Obj) /\ at[q] \in Nat
      BY <1>1 DEF TypeOK
    <3>2. Opened(s) \subseteq closed
      BY <1>2, <2>1, <2>2, <2>4, <3>1 DEF Opened
    <3>3. \A p \in Requests : scopeOf[p] = s => pc'[p] # "closing"
      <4> SUFFICES ASSUME NEW p \in Requests, scopeOf[p] = s, pc'[p] = "closing" PROVE FALSE
        OBVIOUS
      <4>1. p # q /\ pc[p] = "closing"
        BY <1>3
      <4>2. Present(s) = {p} /\ Present(s) = {q}
        BY <1>2, <2>1, <2>2, <2>4, <4>1
      <4> QED BY <4>1, <4>2
    <3>4. stacks'[s] = <<>> /\ Opened(s)' = {}
      BY <1>4, <2>4
    <3>5. /\ \A k \in Keys : cache[s][k] \in Obj => cache[s][k] \in closed
          /\ \A p \in Requests : scopeOf[p] = s => got[p] \cap Obj \subseteq closed
      BY <2>1, <3>2
    <3> QED BY <1>2, <2>1, <3>3, <3>4, <3>5 DEF ScopeKept
  <2> QED BY <2>3, <2>4
<1>9. \A p \in Requests : OwnScope(p)'
  BY <1>1, <1>2, <1>4, <1>5 DEF CleanInv, OwnScope
<1>10. (Apart /\ HeldIsOpen /\ ClosesOwn)'
  BY <1>1, <1>2, <1>3, <1>5 DEF CleanInv, Apart, HeldIsOpen, ClosesOwn, Forgot
<1> QED BY <1>6, <1>8, <1>9, <1>10 DEF IInv, CleanInv

\* Whoever enters finds an empty scope, or meets those who are in it.
LEMMA EnterClean ==
  ASSUME IInv, CountInv', NEW q \in Requests, Enter(q)
  PROVE  IInv'
<1> DEFINE s0 == scopeOf[q]
<1>1. TypeOK /\ History /\ CleanInv /\ CountInv
  BY DEF IInv, CountInv
<1>2. /\ pc[q] = "idle" /\ s0 \in Scopes /\ level[q] = 0 /\ None \notin Scopes
      /\ level' = [level EXCEPT ![q] = 1] /\ depth' = [depth EXCEPT ![s0] = depth[s0] + 1]
      /\ previous' = [previous EXCEPT ![s0] = active[q]] /\ active' = [active EXCEPT ![q] = s0]
      /\ context' = [context EXCEPT ![s0] = q] /\ pc' = [pc EXCEPT ![q] = "body"]
      /\ UNCHANGED <<scopeOf, cache, stacks, closing, at, closed, made, got>>
  <2>1. pc[q] = "idle" /\ s0 \in Scopes /\ level[q] = 0 /\ level[q] + 1 = 1
    BY <1>1 DEF Enter, CountInv, LevelOf, TypeOK
  <2> QED BY <2>1, ScopeAssumption DEF Enter, Open
<1>3. /\ met' = IF Present(s0) = {} THEN met ELSE met \cup {q} \cup Present(s0)
      /\ stray' = IF \E p \in Present(s0) : pc[p] = "closing" THEN stray \cup {s0} ELSE stray
      /\ lost' = IF slot = None THEN lost ELSE [lost EXCEPT ![slot] = @ + 1]
  BY DEF Enter
<1> HIDE DEF s0
<1>4. \A p \in Requests : /\ pc'[p] = IF p = q THEN "body" ELSE pc[p]
                          /\ level'[p] = IF p = q THEN 1 ELSE level[p]
                          /\ active'[p] = IF p = q THEN s0 ELSE active[p]
  BY <1>1, <1>2 DEF TypeOK
<1>5. \A s \in Scopes : /\ depth'[s] = IF s = s0 THEN depth[s] + 1 ELSE depth[s]
                        /\ previous'[s] = IF s = s0 THEN active[q] ELSE previous[s]
                        /\ context'[s] = IF s = s0 THEN q ELSE context[s]
                        /\ depth[s] \in Nat
  BY <1>1, <1>2 DEF TypeOK
<1>6. s0 = scopeOf[q] /\ q \notin Present(s0) /\ scopeOf' = scopeOf
  BY <1>2 DEF Present, s0
<1>7. History'
  <2>1. AllKnown'
    BY <1>1, <1>2 DEF History, AllKnown, Known, Opened
  <2>2. MetInside'
    <3> SUFFICES ASSUME NEW p \in Requests, NEW r \in Requests, p # r, scopeOf[p] = scopeOf[r],
                        pc'[p] \notin {"idle", "ended"}, pc'[r] \notin {"idle", "ended"}
                 PROVE  p \in met'
      BY <1>6 DEF MetInside, Present
    <3>1. CASE p # q /\ r # q
      BY <1>1, <1>3, <1>4, <3>1 DEF History, MetInside, Present
    <3>2. CASE p = q
      <4>1. r \in Present(s0)
        BY <1>4, <1>6, <3>2 DEF Present
      <4> QED BY <1>3, <3>2, <4>1
    <3>3. CASE r = q
      <4>1. p \in Present(s0)
        BY <1>4, <1>6, <3>3 DEF Present
      <4> QED BY <1>3, <4>1
    <3> QED BY <3>1, <3>2, <3>3
  <2> QED BY <1>1, <1>2, <1>4, <2>1, <2>2 DEF History
<1>8. CASE Forgot'
  <2>1. CleanInv'
    BY <1>8 DEF CleanInv, ClosesOwn, Apart, HeldIsOpen, ScopeKept, Sound, OwnScope, Clean
  <2> QED BY <1>7, <2>1 DEF IInv
<1>9. CASE ~Forgot'
  <2>1. ~Forgot /\ lost' = lost
    <3>1. slot = None
      <4> SUFFICES ASSUME slot # None PROVE FALSE
        OBVIOUS
      <4>1. slot \in Scopes /\ lost'[slot] = lost[slot] + 1 /\ lost[slot] \in Nat
        BY <1>1, <1>3 DEF TypeOK
      <4> QED BY <1>9, <4>1 DEF Forgot
    <3> QED BY <1>3, <1>9, <3>1 DEF Forgot
  <2>2. /\ \A s \in Scopes : Opened(s)' = Opened(s)
        /\ \A s \in Scopes : Sound(s)' => /\ Sound(s)
                                          /\ s = s0 => \A p \in Present(s0) : pc[p] # "closing"
        /\ \A p \in Requests : Clean(p)' => /\ Clean(p) /\ p \notin Present(s0)
                                            /\ p = q => Present(s0) = {}
        /\ \A p \in Requests : Inside(p)' <=> Inside(p) \/ p = q
    BY <1>2, <1>3, <1>4, <1>6, <2>1 DEF Sound, Forgot, Opened, Clean, Inside
  <2>3. \A s \in Scopes : s # s0 => Present(s)' = Present(s)
    BY <1>4, <1>6 DEF Present
  <2>4. \A s \in Scopes : ScopeKept(s)'
    <3> SUFFICES ASSUME NEW s \in Scopes, Sound(s),
                        s = s0 => \A p \in Present(s0) : pc[p] # "closing"
                 PROVE  ScopeKept(s)'
      BY <2>2 DEF ScopeKept
    <3>1. /\ \A k \in Keys : cache[s][k] \in Obj => cache[s][k] \in closed \cup Opened(s)
          /\ \A p \in Requests : scopeOf[p] = s => got[p] \cap Obj \subseteq closed \cup Opened(s)
          /\ depth[s] = 0 => \A k \in Keys : cache[s][k] = None
          /\ Present(s) = {} => stacks[s] = <<>>
          /\ \A p \in Requests : scopeOf[p] = s /\ pc[p] = "closing" =>
               /\ Present(s) = {p}
               /\ \A i \in DOMAIN stacks[s] : i <= at[p] => stacks[s][i] \in closed
      BY <1>1 DEF CleanInv, ScopeKept
    <3>2. CASE s # s0
      <4>1. \A p \in Requests : scopeOf[p] = s => pc'[p] = pc[p]
        BY <1>4, <1>6, <3>2
      <4>2. depth'[s] = depth[s] /\ Present(s)' = Present(s)
        BY <1>5, <2>3, <3>2
      <4> QED BY <1>2, <2>2, <3>1, <4>1, <4>2 DEF ScopeKept
    <3>3. CASE s = s0
      <4>1. \A p \in Requests : scopeOf[p] = s => pc'[p] # "closing"
        BY <1>4, <3>3 DEF Present
      <4>2. depth'[s] # 0
        BY <1>5, <3>3
      <4>3. Present(s)' # {}
        <5>1. q \in Present(s)'
          BY <1>4, <1>6, <3>3 DEF Present
        <5> QED BY <5>1
      <4> QED BY <1>2, <2>2, <3>1, <4>1, <4>2, <4>3 DEF ScopeKept
    <3> QED BY <3>2, <3>3
  <2>5. \A p \in Requests : OwnScope(p)'
    <3> SUFFICES ASSUME NEW p \in Requests, Clean(p)', Clean(p), p \notin Present(s0),
                        p = q => Present(s0) = {}
                 PROVE  OwnScope(p)'
      BY <2>2 DEF OwnScope
    <3>1. OwnScope(p) /\ scopeOf[p] \in Scopes
      BY <1>1 DEF CleanInv, TypeOK
    <3>2. CASE p # q
      <4>1. Inside(p)' => Inside(p) /\ scopeOf[p] # s0
        BY <2>2, <3>2 DEF Present, Inside
      <4>2. active'[p] = active[p] /\ level'[p] = level[p]
        BY <1>4, <3>2
      <4>3. got' = got /\ cache' = cache
        BY <1>2
      <4> QED BY <1>5, <1>6, <2>2, <3>1, <4>1, <4>2, <4>3 DEF OwnScope
    <3>3. CASE p = q
      <4>1. \A r \in Requests : scopeOf[r] = s0 => ~Inside(r)
        BY <3>3 DEF Present, Inside
      <4>2. depth[s0] = 0
        BY <1>1, <1>2, <2>1, <4>1, OpenIffInside
      <4>3. Sound(s0)
        BY <1>6, <3>3 DEF Clean, Sound
      <4>4. \A k \in Keys : cache[s0][k] = None
        BY <1>1, <1>2, <4>2, <4>3 DEF CleanInv, ScopeKept
      <4>5. active'[q] = s0 /\ level'[q] = 1 /\ context'[s0] = q
        BY <1>2, <1>4, <1>5
      <4>6. got' = got /\ cache' = cache /\ ~(1 > 1)
        BY <1>2
      <4> QED BY <1>6, <2>2, <3>1, <3>3, <4>4, <4>5, <4>6 DEF OwnScope
    <3> QED BY <3>2, <3>3
  <2>6. Apart'
    BY <1>1, <1>2, <2>2 DEF CleanInv, Apart
  <2>7. HeldIsOpen'
    BY <1>1, <1>2, <1>4, <2>2 DEF CleanInv, HeldIsOpen, History
  <2>8. ClosesOwn'
    BY <1>1, <1>2, <1>4, <2>1 DEF CleanInv, ClosesOwn
  <2> QED BY <1>7, <2>4, <2>5, <2>6, <2>7, <2>8 DEF IInv, CleanInv
<1> QED BY <1>8, <1>9

LEMMA ReenterClean ==
  ASSUME IInv, CountInv', NEW q \in Requests, Reenter(q)
  PROVE  IInv'
<1> DEFINE s0 == scopeOf[q]
<1>1. TypeOK /\ History /\ CleanInv /\ CountInv
  BY DEF IInv, CountInv
<1>2. /\ pc[q] = "body" /\ s0 \in Scopes
      /\ level' = [level EXCEPT ![q] = @ + 1] /\ depth' = [depth EXCEPT ![s0] = depth[s0] + 1]
      /\ previous' = [previous EXCEPT ![s0] = active[q]] /\ active' = [active EXCEPT ![q] = s0]
      /\ UNCHANGED <<scopeOf, cache, context, stacks, pc, closing, at, closed, made, got, met,
                     stray, lost>>
  BY <1>1 DEF Reenter, Open, TypeOK, hooks
<1> HIDE DEF s0
<1>3. \A p \in Requests : /\ level'[p] = IF p = q THEN level[q] + 1 ELSE level[p]
                          /\ active'[p] = IF p = q THEN s0 ELSE active[p]
  BY <1>1, <1>2 DEF TypeOK
<1>4. \A s \in Scopes : /\ depth'[s] = IF s = s0 THEN depth[s] + 1 ELSE depth[s]
                        /\ previous'[s] = IF s = s0 THEN active[q] ELSE previous[s]
                        /\ depth[s] \in Nat
  BY <1>1, <1>2 DEF TypeOK
<1>5. s0 = scopeOf[q]
  BY DEF s0
<1>6. /\ \A s \in Scopes : Opened(s)' = Opened(s) /\ (Sound(s)' <=> Sound(s)) /\ Present(s)' = Present(s)
      /\ \A p \in Requests : (Clean(p)' <=> Clean(p)) /\ (Inside(p)' <=> Inside(p))
  BY <1>2 DEF Sound, Forgot, Opened, Clean, Inside, Present
<1>7. History'
  <2>1. AllKnown'
    BY <1>1, <1>2 DEF History, AllKnown, Known, Opened
  <2>2. MetInside'
    BY <1>1, <1>2, MetKept DEF History
  <2> QED BY <1>1, <1>2, <2>1, <2>2 DEF History
<1>8. \A s \in Scopes : ScopeKept(s)'
  <2> SUFFICES ASSUME NEW s \in Scopes PROVE ScopeKept(s)'
    OBVIOUS
  <2>1. ScopeKept(s)
    BY <1>1 DEF CleanInv
  <2>2. depth'[s] = 0 => depth[s] = 0
    BY <1>4
  <2> QED BY <1>2, <1>6, <2>1, <2>2 DEF ScopeKept
<1>9. \A p \in Requests : OwnScope(p)'
  <2> SUFFICES ASSUME NEW p \in Requests, Clean(p) PROVE OwnScope(p)'
    BY <1>6 DEF OwnScope
  <2>1. OwnScope(p) /\ scopeOf[p] \in Scopes
    BY <1>1 DEF CleanInv, TypeOK
  <2>2. got' = got /\ cache' = cache /\ context' = context /\ scopeOf' = scopeOf
    BY <1>2
  <2>3. CASE p # q
    <3>1. Inside(p) => scopeOf[p] # s0
      BY <1>1, <1>2, <1>5, <2>3, CleanAlone DEF History, Inside
    <3>2. active'[p] = active[p] /\ level'[p] = level[p]
      BY <1>3, <2>3
    <3> QED BY <1>4, <1>6, <2>1, <2>2, <3>1, <3>2 DEF OwnScope
  <2>4. CASE p = q
    <3>1. active'[q] = s0 /\ previous'[s0] = active[q]
      BY <1>2, <1>3, <1>4
    <3>2. Inside(q) /\ active[q] = s0
      BY <1>2, <1>5, <2>1, <2>4 DEF OwnScope, Inside
    <3> QED BY <1>5, <1>6, <2>1, <2>2, <2>4, <3>1, <3>2 DEF OwnScope
  <2> QED BY <2>3, <2>4
<1>10. (Apart /\ HeldIsOpen /\ ClosesOwn)'
  BY <1>1, <1>2, <1>6 DEF CleanInv, Apart, HeldIsOpen, ClosesOwn, Forgot
<1> QED BY <1>7, <1>8, <1>9, <1>10 DEF IInv, CleanInv

LEMMA StepClean == IInv /\ [Next]_vars => IInv'
<1> SUFFICES ASSUME IInv, [Next]_vars PROVE IInv'
  OBVIOUS
<1>1. CountInv'
  BY StepCounts DEF IInv
<1>2. CASE UNCHANGED vars
  BY <1>1, <1>2, CleanKept DEF vars, Inside
<1>3. ASSUME NEW q \in Requests, Cancel(q) PROVE IInv'
  BY <1>1, <1>3, PauseClean, CancelClosingClean
<1>4. ASSUME NEW q \in Requests, NEW k \in Keys, GetContext(q, k) PROVE IInv'
  BY <1>1, <1>4, PauseClean, GetContextClean
<1>5. ASSUME NEW q \in Requests, NEW i \in Slots,
             GetEnds(q, i) \/ GetFails(q, i) \/ \E k \in Keys : GetStarts(q, i, k)
      PROVE  IInv'
  BY <1>1, <1>5, PauseClean, GetEndsClean
<1>6. ASSUME NEW q \in Requests,
             Enter(q) \/ Reenter(q) \/ Exit(q) \/ HookFindsNothing(q) \/ CloseNext(q) \/ Finish(q)
               \/ \E k \in Keys : GetHit(q, k)
      PROVE  IInv'
  BY <1>1, <1>6, EnterClean, ReenterClean, ExitClean, HookFindsNothingClean, CloseNextClean,
     FinishClean, GetHitClean
<1>7. CASE Next
  BY <1>3, <1>4, <1>5, <1>6, <1>7 DEF Next
<1> QED BY <1>2, <1>7

LEMMA Invariance == Spec => []IInv
  BY InitClean, StepClean, PTL DEF Spec

\* Requests that use a scope object one after the other share nothing, for any
\* number of them: what the last one to leave clears is all there was.
THEOREM ReuseIsAlwaysClean == Spec => []ReuseIsClean
<1>1. IInv => ReuseIsClean
  BY DEF IInv, CleanInv, OwnScope, Apart, ReuseIsClean
<1> QED BY <1>1, Invariance, PTL

\* No handler holds a resource that was finalized, unless its scope was shared
\* at the same time.
THEOREM HeldStaysOpen == Spec => []HeldIsOpen
<1>1. IInv => HeldIsOpen
  BY DEF IInv, CleanInv
<1> QED BY <1>1, Invariance, PTL

\* When everybody has left a scope every resource that was opened in it has
\* been finalized: the loop that closes the stacks goes through a list that
\* nobody else changes.
THEOREM AllAreClosed == Spec => []AllClosed
<1>1. IInv => AllClosed
  <2> SUFFICES ASSUME IInv, NEW s \in Scopes, s \notin stray, ~Forgot, Present(s) = {},
                      NEW q \in Requests, scopeOf[q] = s
               PROVE  got[q] \cap (Resources \X Nat) \subseteq closed
    BY DEF AllClosed
  <2>1. /\ got[q] \cap Obj \subseteq closed \cup Opened(s)
        /\ stacks[s] = <<>>
    BY DEF IInv, CleanInv, ScopeKept, Sound
  <2>2. Opened(s) = {}
    BY <2>1 DEF Opened
  <2>3. got[q] \subseteq Obj \cup Requests
    BY DEF IInv, CountInv, TypeOK, Value
  <2> QED BY <2>1, <2>2, <2>3, ScopeAssumption
<1> QED BY <1>1, Invariance, PTL
=============================================================================
